-------------------------- MODULE CommunityProofs ---------------------------
(***************************************************************************)
(* Proofs about Groups, Comments, Chats, Accounts, Messages and Listings,    *)
(* for any number of users, groups, comments, likes, messages, accounts,     *)
(* subscriptions, listed rows and requests.                                  *)
(***************************************************************************)
EXTENDS Groups, Comments, Chats, Accounts, Messages, Listings, RequestsProofs,
        SequenceTheorems

-----------------------------------------------------------------------------
\* The lowest of some ids is one of them.
LEMMA LowestIsIn ==
    ASSUME NEW S \in SUBSET Nat, S # {}
    PROVE  LowestId(S) \in S /\ \A other \in S : LowestId(S) <= other
BY SomeIsLowest DEF LowestId

-----------------------------------------------------------------------------
(* Groups: members and the counts of their profiles.                       *)

groupsSpecVars == <<requestVars, groups>>

GroupGot == [id : GroupIds \cup {None}, found : BOOLEAN]

GroupCalls ==
    {"FindGroup", "InsertGroup", "CreateGroupProfile", "FindMember", "InsertMember",
     "IncMembers", "IncMembersAgain", "DeleteMember", "DecMembers"}

GroupLocals ==
    [pc : GroupCalls, user : Users,
     op : {"CreateGroup", "UserInit", "JoinGroup", "LeaveGroup"}, on : {None},
     got : GroupGot]

\* A request of u about group g makes the call pc next.
Calls(pc, g, u) ==
    \E w \in Workers :
        worker[w].pc = pc /\ worker[w].got.id = g /\ worker[w].user = u

\* The profile of the group has u in its count: a member that was counted, or
\* one that left and was not taken off.
JoinCounted(g, u) ==
    /\ ~ Calls("IncMembers", g, u)
    /\ IsMember(g, u) \/ Calls("DecMembers", g, u)

Tally(g) == {u \in Users : JoinCounted(g, u)}

\* A request knows what member rows its user has.
MembersOf(w) ==
    /\ worker[w].pc \in {"InsertMember", "DecMembers"}
          => ~ IsMember(worker[w].got.id, worker[w].user)
    /\ worker[w].pc \in {"IncMembers", "IncMembersAgain", "DeleteMember"}
          => IsMember(worker[w].got.id, worker[w].user)

Creating(g) == \E w \in Workers : worker[w].pc = "CreateGroupProfile" /\ worker[w].got.id = g

\* The count of the group is its tally, its creation and its joins; a group
\* that has no profile yet has had nobody to count.
CountOf(g) ==
    /\ IsFiniteSet(Tally(g))
    /\ g \in Free => Tally(g) = {} /\ joined[g] = 0 /\ groupProfile[g] = <<>>
    /\ g \in Known \ uncounted =>
          IF groupProfile[g] = <<>>
          THEN Tally(g) = {} /\ joined[g] = 0 /\ Creating(g)
          ELSE groupProfile[g][1] = Cardinality(Tally(g)) + 1 + joined[g]

\* The default group of u is lost to it: it left the group, or it was deleted.
Lost(u) ==
    \E g \in Known : /\ group[g].default /\ group[g].creator = u
                     /\ <<u, g>> \in left \/ ~ group[g].live

HasDefault(u) == \E g \in Known : group[g].default /\ group[g].creator = u

Adding == {"CreateGroupProfile", "FindMember", "InsertMember"}

\* The creator of a default group is a member of it, left it, or is being added.
CreatorIsIn(g) ==
    group[g].default =>
        \/ IsMember(g, group[g].creator)
        \/ <<group[g].creator, g>> \in left
        \/ \E pc \in Adding : Calls(pc, g, group[g].creator)

\* A request that found a default group adds its user again only to a new one,
\* made because the one that was found is lost.
FoundOf(w) ==
    IsDefault(w) /\ worker[w].got.found =>
        /\ worker[w].pc = "FindGroup" => HasDefault(worker[w].user)
        /\ worker[w].pc \in {"CreateGroupProfile", "FindMember"}
              => Lost(worker[w].user) \/ IsMember(worker[w].got.id, worker[w].user)
        /\ worker[w].pc \in {"InsertGroup", "InsertMember", "IncMembers"}
              => Lost(worker[w].user)

GivenInv == \A u \in given : Lost(u)

IdIsKnown(w) ==
    worker[w].pc \notin {"idle", "FindGroup", "InsertGroup"} => worker[w].got.id \in Known

GroupsInv ==
    /\ GroupsTypeOK
    /\ worker \in [Workers -> GroupLocals \cup {Idle}]
    /\ faults \in Nat
    /\ AloneInv
    /\ \A w \in Workers : IdIsKnown(w)
    /\ \A g \in Known : group[g].creator \in Users
    /\ Undisturbed => /\ \A w \in Workers : MembersOf(w) /\ FoundOf(w)
                      /\ \A g \in Known : CreatorIsIn(g)
                      /\ \A g \in GroupIds : CountOf(g)
                      /\ GivenInv

-----------------------------------------------------------------------------
LEMMA GroupsInitHolds == RequestsInit /\ GroupsInit => GroupsInv
<1> SUFFICES ASSUME RequestsInit, GroupsInit
             PROVE  GroupsInv
  OBVIOUS
<1>1. /\ worker = [w \in Workers |-> Idle] /\ \A w \in Workers : worker[w].pc = "idle"
      /\ Busy = {} /\ faults = 0
  BY DEF RequestsInit, Idle, Busy
<1>2. GroupsTypeOK
  BY DEF GroupsInit, GroupsTypeOK, NoGroup
<1>3. Free = GroupIds /\ Known = {}
  BY DEF GroupsInit, Free, Known
<1>4. \A g \in GroupIds, u \in Users : ~ IsMember(g, u)
  BY DEF GroupsInit, IsMember
<1>5. \A g \in GroupIds : Tally(g) = {}
  BY <1>1, <1>4 DEF Tally, JoinCounted, Calls
<1>6. \A g \in GroupIds : CountOf(g)
  BY <1>3, <1>5, FS_EmptySet DEF CountOf, GroupsInit
<1>7. /\ \A w \in Workers : IdIsKnown(w) /\ MembersOf(w) /\ FoundOf(w)
      /\ GivenInv
  BY <1>1, <1>3 DEF IdIsKnown, MembersOf, FoundOf, GivenInv, GroupsInit
<1> QED
  BY <1>1, <1>2, <1>3, <1>6, <1>7 DEF GroupsInv, AloneInv, Alone

-----------------------------------------------------------------------------
\* A request of u is the only one that can be about u.
LEMMA CallsOfOne ==
    ASSUME Alone, NEW w \in Workers, worker[w] # Idle,
           NEW pc, pc # "idle", NEW g
    PROVE  Calls(pc, g, worker[w].user) <=> worker[w].pc = pc /\ worker[w].got.id = g
<1>1. \A v \in Workers : worker[v].pc = pc => v \in Busy
  BY DEF Busy, Idle
<1>2. w \in Busy
  BY DEF Busy
<1> QED
  BY <1>1, <1>2 DEF Alone, Calls

\* Calls that w neither was to make nor is to make.
LEMMA CallsStay ==
    ASSUME NEW w \in Workers, OnlyMoves(w), NEW pc, NEW g, NEW u,
           ~ (worker[w].pc = pc /\ worker[w].got.id = g /\ worker[w].user = u),
           ~ (worker'[w].pc = pc /\ worker'[w].got.id = g /\ worker'[w].user = u)
    PROVE  Calls(pc, g, u)' <=> Calls(pc, g, u)
BY DEF Calls, OnlyMoves

\* The members and the calls that count them stay.
LEMMA TallyStays ==
    ASSUME NEW w \in Workers, OnlyMoves(w), UNCHANGED member,
           worker[w].pc \notin {"IncMembers", "DecMembers"},
           worker'[w].pc \notin {"IncMembers", "DecMembers"}
    PROVE  \A g : Tally(g)' = Tally(g)
<1> SUFFICES ASSUME NEW g, NEW u \in Users
             PROVE  JoinCounted(g, u)' <=> JoinCounted(g, u)
  BY DEF Tally
<1>1. /\ Calls("IncMembers", g, u)' <=> Calls("IncMembers", g, u)
      /\ Calls("DecMembers", g, u)' <=> Calls("DecMembers", g, u)
  BY CallsStay
<1> QED
  BY <1>1 DEF JoinCounted, IsMember

LEMMA CreatingStays ==
    ASSUME NEW w \in Workers, OnlyMoves(w), worker[w].pc # "CreateGroupProfile", NEW g, Creating(g)
    PROVE  Creating(g)'
BY DEF Creating, OnlyMoves

\* Nothing of the group changes, whether or not it is a request that moves.
LEMMA CountOfStays ==
    ASSUME NEW g, CountOf(g), Tally(g)' = Tally(g), Creating(g) => Creating(g)',
           joined'[g] = joined[g], groupProfile'[g] = groupProfile[g],
           g \in uncounted' <=> g \in uncounted, 
           g \in Known' <=> g \in Known, g \in Free' <=> g \in Free
    PROVE  CountOf(g)'
BY DEF CountOf

\* No group row is taken away, given to another user or brought to life.
RowsAge ==
    /\ Known \subseteq Known' /\ left \subseteq left'
    /\ \A g \in Known : /\ group'[g].default = group[g].default
                        /\ group'[g].creator = group[g].creator
                        /\ ~ group[g].live => ~ group'[g].live

LEMMA LostStays ==
    ASSUME NEW u, Lost(u), RowsAge
    PROVE  Lost(u)'
BY DEF Lost, RowsAge

LEMMA CreatorStays ==
    ASSUME NEW w \in Workers, OnlyMoves(w), NEW g, CreatorIsIn(g), left \subseteq left',
           group'[g].default = group[g].default, group'[g].creator = group[g].creator,
           IsMember(g, group[g].creator)
              => IsMember(g, group[g].creator)' \/ <<group[g].creator, g>> \in left',
           worker[w].pc \in Adding /\ worker[w].got.id = g /\ worker[w].user = group[g].creator
              => IsMember(g, group[g].creator)'
                 \/ (worker'[w].pc \in Adding /\ worker'[w].got.id = g
                     /\ worker'[w].user = group[g].creator)
    PROVE  CreatorIsIn(g)'
<1> DEFINE u == group[g].creator
<1> SUFFICES ASSUME group[g].default
             PROVE  \/ IsMember(g, u)' \/ <<u, g>> \in left'
                    \/ \E pc \in Adding : Calls(pc, g, u)'
  BY DEF CreatorIsIn
<1>1. CASE \E pc \in Adding : Calls(pc, g, u)
  <2>1. PICK v \in Workers : worker[v].pc \in Adding /\ worker[v].got.id = g /\ worker[v].user = u
    BY <1>1 DEF Calls
  <2>2. CASE v = w
    BY <2>1, <2>2 DEF Calls
  <2>3. CASE v # w
    BY <2>1, <2>3 DEF Calls, OnlyMoves
  <2> QED
    BY <2>2, <2>3
<1> QED
  BY <1>1 DEF CreatorIsIn

\* What the other requests know stays true when group rows only lose their
\* life, and member rows of their users stay.
LEMMA OtherGroupsStay ==
    ASSUME GroupsInv, RowsAge, NEW v \in Workers, worker'[v] = worker[v],
           Undisturbed =>
              \A g \in GroupIds : member'[g][worker[v].user] = member[g][worker[v].user]
    PROVE  /\ IdIsKnown(v)'
           /\ Undisturbed => MembersOf(v)' /\ FoundOf(v)'
<1>1. worker'[v] = worker[v]
  OBVIOUS
<1>2. IdIsKnown(v) /\ IdIsKnown(v)'
  BY <1>1 DEF GroupsInv, IdIsKnown, RowsAge
<1>3. Undisturbed /\ worker[v].pc \notin {"idle", "FindGroup", "InsertGroup"} =>
         (IsMember(worker[v].got.id, worker[v].user)'
             <=> IsMember(worker[v].got.id, worker[v].user))
  BY <1>1, <1>2 DEF IdIsKnown, Known, IsMember
<1>4. Lost(worker[v].user) => Lost(worker[v].user)'
  BY <1>1, LostStays
<1>5. HasDefault(worker[v].user) => HasDefault(worker[v].user)'
  BY <1>1 DEF HasDefault, RowsAge
<1>6. ASSUME Undisturbed
      PROVE  MembersOf(v)' /\ FoundOf(v)'
  <2>1. MembersOf(v) /\ FoundOf(v)
    BY <1>6 DEF GroupsInv
  <2>2. MembersOf(v)'
    BY <1>1, <1>3, <1>6, <2>1 DEF MembersOf, IsMember
  <2>3. FoundOf(v)'
    BY <1>1, <1>3, <1>6, <1>4, <1>5, <2>1 DEF FoundOf, IsDefault, IsMember, Lost, HasDefault
  <2> QED
    BY <2>2, <2>3
<1> QED
  BY <1>2, <1>6

LEMMA OthersUntouched ==
    ASSUME GroupsInv, NEW w \in Workers, OnlyMoves(w), UNCHANGED groups,
           NEW v \in Workers \ {w}
    PROVE  /\ IdIsKnown(v)'
           /\ Undisturbed => MembersOf(v)' /\ FoundOf(v)'
<1>1. UNCHANGED <<group, member, left>> /\ Known' = Known
  BY DEF groups, Known, Free
<1>2. \A g \in GroupIds : member'[g][worker[v].user] = member[g][worker[v].user]
  BY <1>1
<1>3. RowsAge /\ worker'[v] = worker[v]
  BY <1>1 DEF RowsAge, OnlyMoves
<1> QED
  BY <1>2, <1>3, OtherGroupsStay

\* A step that reads, and one that begins a request, leaves the tables alone.
LEMMA TablesStay ==
    ASSUME GroupsInv, NEW w \in Workers, OnlyMoves(w), AloneInv',
           worker' \in [Workers -> GroupLocals \cup {Idle}], UNCHANGED faults,
           UNCHANGED groups, Undisturbed' => Undisturbed,
           worker[w].pc \notin {"CreateGroupProfile", "IncMembers", "DecMembers"},
           worker'[w].pc \notin {"IncMembers", "DecMembers"},
           IdIsKnown(w)', Undisturbed => MembersOf(w)' /\ FoundOf(w)',
           \A g \in Known :
              Undisturbed /\ worker[w].pc \in Adding /\ worker[w].got.id = g
                 /\ worker[w].user = group[g].creator
              => IsMember(g, group[g].creator)
                 \/ (worker'[w].pc \in Adding /\ worker'[w].got.id = g
                     /\ worker'[w].user = group[g].creator)
    PROVE  GroupsInv'
<1>1. /\ UNCHANGED <<group, member, groupProfile, joined, uncounted, left, given>>
      /\ Known' = Known /\ Free' = Free
  BY DEF groups, Known, Free
<1>2. GroupsTypeOK' /\ faults' \in Nat
  BY <1>1 DEF GroupsInv, GroupsTypeOK
<1>3. \A v \in Workers \ {w} : /\ IdIsKnown(v)'
                               /\ Undisturbed => MembersOf(v)' /\ FoundOf(v)'
  BY OthersUntouched
<1>4. ASSUME Undisturbed, NEW g \in Known
      PROVE  CreatorIsIn(g)'
  <2>1. CreatorIsIn(g)
    BY <1>4 DEF GroupsInv
  <2> QED
    BY <1>1, <1>4, <2>1, CreatorStays DEF IsMember
<1>5. ASSUME Undisturbed, NEW g \in GroupIds
      PROVE  CountOf(g)'
  <2>1. CountOf(g)
    BY <1>5 DEF GroupsInv
  <2>2. Tally(g)' = Tally(g)
    BY <1>1, TallyStays
  <2>3. Creating(g) => Creating(g)'
    BY CreatingStays
  <2> QED
    BY <1>1, <2>1, <2>2, <2>3, CountOfStays
<1>6. Undisturbed => GivenInv'
  BY <1>1 DEF GroupsInv, GivenInv, Lost
<1>7. \A g \in Known' : group'[g].creator \in Users
  BY <1>1 DEF GroupsInv
<1> QED
  BY <1>1, <1>2, <1>3, <1>4, <1>5, <1>6, <1>7 DEF GroupsInv

-----------------------------------------------------------------------------
\* The locals of a request that makes its next call.
LEMMA GroupCallMoves ==
    ASSUME GroupsInv, NEW w \in Workers, worker[w] # Idle,
           NEW pc \in GroupCalls \cup {"idle"}, NEW got \in GroupGot, GoesWith(w, pc, got)
    PROVE  /\ worker[w] \in GroupLocals /\ OnlyMoves(w) /\ AloneInv'
           /\ worker' \in [Workers -> GroupLocals \cup {Idle}]
           /\ UNCHANGED <<faults, overlapped>> /\ (Undisturbed' <=> Undisturbed)
           /\ worker'[w].pc = pc
           /\ pc = "idle" => worker'[w] = Idle
           /\ pc # "idle" => /\ worker'[w].got = got
                             /\ worker'[w].user = worker[w].user
                             /\ worker'[w].op = worker[w].op
                             /\ worker'[w] # Idle
<1>1. /\ DOMAIN worker = Workers /\ worker[w] \in GroupLocals /\ AloneInv
      /\ worker \in [Workers -> GroupLocals \cup {Idle}]
  BY DEF GroupsInv
<1>2. /\ worker' = [worker EXCEPT ![w] = After(w, pc, got)]
      /\ worker'[w] = After(w, pc, got) /\ OnlyMoves(w) /\ AloneInv'
      /\ UNCHANGED <<served, faults, overlapped>>
  BY <1>1, CallMoves
<1>3. CASE pc = "idle"
  <2>1. worker'[w] = Idle /\ Idle.pc = "idle"
    BY <1>2, <1>3 DEF After, Idle
  <2>2. worker' \in [Workers -> GroupLocals \cup {Idle}]
    BY <1>1, <1>2, <2>1
  <2> QED
    BY <1>1, <1>2, <1>3, <2>1, <2>2 DEF Undisturbed
<1>4. CASE pc # "idle"
  <2>1. worker'[w] = [worker[w] EXCEPT !.pc = pc, !.got = got]
    BY <1>2, <1>4 DEF After
  <2>2. /\ worker'[w] \in GroupLocals /\ worker'[w].pc = pc /\ worker'[w].got = got
        /\ worker'[w].user = worker[w].user /\ worker'[w].op = worker[w].op
    BY <1>1, <1>4, <2>1 DEF GroupLocals
  <2>3. worker' \in [Workers -> GroupLocals \cup {Idle}]
    BY <1>1, <1>2, <2>2
  <2>4. worker'[w] # Idle
    BY <1>4, <2>2 DEF Idle
  <2> QED
    BY <1>1, <1>2, <1>4, <2>2, <2>3, <2>4 DEF Undisturbed
<1> QED
  BY <1>3, <1>4

LEMMA GroupRequestArrives ==
    ASSUME GroupsInv, NEW w \in Workers, NEW u \in Users,
           NEW op \in {"CreateGroup", "UserInit", "JoinGroup", "LeaveGroup"},
           NEW pc \in GroupCalls, NEW got \in GroupGot, Begins(w, u, op, None, pc, got)
    PROVE  /\ worker[w] = Idle /\ OnlyMoves(w) /\ AloneInv' /\ UNCHANGED faults
           /\ worker' \in [Workers -> GroupLocals \cup {Idle}]
           /\ Undisturbed' => Undisturbed
           /\ worker'[w].pc = pc /\ worker'[w].got = got
           /\ worker'[w].user = u /\ worker'[w].op = op
<1> DEFINE l == [pc |-> pc, user |-> u, op |-> op, on |-> None, got |-> got]
<1>1. /\ DOMAIN worker = Workers /\ AloneInv
      /\ worker \in [Workers -> GroupLocals \cup {Idle}]
  BY DEF GroupsInv
<1>2. /\ worker[w] = Idle /\ worker' = [worker EXCEPT ![w] = l] /\ worker'[w] = l
      /\ OnlyMoves(w) /\ AloneInv' /\ (Undisturbed' => Undisturbed) /\ UNCHANGED faults
  BY <1>1, RequestArrives DEF Begins
<1>3. l \in GroupLocals
  BY DEF GroupLocals
<1>4. l.pc = pc /\ l.got = got /\ l.user = u /\ l.op = op
  OBVIOUS
<1> HIDE DEF l
<1> QED
  BY <1>1, <1>2, <1>3, <1>4

LEMMA TargetIsGot ==
    ASSUME NEW g \in GroupIds \cup {None}, NEW found \in BOOLEAN
    PROVE  /\ Target(g, found) \in GroupGot
           /\ Target(g, found).id = g /\ Target(g, found).found = found
BY DEF Target, GroupGot

LEMMA GroupArrivalsKeep ==
    ASSUME GroupsInv, NEW w \in Workers, NEW u \in Users,
           CreateGroup(w, u) \/ UserInit(w, u)
              \/ \E g \in GroupIds : JoinGroup(w, u, g) \/ LeaveGroup(w, u, g)
    PROVE  GroupsInv'
<1>1. UNCHANGED groups
  BY DEF CreateGroup, UserInit, JoinGroup, LeaveGroup
<1>2. Known' = Known /\ group' = group /\ member' = member
  BY <1>1 DEF groups, Known, Free
<1>3. CASE CreateGroup(w, u)
  <2> DEFINE t == Target(None, FALSE)
  <2>1. t \in GroupGot
    BY TargetIsGot
  <2>2. Begins(w, u, "CreateGroup", None, "FindGroup", t)
    BY <1>3 DEF CreateGroup
  <2> HIDE DEF t
  <2>3. /\ worker[w] = Idle /\ OnlyMoves(w) /\ AloneInv' /\ UNCHANGED faults
        /\ worker' \in [Workers -> GroupLocals \cup {Idle}]
        /\ Undisturbed' => Undisturbed
        /\ worker'[w].pc = "FindGroup" /\ worker'[w].op = "CreateGroup"
    BY <2>1, <2>2, GroupRequestArrives DEF GroupCalls
  <2>4. IdIsKnown(w)' /\ MembersOf(w)' /\ FoundOf(w)'
    BY <2>3 DEF IdIsKnown, MembersOf, FoundOf, IsDefault
  <2>5. worker[w].pc = "idle"
    BY <2>3 DEF Idle
  <2> QED
    BY <1>1, <2>3, <2>4, <2>5, TablesStay DEF Adding
<1>4. CASE UserInit(w, u)
  <2> DEFINE t == Target(None, Named(u, TRUE) # {})
  <2>1. t \in GroupGot /\ t.found = (Named(u, TRUE) # {})
    BY TargetIsGot
  <2>2. Begins(w, u, "UserInit", None, "FindGroup", t)
    BY <1>4 DEF UserInit
  <2> HIDE DEF t
  <2>3. /\ worker[w] = Idle /\ OnlyMoves(w) /\ AloneInv' /\ UNCHANGED faults
        /\ worker' \in [Workers -> GroupLocals \cup {Idle}]
        /\ Undisturbed' => Undisturbed
        /\ worker'[w].pc = "FindGroup" /\ worker'[w].op = "UserInit"
        /\ worker'[w].got = t /\ worker'[w].user = u
    BY <2>1, <2>2, GroupRequestArrives DEF GroupCalls
  <2>4. IdIsKnown(w)' /\ MembersOf(w)'
    BY <2>3 DEF IdIsKnown, MembersOf
  <2>5. t.found => HasDefault(u)'
    <3>1. \A g \in Named(u, TRUE) : g \in Known /\ group[g].default /\ group[g].creator = u
      BY DEF Named, Known, Free, NoGroup
    <3> QED
      BY <1>2, <2>1, <3>1 DEF HasDefault
  <2>6. FoundOf(w)'
    BY <2>3, <2>5 DEF FoundOf, HasDefault
  <2>7. worker[w].pc = "idle"
    BY <2>3 DEF Idle
  <2> QED
    BY <1>1, <2>3, <2>4, <2>6, <2>7, TablesStay DEF Adding
<1>5. ASSUME NEW g \in GroupIds, JoinGroup(w, u, g)
      PROVE  GroupsInv'
  <2> DEFINE t == Target(g, FALSE)
  <2>1. t \in GroupGot /\ t.id = g /\ ~ t.found
    BY TargetIsGot
  <2>2. g \in Known /\ Begins(w, u, "JoinGroup", None, "FindMember", t)
    BY <1>5 DEF JoinGroup
  <2> HIDE DEF t
  <2>3. /\ worker[w] = Idle /\ OnlyMoves(w) /\ AloneInv' /\ UNCHANGED faults
        /\ worker' \in [Workers -> GroupLocals \cup {Idle}]
        /\ Undisturbed' => Undisturbed
        /\ worker'[w].pc = "FindMember" /\ worker'[w].op = "JoinGroup"
        /\ worker'[w].got = t
    BY <2>1, <2>2, GroupRequestArrives DEF GroupCalls
  <2>4. IdIsKnown(w)' /\ MembersOf(w)' /\ FoundOf(w)'
    BY <1>2, <2>1, <2>2, <2>3 DEF IdIsKnown, MembersOf, FoundOf, IsDefault
  <2>5. worker[w].pc = "idle"
    BY <2>3 DEF Idle
  <2> QED
    BY <1>1, <2>3, <2>4, <2>5, TablesStay DEF Adding
<1>6. ASSUME NEW g \in GroupIds, LeaveGroup(w, u, g)
      PROVE  GroupsInv'
  <2> DEFINE t == Target(g, FALSE)
  <2>1. t \in GroupGot /\ t.id = g /\ ~ t.found
    BY TargetIsGot
  <2>2. /\ g \in Known /\ IsMember(g, u)
        /\ Begins(w, u, "LeaveGroup", None, "DeleteMember", t)
    BY <1>6 DEF LeaveGroup
  <2> HIDE DEF t
  <2>3. /\ worker[w] = Idle /\ OnlyMoves(w) /\ AloneInv' /\ UNCHANGED faults
        /\ worker' \in [Workers -> GroupLocals \cup {Idle}]
        /\ Undisturbed' => Undisturbed
        /\ worker'[w].pc = "DeleteMember" /\ worker'[w].op = "LeaveGroup"
        /\ worker'[w].got = t /\ worker'[w].user = u
    BY <2>1, <2>2, GroupRequestArrives DEF GroupCalls
  <2>4. IdIsKnown(w)' /\ MembersOf(w)' /\ FoundOf(w)'
    BY <1>2, <2>1, <2>2, <2>3 DEF IdIsKnown, MembersOf, FoundOf, IsDefault, IsMember
  <2>5. worker[w].pc = "idle"
    BY <2>3 DEF Idle
  <2> QED
    BY <1>1, <2>3, <2>4, <2>5, TablesStay DEF Adding
<1> QED
  BY <1>3, <1>4, <1>5, <1>6

\* The group that is found is a default group of the user when one is asked for.
LEMMA FindGroupKeeps ==
    ASSUME GroupsInv, NEW w \in Workers, FindGroup(w)
    PROVE  GroupsInv'
<1> DEFINE mine == Named(worker[w].user, IsDefault(w))
           g == LowestId(mine)
           t == [worker[w].got EXCEPT !.id = g]
<1>1. worker[w].pc = "FindGroup" /\ worker[w] # Idle /\ UNCHANGED groups
  BY DEF FindGroup, Idle
<1>2. Known' = Known /\ group' = group /\ member' = member /\ left' = left
  BY <1>1 DEF groups, Known, Free
<1>3. worker[w] \in GroupLocals /\ worker[w].got \in GroupGot
  BY <1>1 DEF GroupsInv, GroupLocals
<1>4. mine \subseteq Known /\ mine \in SUBSET Nat
  <2>1. mine \subseteq Known
    BY DEF Named, Known, Free, NoGroup
  <2>2. Known \subseteq Nat
    BY GroupsAssumption DEF Known
  <2> QED
    BY <2>1, <2>2
<1>5. CASE mine = {}
  <2>1. Goes(w, "InsertGroup")
    BY <1>5 DEF FindGroup
  <2>2. /\ OnlyMoves(w) /\ AloneInv' /\ UNCHANGED faults
        /\ worker' \in [Workers -> GroupLocals \cup {Idle}]
        /\ Undisturbed' <=> Undisturbed
        /\ worker'[w].pc = "InsertGroup" /\ worker'[w].op = worker[w].op
        /\ worker'[w].got = worker[w].got /\ worker'[w].user = worker[w].user
    BY <1>1, <1>3, <2>1, GroupCallMoves DEF Goes, GroupCalls
  <2>3. IdIsKnown(w)' /\ MembersOf(w)'
    BY <2>2 DEF IdIsKnown, MembersOf
  <2>4. ASSUME IsDefault(w), HasDefault(worker[w].user)
        PROVE  Lost(worker[w].user)
    <3>1. PICK h \in Known : group[h].default /\ group[h].creator = worker[w].user
      BY <2>4 DEF HasDefault
    <3>2. h \in GroupIds /\ h \notin Named(worker[w].user, TRUE)
      BY <1>5, <2>4 DEF Known, Named
    <3>3. ~ group[h].live
      <4>1. group[h] \in [creator : Users \cup {None}, default : BOOLEAN, live : BOOLEAN]
        BY <3>2 DEF GroupsInv, GroupsTypeOK
      <4> QED
        BY <3>1, <3>2, <4>1 DEF Named
    <3> QED
      BY <3>1, <3>3 DEF Lost
  <2>5. Undisturbed => FoundOf(w)'
    <3>1. Undisturbed /\ IsDefault(w) /\ worker[w].got.found => HasDefault(worker[w].user)
      BY <1>1 DEF GroupsInv, FoundOf
    <3> QED
      BY <1>2, <2>2, <2>4, <3>1 DEF FoundOf, IsDefault, Lost
  <2> QED
    BY <1>1, <2>2, <2>3, <2>5, TablesStay DEF Adding
<1>6. CASE mine # {}
  <2>1. g \in mine
    BY <1>4, <1>6, LowestIsIn
  <2>2. /\ t \in GroupGot /\ t.id = g /\ t.found = worker[w].got.found /\ g \in Known
    BY <1>3, <1>4, <2>1 DEF GroupGot, Known
  <2>3. GoesWith(w, "CreateGroupProfile", t)
    BY <1>6 DEF FindGroup
  <2> HIDE DEF t, g, mine
  <2>4. /\ OnlyMoves(w) /\ AloneInv' /\ UNCHANGED faults
        /\ worker' \in [Workers -> GroupLocals \cup {Idle}]
        /\ Undisturbed' <=> Undisturbed
        /\ worker'[w].pc = "CreateGroupProfile" /\ worker'[w].op = worker[w].op
        /\ worker'[w].got = t /\ worker'[w].user = worker[w].user
    BY <1>1, <2>2, <2>3, GroupCallMoves DEF GroupCalls
  <2>5. IdIsKnown(w)' /\ MembersOf(w)'
    BY <1>2, <2>2, <2>4 DEF IdIsKnown, MembersOf
  <2>6. ASSUME Undisturbed, IsDefault(w)
        PROVE  Lost(worker[w].user) \/ IsMember(g, worker[w].user)
    <3>1. group[g] = [creator |-> worker[w].user, default |-> TRUE, live |-> TRUE]
      BY <2>1, <2>6 DEF mine, Named
    <3>2. Alone
      BY <2>6 DEF GroupsInv, AloneInv, Undisturbed
    <3>3. \A pc \in Adding : ~ Calls(pc, g, worker[w].user)
      BY <1>1, <3>2, CallsOfOne DEF Adding
    <3>4. CreatorIsIn(g)
      BY <2>2, <2>6 DEF GroupsInv
    <3>5. group[g].default /\ group[g].creator = worker[w].user
      BY <3>1
    <3> QED
      BY <2>2, <3>3, <3>4, <3>5 DEF CreatorIsIn, Lost
  <2>7. Undisturbed => FoundOf(w)'
    BY <1>2, <2>2, <2>4, <2>6 DEF FoundOf, IsDefault, Lost, IsMember
  <2> QED
    BY <1>1, <2>4, <2>5, <2>7, TablesStay DEF Adding
<1> QED
  BY <1>5, <1>6

LEMMA FindMemberKeeps ==
    ASSUME GroupsInv, NEW w \in Workers, FindMember(w)
    PROVE  GroupsInv'
<1> DEFINE g == worker[w].got.id
           u == worker[w].user
<1>1. worker[w].pc = "FindMember" /\ worker[w] # Idle /\ UNCHANGED groups
  BY DEF FindMember, Idle
<1>2. Known' = Known /\ group' = group /\ member' = member /\ left' = left
  BY <1>1 DEF groups, Known, Free
<1>3. worker[w] \in GroupLocals /\ worker[w].got \in GroupGot
  BY <1>1 DEF GroupsInv, GroupLocals
<1>4. CASE IsMember(g, u)
  <2>1. Goes(w, "idle")
    BY <1>4 DEF FindMember
  <2>2. /\ OnlyMoves(w) /\ AloneInv' /\ UNCHANGED faults
        /\ worker' \in [Workers -> GroupLocals \cup {Idle}]
        /\ Undisturbed' <=> Undisturbed
        /\ worker'[w].pc = "idle"
    BY <1>1, <1>3, <2>1, GroupCallMoves DEF Goes, GroupCalls
  <2>3. IdIsKnown(w)' /\ MembersOf(w)' /\ FoundOf(w)'
    BY <2>2 DEF IdIsKnown, MembersOf, FoundOf
  <2> QED
    BY <1>1, <1>4, <2>2, <2>3, TablesStay DEF Adding
<1>5. CASE ~ IsMember(g, u)
  <2>1. Goes(w, "InsertMember")
    BY <1>5 DEF FindMember
  <2>2. /\ OnlyMoves(w) /\ AloneInv' /\ UNCHANGED faults
        /\ worker' \in [Workers -> GroupLocals \cup {Idle}]
        /\ Undisturbed' <=> Undisturbed
        /\ worker'[w].pc = "InsertMember" /\ worker'[w].op = worker[w].op
        /\ worker'[w].got = worker[w].got /\ worker'[w].user = u
    BY <1>1, <1>3, <2>1, GroupCallMoves DEF Goes, GroupCalls
  <2>3. IdIsKnown(w)' /\ MembersOf(w)'
    BY <1>1, <1>2, <1>5, <2>2 DEF IdIsKnown, MembersOf, IsMember, GroupsInv
  <2>4. Undisturbed => FoundOf(w)'
    <3>1. Undisturbed /\ IsDefault(w) /\ worker[w].got.found => Lost(u)
      BY <1>1, <1>5 DEF GroupsInv, FoundOf
    <3> QED
      BY <1>2, <2>2, <3>1 DEF FoundOf, IsDefault, Lost
  <2> QED
    BY <1>1, <2>2, <2>3, <2>4, TablesStay DEF Adding
<1> QED
  BY <1>4, <1>5

-----------------------------------------------------------------------------
(* Groups: the steps that change the tables.                               *)

\* The other requests are of other users.
LEMMA OtherUsers ==
    ASSUME GroupsInv, Undisturbed, NEW w \in Workers, worker[w] # Idle
    PROVE  /\ Alone /\ worker[w].user \in Users
           /\ \A v \in Workers \ {w} : worker[v].user # worker[w].user
<1>1. Alone
  BY DEF GroupsInv, AloneInv, Undisturbed
<1>2. worker[w].user \in Users
  BY DEF GroupsInv, GroupLocals
<1>3. ASSUME NEW v \in Workers \ {w}
      PROVE  worker[v].user # worker[w].user
  <2>1. CASE worker[v] = Idle
    BY <1>2, <2>1, RequestsAssumption DEF Idle
  <2>2. CASE worker[v] # Idle
    BY <1>1, <2>2 DEF Alone, Busy
  <2> QED
    BY <2>1, <2>2
<1> QED
  BY <1>1, <1>2, <1>3

\* What is left to show of a step of w that changes member rows of its user only.
LEMMA RequestKeeps ==
    ASSUME GroupsInv, NEW w \in Workers, worker[w] # Idle, OnlyMoves(w), AloneInv', RowsAge,
           GroupsTypeOK', worker' \in [Workers -> GroupLocals \cup {Idle}], faults' \in Nat,
           Undisturbed' => Undisturbed,
           \A g \in GroupIds : \A x : x # worker[w].user => member'[g][x] = member[g][x],
           \A g \in Known' \ Known : group'[g].creator \in Users,
           IdIsKnown(w)',
           Undisturbed' => /\ MembersOf(w)' /\ FoundOf(w)' /\ GivenInv'
                           /\ \A g \in Known' : CreatorIsIn(g)'
                           /\ \A g \in GroupIds : CountOf(g)'
    PROVE  GroupsInv'
<1>1. ASSUME NEW v \in Workers \ {w}
      PROVE  IdIsKnown(v)' /\ (Undisturbed' => MembersOf(v)' /\ FoundOf(v)')
  <2>1. worker'[v] = worker[v]
    BY DEF OnlyMoves
  <2>2. Undisturbed =>
           \A g \in GroupIds : member'[g][worker[v].user] = member[g][worker[v].user]
    BY OtherUsers
  <2> QED
    BY <2>1, <2>2, OtherGroupsStay
<1>2. \A g \in Known' : group'[g].creator \in Users
  BY DEF GroupsInv, RowsAge
<1> QED
  BY <1>1, <1>2 DEF GroupsInv

\* Another user, or another group.
LEMMA CountedElse ==
    ASSUME NEW w \in Workers, OnlyMoves(w), NEW h, NEW x,
           x # worker[w].user \/ h # worker[w].got.id,
           \/ worker'[w] = Idle
           \/ worker'[w].got = worker[w].got /\ worker'[w].user = worker[w].user,
           member'[h][x] = member[h][x]
    PROVE  JoinCounted(h, x)' <=> JoinCounted(h, x)
<1>1. Idle.pc = "idle"
  BY DEF Idle
<1>2. ASSUME NEW pc \in {"IncMembers", "DecMembers"}
      PROVE  Calls(pc, h, x)' <=> Calls(pc, h, x)
  BY <1>1, <1>2, CallsStay
<1> QED
  BY <1>2 DEF JoinCounted, IsMember

\* The calls about the user of w are those of w, and after its step as well.
LEMMA CallsOfOneAfter ==
    ASSUME GroupsInv, Undisturbed, NEW w \in Workers, worker[w] # Idle, OnlyMoves(w),
           NEW u, u = worker[w].user, NEW pc, pc # "idle", NEW g
    PROVE  Calls(pc, g, u)' <=> /\ worker'[w].pc = pc /\ worker'[w].got.id = g
                                /\ worker'[w].user = u
<1>1. \A v \in Workers \ {w} : worker'[v].user # u
  BY OtherUsers DEF OnlyMoves
<1> QED
  BY <1>1 DEF Calls

\* A sequence of which every number is moved by n.
LEMMA CountsMoved ==
    ASSUME NEW q \in Seq(Int), NEW n \in Int
    PROVE  LET r == [i \in DOMAIN q |-> q[i] + n]
           IN  r \in Seq(Int) /\ (r = <<>> <=> q = <<>>) /\ (q # <<>> => r[1] = q[1] + n)
<1> DEFINE r == [i \in DOMAIN q |-> q[i] + n]
<1>1. DOMAIN q = 1 .. Len(q) /\ Len(q) \in Nat /\ \A i \in 1 .. Len(q) : q[i] \in Int
  OBVIOUS
<1>2. r \in [1 .. Len(q) -> Int]
  BY <1>1
<1>3. r \in Seq(Int) /\ Len(r) = Len(q)
  BY <1>1, <1>2
<1>4. r = <<>> <=> q = <<>>
  BY <1>1, <1>3
<1>5. q # <<>> => 1 \in DOMAIN q
  BY <1>1
<1> QED
  BY <1>3, <1>4, <1>5

\* The count of a group moves with its tally and its joins.
LEMMA CountMoves ==
    ASSUME GroupsInv, NEW g \in Known, CountOf(g), NEW n \in Int,
           groupProfile'[g] = [i \in DOMAIN groupProfile[g] |-> groupProfile[g][i] + n],
           groupProfile[g] = <<>> => g \in uncounted', uncounted \subseteq uncounted',
           Known' = Known, Free' = Free,
           IsFiniteSet(Tally(g)'), Cardinality(Tally(g)') \in Nat,
           joined'[g] \in Nat,
           Cardinality(Tally(g)') + joined'[g] = Cardinality(Tally(g)) + joined[g] + n
    PROVE  CountOf(g)'
<1>1. groupProfile[g] \in Seq(Int) /\ joined[g] \in Nat
  BY DEF GroupsInv, GroupsTypeOK, Known
<1>2. IsFiniteSet(Tally(g)) /\ Cardinality(Tally(g)) \in Nat
  BY FS_CardinalityType DEF CountOf
<1>3. g \notin Free'
  BY DEF Known
<1>4. ASSUME g \notin uncounted'
      PROVE  /\ groupProfile'[g] # <<>>
             /\ groupProfile'[g][1] = Cardinality(Tally(g)') + 1 + joined'[g]
  <2>1. g \notin uncounted /\ groupProfile[g] # <<>>
    BY <1>4
  <2>2. groupProfile[g][1] = Cardinality(Tally(g)) + 1 + joined[g]
    BY <2>1 DEF CountOf
  <2>3. groupProfile'[g] # <<>> /\ groupProfile'[g][1] = groupProfile[g][1] + n
    BY <1>1, <2>1, CountsMoved
  <2>4. PICK b \in Nat : b = Cardinality(Tally(g)')
    OBVIOUS
  <2>5. PICK a \in Nat : a = Cardinality(Tally(g))
    BY <1>2
  <2>6. PICK j \in Nat : j = joined'[g]
    OBVIOUS
  <2>7. PICK k \in Nat : k = joined[g]
    BY <1>1
  <2>8. b + j = a + k + n
    BY <2>4, <2>5, <2>6, <2>7
  <2>9. a + 1 + k + n = b + 1 + j
    BY ONLY <2>8, a \in Nat, b \in Nat, j \in Nat, k \in Nat, n \in Int
  <2>10. groupProfile'[g][1] = b + 1 + j
    BY <2>2, <2>3, <2>5, <2>7, <2>9
  <2> QED
    BY <2>3, <2>4, <2>6, <2>10
<1> QED
  BY <1>3, <1>4 DEF CountOf

LEMMA InsertGroupKeeps ==
    ASSUME GroupsInv, NEW w \in Workers, InsertGroup(w)
    PROVE  GroupsInv'
<1> DEFINE g == LowestId(Free)
           u == worker[w].user
           row == [creator |-> u, default |-> IsDefault(w), live |-> TRUE]
           t == [worker[w].got EXCEPT !.id = g]
<1>1. /\ worker[w].pc = "InsertGroup" /\ worker[w] # Idle
      /\ Free # {} /\ group' = [group EXCEPT ![g] = row]
      /\ GoesWith(w, "CreateGroupProfile", t)
      /\ UNCHANGED <<member, groupProfile, joined, uncounted, left, given>>
  BY DEF InsertGroup, Idle
<1>2. worker[w] \in GroupLocals /\ worker[w].got \in GroupGot /\ u \in Users
  BY <1>1 DEF GroupsInv, GroupLocals
<1>3. g \in Free /\ g \in GroupIds
  <2>1. Free \subseteq GroupIds /\ Free \in SUBSET Nat
    BY GroupsAssumption DEF Free
  <2> QED
    BY <1>1, <2>1, LowestIsIn
<1>4. t \in GroupGot /\ t.id = g /\ t.found = worker[w].got.found
  BY <1>2, <1>3 DEF GroupGot
<1>5. /\ row \in [creator : Users \cup {None}, default : BOOLEAN, live : BOOLEAN]
      /\ row.creator = u /\ row.default = IsDefault(w) /\ row.live = TRUE
      /\ row # NoGroup
  BY <1>2 DEF IsDefault, NoGroup
<1> HIDE DEF g, t, row
<1>6. /\ OnlyMoves(w) /\ AloneInv' /\ UNCHANGED faults
      /\ worker' \in [Workers -> GroupLocals \cup {Idle}]
      /\ Undisturbed' <=> Undisturbed
      /\ worker'[w].pc = "CreateGroupProfile" /\ worker'[w].op = worker[w].op
      /\ worker'[w].got = t /\ worker'[w].user = u
  BY <1>1, <1>4, GroupCallMoves DEF GroupCalls
<1>7. /\ group \in [GroupIds -> [creator : Users \cup {None}, default : BOOLEAN,
                                 live : BOOLEAN]]
      /\ group'[g] = row /\ \A h \in GroupIds \ {g} : group'[h] = group[h]
  BY <1>1, <1>3 DEF GroupsInv, GroupsTypeOK
<1>8. /\ Free' = Free \ {g} /\ Known' = Known \cup {g}
      /\ Known \subseteq GroupIds /\ g \notin Known
  BY <1>3, <1>5, <1>7 DEF Known, Free
<1>9. RowsAge
  BY <1>1, <1>7, <1>8 DEF RowsAge
<1>10. GroupsTypeOK' /\ faults' \in Nat
  BY <1>1, <1>3, <1>5, <1>6 DEF GroupsInv, GroupsTypeOK
<1>11. IdIsKnown(w)' /\ MembersOf(w)'
  BY <1>4, <1>6, <1>8 DEF IdIsKnown, MembersOf
<1>12. ASSUME Undisturbed
       PROVE  FoundOf(w)' /\ GivenInv'
  <2>1. IsDefault(w) /\ worker[w].got.found => Lost(u)
    BY <1>1, <1>12 DEF GroupsInv, FoundOf
  <2>2. Lost(u) => Lost(u)'
    BY <1>6, <1>9, LostStays
  <2>3. FoundOf(w)'
    BY <1>4, <1>6, <2>1, <2>2 DEF FoundOf, IsDefault, Lost
  <2>4. GivenInv'
    BY <1>1, <1>9, <1>12, LostStays DEF GroupsInv, GivenInv
  <2> QED
    BY <2>3, <2>4
<1>13. ASSUME Undisturbed, NEW h \in Known'
       PROVE  CreatorIsIn(h)'
  <2>1. CASE h = g
    <3>1. Calls("CreateGroupProfile", h, u)'
      BY <1>4, <1>6, <2>1 DEF Calls
    <3>2. group'[h].creator = u
      BY <1>5, <1>7, <2>1
    <3> QED
      BY <1>6, <3>1, <3>2 DEF CreatorIsIn, Adding, Calls
  <2>2. CASE h # g
    <3>1. h \in Known /\ CreatorIsIn(h)
      BY <1>8, <1>13, <2>2 DEF GroupsInv
    <3>2. group'[h] = group[h]
      BY <1>7, <1>8, <2>2, <3>1
    <3> QED
      BY <1>1, <1>6, <3>1, <3>2, CreatorStays DEF IsMember, Adding
  <2> QED
    BY <2>1, <2>2
<1>14. ASSUME Undisturbed, NEW h \in GroupIds
       PROVE  CountOf(h)'
  <2>1. CountOf(h)
    BY <1>14 DEF GroupsInv
  <2>2. Tally(h)' = Tally(h)
    BY <1>1, <1>6, TallyStays
  <2>3. CASE h = g
    <3>1. Tally(h) = {} /\ joined[h] = 0 /\ groupProfile[h] = <<>>
      BY <1>3, <2>1, <2>3 DEF CountOf
    <3>2. Creating(h)'
      BY <1>4, <1>6, <2>3 DEF Creating
    <3>3. h \notin Free'
      BY <1>8, <2>3
    <3> QED
      BY <1>1, <2>2, <3>1, <3>2, <3>3, FS_EmptySet DEF CountOf
  <2>4. CASE h # g
    <3>1. Creating(h) => Creating(h)'
      BY <1>1, <1>6, CreatingStays
    <3>2. (h \in Known' <=> h \in Known) /\ (h \in Free' <=> h \in Free)
      BY <1>8, <2>4
    <3> QED
      BY <1>1, <2>1, <2>2, <3>1, <3>2, CountOfStays
  <2> QED
    BY <2>3, <2>4
<1>15. \A h \in Known' \ Known : group'[h].creator \in Users
  BY <1>2, <1>5, <1>7, <1>8
<1> QED
  BY <1>1, <1>6, <1>9, <1>10, <1>11, <1>12, <1>13, <1>14, <1>15, RequestKeeps

LEMMA FirstCount ==
    ASSUME NEW q \in Seq(Int), NEW n \in Int
    PROVE  /\ Append(q, n) # <<>>
           /\ q = <<>> => Append(q, n)[1] = n
           /\ q # <<>> => Append(q, n)[1] = q[1]
<1>1. Len(Append(q, n)) = Len(q) + 1 /\ Len(q) \in Nat
  OBVIOUS
<1>2. Append(q, n) # <<>>
  BY <1>1
<1>3. q = <<>> => Append(q, n)[1] = n
  OBVIOUS
<1>4. q # <<>> => 1 \in 1 .. Len(q)
  BY <1>1
<1> QED
  BY <1>2, <1>3, <1>4

LEMMA CreateGroupProfileKeeps ==
    ASSUME GroupsInv, NEW w \in Workers, CreateGroupProfile(w)
    PROVE  GroupsInv'
<1> DEFINE g == worker[w].got.id
           u == worker[w].user
<1>1. /\ worker[w].pc = "CreateGroupProfile" /\ worker[w] # Idle
      /\ UNCHANGED <<group, member, joined, uncounted, left, given>>
  BY DEF CreateGroupProfile, Idle
<1>2. /\ worker[w] \in GroupLocals /\ worker[w].got \in GroupGot /\ g \in Known
      /\ DOMAIN worker = Workers /\ AloneInv /\ faults \in Nat
      /\ worker \in [Workers -> GroupLocals \cup {Idle}]
  BY <1>1 DEF GroupsInv, GroupLocals, IdIsKnown
<1>3. Known' = Known /\ Free' = Free /\ Known \subseteq GroupIds /\ RowsAge
  BY <1>1 DEF Known, Free, RowsAge
<1>4. CASE /\ groupProfile' = [groupProfile EXCEPT ![g] = Append(@, 1)]
           /\ Goes(w, "FindMember")
  <2>1. /\ OnlyMoves(w) /\ AloneInv' /\ UNCHANGED faults
        /\ worker' \in [Workers -> GroupLocals \cup {Idle}]
        /\ Undisturbed' <=> Undisturbed
        /\ worker'[w].pc = "FindMember" /\ worker'[w].op = worker[w].op
        /\ worker'[w].got = worker[w].got /\ worker'[w].user = u
    BY <1>1, <1>2, <1>4, GroupCallMoves DEF Goes, GroupCalls
  <2>2. /\ groupProfile \in [GroupIds -> Seq(Int)] /\ groupProfile[g] \in Seq(Int)
        /\ groupProfile'[g] = Append(groupProfile[g], 1)
        /\ \A h \in GroupIds \ {g} : groupProfile'[h] = groupProfile[h]
    BY <1>2, <1>3, <1>4 DEF GroupsInv, GroupsTypeOK
  <2>3. GroupsTypeOK'
    <3>1. Append(groupProfile[g], 1) \in Seq(Int)
      BY <2>2
    <3>2. groupProfile' \in [GroupIds -> Seq(Int)]
      BY <1>4, <2>2, <3>1
    <3> QED
      BY <1>1, <3>2 DEF GroupsInv, GroupsTypeOK
  <2>4. IdIsKnown(w)' /\ MembersOf(w)'
    BY <1>2, <1>3, <2>1 DEF IdIsKnown, MembersOf
  <2>5. ASSUME Undisturbed
        PROVE  FoundOf(w)' /\ GivenInv'
    <3>1. FoundOf(w) /\ GivenInv
      BY <2>5 DEF GroupsInv
    <3>2. FoundOf(w)'
      BY <1>1, <1>3, <2>1, <3>1 DEF FoundOf, IsDefault, Lost, IsMember
    <3> QED
      BY <1>1, <1>3, <3>1, <3>2 DEF GivenInv, Lost
  <2>6. ASSUME Undisturbed, NEW h \in Known'
        PROVE  CreatorIsIn(h)'
    <3>1. h \in Known /\ CreatorIsIn(h)
      BY <1>3, <2>6 DEF GroupsInv
    <3> QED
      BY <1>1, <2>1, <3>1, CreatorStays DEF IsMember, Adding
  <2>7. ASSUME Undisturbed, NEW h \in GroupIds
        PROVE  CountOf(h)'
    <3>1. CountOf(h)
      BY <2>7 DEF GroupsInv
    <3>2. Tally(h)' = Tally(h)
      BY <1>1, <2>1, TallyStays
    <3>3. CASE h # g
      <4>1. Creating(h) => Creating(h)'
        BY <2>1, <3>3 DEF Creating, OnlyMoves
      <4> QED
        BY <1>1, <1>3, <2>2, <3>1, <3>2, <3>3, <4>1, CountOfStays
    <3>4. CASE h = g
      <4>1. /\ groupProfile'[h] # <<>>
            /\ groupProfile[h] = <<>> => groupProfile'[h][1] = 1
            /\ groupProfile[h] # <<>> => groupProfile'[h][1] = groupProfile[h][1]
        <5>1. /\ groupProfile[h] \in Seq(Int) /\ 1 \in Int
              /\ groupProfile'[h] = Append(groupProfile[h], 1)
          BY <2>2, <3>4
        <5> QED
          BY <5>1, FirstCount
      <4>2. h \in Known /\ h \notin Free'
        BY <1>2, <1>3, <3>4 DEF Known
      <4>3. IsFiniteSet(Tally(h)')
        BY <3>1, <3>2 DEF CountOf
      <4>4. ASSUME h \notin uncounted
            PROVE  groupProfile'[h][1] = Cardinality(Tally(h)') + 1 + joined'[h]
        <5>1. CASE groupProfile[h] = <<>>
          <6>1. Tally(h) = {} /\ joined[h] = 0
            BY <3>1, <4>2, <4>4, <5>1 DEF CountOf
          <6>2. Cardinality(Tally(h)') = 0 /\ joined'[h] = 0
            BY <1>1, <3>2, <6>1, FS_EmptySet
          <6> QED
            BY <4>1, <5>1, <6>2
        <5>2. CASE groupProfile[h] # <<>>
          <6>1. groupProfile[h][1] = Cardinality(Tally(h)) + 1 + joined[h]
            BY <3>1, <4>2, <4>4, <5>2 DEF CountOf
          <6> QED
            BY <1>1, <3>2, <4>1, <5>2, <6>1
        <5> QED
          BY <5>1, <5>2
      <4> QED
        BY <1>1, <4>1, <4>2, <4>3, <4>4 DEF CountOf
    <3> QED
      BY <3>3, <3>4
  <2> HIDE DEF g, u
  <2> QED
    BY <1>1, <1>2, <1>3, <2>1, <2>3, <2>4, <2>5, <2>6, <2>7, RequestKeeps
<1>5. CASE Logs(w, "FindMember") /\ UNCHANGED groupProfile
  <2>1. /\ worker' = [worker EXCEPT ![w] = After(w, "FindMember", worker[w].got)]
        /\ worker'[w] = After(w, "FindMember", worker[w].got)
        /\ OnlyMoves(w) /\ AloneInv' /\ faults' \in Nat /\ ~ Undisturbed'
    BY <1>1, <1>2, <1>5, FailureMoves
  <2>2. worker'[w] = [worker[w] EXCEPT !.pc = "FindMember", !.got = worker[w].got]
    BY <2>1 DEF After
  <2>3. worker'[w] \in GroupLocals /\ worker'[w].got = worker[w].got
    BY <1>2, <2>2 DEF GroupLocals, GroupCalls
  <2>4. worker' \in [Workers -> GroupLocals \cup {Idle}]
    BY <1>2, <2>1, <2>3
  <2>5. IdIsKnown(w)'
    BY <1>2, <1>3, <2>3 DEF IdIsKnown
  <2>6. GroupsTypeOK'
    BY <1>1, <1>5 DEF GroupsInv, GroupsTypeOK
  <2> QED
    BY <1>1, <1>3, <2>1, <2>4, <2>5, <2>6, RequestKeeps
<1> QED
  BY <1>4, <1>5 DEF CreateGroupProfile

\* The tally of a group that is not that of w, or of a user that is not.
LEMMA TallyElse ==
    ASSUME NEW w \in Workers, OnlyMoves(w),
           \/ worker'[w] = Idle
           \/ worker'[w].got = worker[w].got /\ worker'[w].user = worker[w].user,
           \A g \in GroupIds : \A x : g # worker[w].got.id \/ x # worker[w].user
              => member'[g][x] = member[g][x]
    PROVE  \A h \in GroupIds :
              /\ h # worker[w].got.id => Tally(h)' = Tally(h)
              /\ \A x \in Users \ {worker[w].user} : x \in Tally(h)' <=> x \in Tally(h)
<1>1. ASSUME NEW h \in GroupIds, NEW x \in Users, h # worker[w].got.id \/ x # worker[w].user
      PROVE  x \in Tally(h)' <=> x \in Tally(h)
  <2>1. member'[h][x] = member[h][x]
    BY <1>1
  <2>2. JoinCounted(h, x)' <=> JoinCounted(h, x)
    BY <1>1, <2>1, CountedElse
  <2> QED
    BY <2>2 DEF Tally
<1>2. ASSUME NEW h \in GroupIds, h # worker[w].got.id
      PROVE  Tally(h)' = Tally(h)
  <2>1. Tally(h)' \subseteq Users /\ Tally(h) \subseteq Users
    BY DEF Tally
  <2> QED
    BY <1>1, <1>2, <2>1
<1> QED
  BY <1>1, <1>2

LEMMA InsertMemberKeeps ==
    ASSUME GroupsInv, NEW w \in Workers, InsertMember(w)
    PROVE  GroupsInv'
<1> DEFINE g == worker[w].got.id
           u == worker[w].user
<1>1. /\ worker[w].pc = "InsertMember" /\ worker[w] # Idle
      /\ member' = [member EXCEPT ![g][u] = @ + 1] /\ Goes(w, "IncMembers")
      /\ UNCHANGED <<group, groupProfile, joined, uncounted, left, given>>
  BY DEF InsertMember, Idle
<1>2. /\ worker[w] \in GroupLocals /\ worker[w].got \in GroupGot /\ g \in Known
      /\ g \in GroupIds /\ u \in Users
  BY <1>1 DEF GroupsInv, GroupLocals, IdIsKnown, Known
<1>3. Known' = Known /\ Free' = Free /\ Known \subseteq GroupIds /\ RowsAge
  BY <1>1 DEF Known, Free, RowsAge
<1>4. /\ OnlyMoves(w) /\ AloneInv' /\ UNCHANGED faults
      /\ worker' \in [Workers -> GroupLocals \cup {Idle}]
      /\ Undisturbed' <=> Undisturbed
      /\ worker'[w].pc = "IncMembers" /\ worker'[w].op = worker[w].op
      /\ worker'[w].got = worker[w].got /\ worker'[w].user = u
  BY <1>1, <1>2, GroupCallMoves DEF Goes, GroupCalls
<1>5. /\ member \in [GroupIds -> [Users -> Nat]] /\ member'[g][u] = member[g][u] + 1
      /\ \A h \in GroupIds : \A x : h # g \/ x # u => member'[h][x] = member[h][x]
      /\ member' \in [GroupIds -> [Users -> Nat]]
  BY <1>1, <1>2 DEF GroupsInv, GroupsTypeOK
<1>6. GroupsTypeOK' /\ faults' \in Nat
  BY <1>1, <1>4, <1>5 DEF GroupsInv, GroupsTypeOK
<1>7. member[g][u] \in Nat /\ member'[g][u] > 0
  BY <1>2, <1>5
<1>8. IdIsKnown(w)' /\ MembersOf(w)'
  BY <1>2, <1>3, <1>4, <1>7 DEF IdIsKnown, MembersOf, IsMember
<1>9. ASSUME Undisturbed
      PROVE  FoundOf(w)' /\ GivenInv'
  <2>1. FoundOf(w) /\ GivenInv
    BY <1>9 DEF GroupsInv
  <2>2. FoundOf(w)'
    BY <1>1, <1>3, <1>4, <2>1 DEF FoundOf, IsDefault, Lost
  <2> QED
    BY <1>1, <1>3, <2>1, <2>2 DEF GivenInv, Lost
<1>10. ASSUME Undisturbed, NEW h \in Known'
       PROVE  CreatorIsIn(h)'
  <2>1. h \in Known /\ CreatorIsIn(h) /\ group[h].creator \in Users /\ h \in GroupIds
    BY <1>3, <1>10 DEF GroupsInv
  <2>2. member[h][group[h].creator] > 0 => member'[h][group[h].creator] > 0
    BY <1>5, <1>7, <2>1
  <2> QED
    BY <1>1, <1>4, <1>7, <2>1, <2>2, CreatorStays DEF IsMember, Adding
<1>11. ASSUME Undisturbed, NEW h \in GroupIds
       PROVE  CountOf(h)'
  <2>1. CountOf(h) /\ MembersOf(w) /\ Alone
    BY <1>11, OtherUsers, <1>1 DEF GroupsInv
  <2>2. Tally(h)' = Tally(h)
    <3>1. /\ h # g => Tally(h)' = Tally(h)
          /\ \A x \in Users \ {u} : x \in Tally(h)' <=> x \in Tally(h)
      BY <1>4, <1>5, TallyElse
    <3>2. u \notin Tally(g)
      <4>1. ~ IsMember(g, u)
        BY <1>1, <2>1 DEF MembersOf
      <4>2. ~ Calls("DecMembers", g, u)
        BY <1>1, <2>1, CallsOfOne
      <4> QED
        BY <4>1, <4>2 DEF Tally, JoinCounted
    <3>3. u \notin Tally(g)'
      BY <1>4 DEF Tally, JoinCounted, Calls
    <3>4. Tally(h)' \subseteq Users /\ Tally(h) \subseteq Users
      BY DEF Tally
    <3>5. CASE h = g
      <4>1. u \in Tally(h)' <=> u \in Tally(h)
        BY <1>4, <3>2, <3>3, <3>5
      <4> HIDE DEF g, u
      <4> QED
        BY <3>1, <3>4, <4>1
    <3> QED
      BY <3>1, <3>5
  <2>3. Creating(h) => Creating(h)'
    BY <1>1, <1>4, CreatingStays
  <2> QED
    BY <1>1, <1>3, <2>1, <2>2, <2>3, CountOfStays
<1> QED
  BY <1>1, <1>3, <1>4, <1>5, <1>6, <1>8, <1>9, <1>10, <1>11, RequestKeeps

LEMMA DeleteMemberKeeps ==
    ASSUME GroupsInv, NEW w \in Workers, DeleteMember(w)
    PROVE  GroupsInv'
<1> DEFINE g == worker[w].got.id
           u == worker[w].user
<1>1. /\ worker[w].pc = "DeleteMember" /\ worker[w] # Idle
      /\ member' = [member EXCEPT ![g][u] = 0] /\ Goes(w, "DecMembers")
      /\ left' = left \cup {<<u, g>>}
      /\ UNCHANGED <<group, groupProfile, joined, uncounted, given>>
  BY DEF DeleteMember, Idle
<1>2. /\ worker[w] \in GroupLocals /\ worker[w].got \in GroupGot /\ g \in Known
      /\ g \in GroupIds /\ u \in Users
  BY <1>1 DEF GroupsInv, GroupLocals, IdIsKnown, Known
<1>3. Known' = Known /\ Free' = Free /\ Known \subseteq GroupIds /\ RowsAge
  BY <1>1 DEF Known, Free, RowsAge
<1>4. /\ OnlyMoves(w) /\ AloneInv' /\ UNCHANGED faults
      /\ worker' \in [Workers -> GroupLocals \cup {Idle}]
      /\ Undisturbed' <=> Undisturbed
      /\ worker'[w].pc = "DecMembers" /\ worker'[w].op = worker[w].op
      /\ worker'[w].got = worker[w].got /\ worker'[w].user = u
  BY <1>1, <1>2, GroupCallMoves DEF Goes, GroupCalls
<1>5. /\ member \in [GroupIds -> [Users -> Nat]] /\ member'[g][u] = 0
      /\ \A h \in GroupIds : \A x : h # g \/ x # u => member'[h][x] = member[h][x]
      /\ member' \in [GroupIds -> [Users -> Nat]]
  BY <1>1, <1>2 DEF GroupsInv, GroupsTypeOK
<1>6. GroupsTypeOK' /\ faults' \in Nat
  BY <1>1, <1>2, <1>4, <1>5 DEF GroupsInv, GroupsTypeOK
<1>7. IdIsKnown(w)' /\ MembersOf(w)'
  BY <1>2, <1>3, <1>4, <1>5 DEF IdIsKnown, MembersOf, IsMember
<1>8. ASSUME Undisturbed
      PROVE  FoundOf(w)' /\ GivenInv'
  <2>1. FoundOf(w)'
    BY <1>4 DEF FoundOf
  <2> QED
    BY <1>1, <1>3, <1>8, <2>1, LostStays DEF GroupsInv, GivenInv
<1>9. ASSUME Undisturbed, NEW h \in Known'
      PROVE  CreatorIsIn(h)'
  <2>1. h \in Known /\ CreatorIsIn(h) /\ h \in GroupIds
    BY <1>3, <1>9 DEF GroupsInv
  <2>2. CASE h = g /\ group[h].creator = u
    BY <1>1, <2>2 DEF CreatorIsIn
  <2>3. CASE ~ (h = g /\ group[h].creator = u)
    <3>1. member'[h][group[h].creator] = member[h][group[h].creator]
      BY <1>5, <2>1, <2>3
    <3> QED
      BY <1>1, <1>4, <2>1, <3>1, CreatorStays DEF IsMember, Adding
  <2> QED
    BY <2>2, <2>3
<1>10. ASSUME Undisturbed, NEW h \in GroupIds
       PROVE  CountOf(h)'
  <2>1. CountOf(h) /\ MembersOf(w) /\ Alone
    BY <1>10, OtherUsers, <1>1 DEF GroupsInv
  <2>2. Tally(h)' = Tally(h)
    <3>1. /\ h # g => Tally(h)' = Tally(h)
          /\ \A x \in Users \ {u} : x \in Tally(h)' <=> x \in Tally(h)
      BY <1>4, <1>5, TallyElse
    <3>2. u \in Tally(g)
      <4>1. IsMember(g, u)
        BY <1>1, <2>1 DEF MembersOf
      <4>2. ~ Calls("IncMembers", g, u)
        BY <1>1, <2>1, CallsOfOne
      <4> QED
        BY <1>2, <4>1, <4>2 DEF Tally, JoinCounted
    <3>3. u \in Tally(g)'
      <4> PICK x \in Users : x = u
        BY <1>2
      <4>1. Calls("DecMembers", g, x)'
        BY <1>4 DEF Calls
      <4>2. \A h2 : ~ Calls("IncMembers", h2, x)'
        BY <1>1, <1>4, <1>10, CallsOfOneAfter
      <4>3. x \in Tally(g)'
        BY <1>4, <4>1, <4>2 DEF Tally, JoinCounted
      <4> QED
        BY <1>4, <4>3
    <3>4. Tally(h)' \subseteq Users /\ Tally(h) \subseteq Users
      BY DEF Tally
    <3>5. CASE h = g
      <4>1. u \in Tally(h)' <=> u \in Tally(h)
        BY <1>4, <3>2, <3>3, <3>5
      <4> HIDE DEF g, u
      <4> QED
        BY <3>1, <3>4, <4>1
    <3> QED
      BY <3>1, <3>5
  <2>3. Creating(h) => Creating(h)'
    BY <1>1, <1>4, CreatingStays
  <2> QED
    BY <1>1, <1>3, <2>1, <2>2, <2>3, CountOfStays
<1> QED
  BY <1>1, <1>3, <1>4, <1>5, <1>6, <1>7, <1>8, <1>9, <1>10, RequestKeeps

LEMMA AddMembersEffect ==
    ASSUME GroupsTypeOK, NEW g \in GroupIds, NEW n \in Int, AddMembers(g, n)
    PROVE  /\ groupProfile' \in [GroupIds -> Seq(Int)] /\ uncounted' \subseteq GroupIds
           /\ groupProfile'[g] = [i \in DOMAIN groupProfile[g] |-> groupProfile[g][i] + n]
           /\ \A h \in GroupIds \ {g} : groupProfile'[h] = groupProfile[h]
           /\ uncounted \subseteq uncounted' /\ uncounted' \subseteq uncounted \cup {g}
           /\ groupProfile[g] = <<>> => g \in uncounted'
<1> DEFINE r == [i \in DOMAIN groupProfile[g] |-> groupProfile[g][i] + n]
<1>1. groupProfile \in [GroupIds -> Seq(Int)] /\ groupProfile[g] \in Seq(Int)
  BY DEF GroupsTypeOK
<1>2. r \in Seq(Int)
  BY <1>1, CountsMoved
<1>3. groupProfile' = [groupProfile EXCEPT ![g] = r]
  BY <1>1 DEF AddMembers
<1> HIDE DEF r
<1>4. groupProfile' \in [GroupIds -> Seq(Int)] /\ groupProfile'[g] = r
      /\ \A h \in GroupIds \ {g} : groupProfile'[h] = groupProfile[h]
  BY <1>1, <1>2, <1>3
<1>5. uncounted' = IF groupProfile[g] = <<>> THEN uncounted \cup {g} ELSE uncounted
  BY DEF AddMembers
<1>6. uncounted \subseteq GroupIds
  BY DEF GroupsTypeOK
<1> QED
  BY <1>4, <1>5, <1>6 DEF r

\* The groups that w is not about.
LEMMA CountOfElse ==
    ASSUME GroupsInv, Undisturbed, NEW w \in Workers, OnlyMoves(w),
           worker[w].pc # "CreateGroupProfile", UNCHANGED <<group, member>>,
           \/ worker'[w] = Idle
           \/ worker'[w].got = worker[w].got /\ worker'[w].user = worker[w].user,
           NEW h \in GroupIds, h # worker[w].got.id, joined'[h] = joined[h],
           groupProfile'[h] = groupProfile[h], h \in uncounted' <=> h \in uncounted
    PROVE  CountOf(h)'
<1>1. CountOf(h)
  BY DEF GroupsInv
<1>2. Tally(h)' = Tally(h)
  BY TallyElse
<1>3. Creating(h) => Creating(h)'
  BY CreatingStays
<1>4. Known' = Known /\ Free' = Free
  BY DEF Known, Free
<1> QED
  BY <1>1, <1>2, <1>3, <1>4, CountOfStays

\* What the rows that do not count know.
LEMMA RowsUnmoved ==
    ASSUME GroupsInv, Undisturbed, NEW w \in Workers, OnlyMoves(w),
           worker[w].pc \notin Adding, UNCHANGED <<group, member, left>>
    PROVE  \A h \in Known' : CreatorIsIn(h)'
<1> SUFFICES ASSUME NEW h \in Known'
             PROVE  CreatorIsIn(h)'
  OBVIOUS
<1>1. h \in Known /\ CreatorIsIn(h)
  BY DEF GroupsInv, Known, Free
<1> QED
  BY <1>1, CreatorStays DEF IsMember

LEMMA IncMembersKeeps ==
    ASSUME GroupsInv, NEW w \in Workers, IncMembers(w)
    PROVE  GroupsInv'
<1> DEFINE g == worker[w].got.id
           u == worker[w].user
           pc == IF worker[w].op = "JoinGroup" THEN "IncMembersAgain" ELSE "idle"
<1>1. /\ worker[w].pc = "IncMembers" /\ worker[w] # Idle /\ AddMembers(g, 1) /\ Goes(w, pc)
      /\ given' = IF IsDefault(w) /\ worker[w].got.found THEN given \cup {u} ELSE given
      /\ UNCHANGED <<group, member, joined, left>>
  BY DEF IncMembers, Idle
<1>2. /\ worker[w] \in GroupLocals /\ worker[w].got \in GroupGot /\ g \in Known
      /\ g \in GroupIds /\ u \in Users
  BY <1>1 DEF GroupsInv, GroupLocals, IdIsKnown, Known
<1>3. Known' = Known /\ Free' = Free /\ Known \subseteq GroupIds /\ RowsAge
  BY <1>1 DEF Known, Free, RowsAge
<1>4. pc \in {"IncMembersAgain", "idle"} /\ pc \in GroupCalls \cup {"idle"}
  BY DEF GroupCalls
<1> HIDE DEF pc
<1>5. /\ OnlyMoves(w) /\ AloneInv' /\ UNCHANGED faults
      /\ worker' \in [Workers -> GroupLocals \cup {Idle}]
      /\ Undisturbed' <=> Undisturbed
      /\ worker'[w].pc = pc
      /\ pc = "idle" => worker'[w] = Idle
      /\ pc # "idle" => /\ worker'[w].got = worker[w].got
                        /\ worker'[w].user = worker[w].user
  BY <1>1, <1>2, <1>4, GroupCallMoves DEF Goes
<1>6. /\ groupProfile' \in [GroupIds -> Seq(Int)] /\ uncounted' \subseteq GroupIds
      /\ groupProfile'[g] = [i \in DOMAIN groupProfile[g] |-> groupProfile[g][i] + 1]
      /\ \A h \in GroupIds \ {g} : groupProfile'[h] = groupProfile[h]
      /\ uncounted \subseteq uncounted' /\ uncounted' \subseteq uncounted \cup {g}
      /\ groupProfile[g] = <<>> => g \in uncounted'
  BY <1>1, <1>2, AddMembersEffect DEF GroupsInv
<1>7. GroupsTypeOK' /\ faults' \in Nat
  BY <1>1, <1>2, <1>5, <1>6 DEF GroupsInv, GroupsTypeOK
<1>8. IdIsKnown(w)' /\ FoundOf(w)'
  BY <1>2, <1>3, <1>4, <1>5 DEF IdIsKnown, FoundOf
<1>9. ASSUME Undisturbed
      PROVE  MembersOf(w)' /\ GivenInv'
  <2>1. MembersOf(w) /\ FoundOf(w) /\ GivenInv
    BY <1>9 DEF GroupsInv
  <2>2. MembersOf(w)'
    BY <1>1, <1>4, <1>5, <2>1 DEF MembersOf, IsMember
  <2>3. \A x \in given' : Lost(x)
    BY <1>1, <2>1 DEF FoundOf, GivenInv
  <2>4. GivenInv'
    BY <1>3, <2>3, LostStays DEF GivenInv
  <2> QED
    BY <2>2, <2>4
<1>10. ASSUME Undisturbed, NEW h \in GroupIds
       PROVE  CountOf(h)'
  <2>1. CASE h # g
    BY <1>1, <1>4, <1>5, <1>6, <1>10, <2>1, CountOfElse
  <2>2. CASE h = g
    <3>1. CountOf(h) /\ MembersOf(w) /\ Alone
      BY <1>10, OtherUsers, <1>1 DEF GroupsInv
    <3>2. PICK x \in Users : x = u
      BY <1>2
    <3>3. x \notin Tally(h)
      BY <1>1, <2>2, <3>2 DEF Tally, JoinCounted, Calls
    <3>4. x \in Tally(h)'
      <4>1. ~ Calls("IncMembers", h, x)'
        BY <1>1, <1>4, <1>5, <1>10, <3>2, CallsOfOneAfter, ZenonT(30)
      <4>2. IsMember(h, x)'
        BY <1>1, <2>2, <3>1, <3>2 DEF MembersOf, IsMember
      <4> QED
        BY <4>1, <4>2 DEF Tally, JoinCounted
    <3>5. \A y \in Users \ {x} : y \in Tally(h)' <=> y \in Tally(h)
      BY <1>1, <1>4, <1>5, <3>2, TallyElse
    <3>6. Tally(h)' = Tally(h) \cup {x}
      <4>1. Tally(h)' \subseteq Users /\ Tally(h) \subseteq Users
        BY DEF Tally
      <4> QED
        BY <3>3, <3>4, <3>5, <4>1
    <3>7. /\ IsFiniteSet(Tally(h)) /\ Cardinality(Tally(h)) \in Nat
      BY <3>1, FS_CardinalityType DEF CountOf
    <3>8. /\ IsFiniteSet(Tally(h)')
          /\ Cardinality(Tally(h)') = Cardinality(Tally(h)) + 1
      BY <3>3, <3>6, <3>7, FS_AddElement
    <3>9. joined'[h] = joined[h] /\ joined[h] \in Nat
      BY <1>1 DEF GroupsInv, GroupsTypeOK
    <3>10. Cardinality(Tally(h)') \in Nat
      BY <3>7, <3>8
    <3>11. Cardinality(Tally(h)') + joined'[h] = Cardinality(Tally(h)) + joined[h] + 1
      BY <3>7, <3>8, <3>9
    <3>12. /\ h \in Known /\ 1 \in Int
           /\ groupProfile'[h] = [i \in DOMAIN groupProfile[h] |-> groupProfile[h][i] + 1]
           /\ groupProfile[h] = <<>> => h \in uncounted'
      BY <1>2, <1>6, <2>2
    <3> QED
      BY <1>3, <1>6, <3>1, <3>8, <3>9, <3>10, <3>11, <3>12, CountMoves
  <2> QED
    BY <2>1, <2>2
<1>11. Undisturbed => \A h \in Known' : CreatorIsIn(h)'
  BY <1>1, <1>5, RowsUnmoved DEF Adding
<1> QED
  BY <1>1, <1>3, <1>5, <1>7, <1>8, <1>9, <1>10, <1>11, RequestKeeps

LEMMA IncMembersAgainKeeps ==
    ASSUME GroupsInv, NEW w \in Workers, IncMembersAgain(w)
    PROVE  GroupsInv'
<1> DEFINE g == worker[w].got.id
<1>1. /\ worker[w].pc = "IncMembersAgain" /\ worker[w] # Idle /\ AddMembers(g, 1)
      /\ joined' = [joined EXCEPT ![g] = @ + 1] /\ Goes(w, "idle")
      /\ UNCHANGED <<group, member, left, given>>
  BY DEF IncMembersAgain, Ends, Idle
<1>2. worker[w] \in GroupLocals /\ worker[w].got \in GroupGot /\ g \in Known /\ g \in GroupIds
  BY <1>1 DEF GroupsInv, GroupLocals, IdIsKnown, Known
<1>3. Known' = Known /\ Free' = Free /\ Known \subseteq GroupIds /\ RowsAge
  BY <1>1 DEF Known, Free, RowsAge
<1>4. /\ OnlyMoves(w) /\ AloneInv' /\ UNCHANGED faults
      /\ worker' \in [Workers -> GroupLocals \cup {Idle}]
      /\ Undisturbed' <=> Undisturbed
      /\ worker'[w].pc = "idle" /\ worker'[w] = Idle
  BY <1>1, <1>2, GroupCallMoves DEF Goes
<1>5. /\ groupProfile' \in [GroupIds -> Seq(Int)] /\ uncounted' \subseteq GroupIds
      /\ groupProfile'[g] = [i \in DOMAIN groupProfile[g] |-> groupProfile[g][i] + 1]
      /\ \A h \in GroupIds \ {g} : groupProfile'[h] = groupProfile[h]
      /\ uncounted \subseteq uncounted' /\ uncounted' \subseteq uncounted \cup {g}
      /\ groupProfile[g] = <<>> => g \in uncounted'
  BY <1>1, <1>2, AddMembersEffect DEF GroupsInv
<1>6. /\ joined \in [GroupIds -> Nat] /\ joined' \in [GroupIds -> Nat]
      /\ joined'[g] = joined[g] + 1 /\ \A h \in GroupIds \ {g} : joined'[h] = joined[h]
  BY <1>1, <1>2 DEF GroupsInv, GroupsTypeOK
<1>7. GroupsTypeOK' /\ faults' \in Nat
  BY <1>1, <1>4, <1>5, <1>6 DEF GroupsInv, GroupsTypeOK
<1>8. IdIsKnown(w)' /\ FoundOf(w)' /\ MembersOf(w)'
  BY <1>4 DEF IdIsKnown, FoundOf, MembersOf
<1>9. Undisturbed => GivenInv'
  BY <1>1, <1>3, LostStays DEF GroupsInv, GivenInv
<1>10. ASSUME Undisturbed, NEW h \in GroupIds
       PROVE  CountOf(h)'
  <2>1. CASE h # g
    BY <1>1, <1>4, <1>5, <1>6, <1>10, <2>1, CountOfElse
  <2>2. CASE h = g
    <3>1. CountOf(h)
      BY <1>10 DEF GroupsInv
    <3>2. Tally(h)' = Tally(h)
      BY <1>1, <1>4, TallyStays
    <3>3. /\ IsFiniteSet(Tally(h)) /\ Cardinality(Tally(h)) \in Nat
      BY <3>1, FS_CardinalityType DEF CountOf
    <3>4. joined'[h] = joined[h] + 1 /\ joined[h] \in Nat /\ joined'[h] \in Nat
      BY <1>6, <2>2
    <3>5. Cardinality(Tally(h)') + joined'[h] = Cardinality(Tally(h)) + joined[h] + 1
      BY <3>2, <3>3, <3>4
    <3>6. /\ h \in Known /\ 1 \in Int
          /\ groupProfile'[h] = [i \in DOMAIN groupProfile[h] |-> groupProfile[h][i] + 1]
          /\ groupProfile[h] = <<>> => h \in uncounted'
      BY <1>2, <1>5, <2>2
    <3>7. IsFiniteSet(Tally(h)') /\ Cardinality(Tally(h)') \in Nat
      BY <3>2, <3>3
    <3> QED
      BY <1>3, <1>5, <3>1, <3>4, <3>5, <3>6, <3>7, CountMoves
  <2> QED
    BY <2>1, <2>2
<1>11. Undisturbed => \A h \in Known' : CreatorIsIn(h)'
  BY <1>1, <1>4, RowsUnmoved DEF Adding
<1> QED
  BY <1>1, <1>3, <1>4, <1>7, <1>8, <1>9, <1>10, <1>11, RequestKeeps

LEMMA DecMembersKeeps ==
    ASSUME GroupsInv, NEW w \in Workers, DecMembers(w)
    PROVE  GroupsInv'
<1> DEFINE g == worker[w].got.id
           u == worker[w].user
<1>1. /\ worker[w].pc = "DecMembers" /\ worker[w] # Idle /\ AddMembers(g, -1)
      /\ Goes(w, "idle") /\ UNCHANGED <<group, member, joined, left, given>>
  BY DEF DecMembers, Ends, Idle
<1>2. /\ worker[w] \in GroupLocals /\ worker[w].got \in GroupGot /\ g \in Known
      /\ g \in GroupIds /\ u \in Users
  BY <1>1 DEF GroupsInv, GroupLocals, IdIsKnown, Known
<1>3. Known' = Known /\ Free' = Free /\ Known \subseteq GroupIds /\ RowsAge
  BY <1>1 DEF Known, Free, RowsAge
<1>4. /\ OnlyMoves(w) /\ AloneInv' /\ UNCHANGED faults
      /\ worker' \in [Workers -> GroupLocals \cup {Idle}]
      /\ Undisturbed' <=> Undisturbed
      /\ worker'[w].pc = "idle" /\ worker'[w] = Idle
  BY <1>1, <1>2, GroupCallMoves DEF Goes
<1>5. /\ groupProfile' \in [GroupIds -> Seq(Int)] /\ uncounted' \subseteq GroupIds
      /\ groupProfile'[g] = [i \in DOMAIN groupProfile[g] |-> groupProfile[g][i] + (-1)]
      /\ \A h \in GroupIds \ {g} : groupProfile'[h] = groupProfile[h]
      /\ uncounted \subseteq uncounted' /\ uncounted' \subseteq uncounted \cup {g}
      /\ groupProfile[g] = <<>> => g \in uncounted'
  <2>1. -1 \in Int
    OBVIOUS
  <2> QED
    BY <1>1, <1>2, <2>1, AddMembersEffect DEF GroupsInv
<1>6. GroupsTypeOK' /\ faults' \in Nat
  BY <1>1, <1>4, <1>5 DEF GroupsInv, GroupsTypeOK
<1>7. IdIsKnown(w)' /\ FoundOf(w)' /\ MembersOf(w)'
  BY <1>4 DEF IdIsKnown, FoundOf, MembersOf
<1>8. Undisturbed => GivenInv'
  BY <1>1, <1>3, LostStays DEF GroupsInv, GivenInv
<1>9. ASSUME Undisturbed, NEW h \in GroupIds
      PROVE  CountOf(h)'
  <2>1. CASE h # g
    BY <1>1, <1>4, <1>5, <1>9, <2>1, CountOfElse
  <2>2. CASE h = g
    <3>1. CountOf(h) /\ MembersOf(w) /\ Alone
      BY <1>9, OtherUsers, <1>1 DEF GroupsInv
    <3>2. PICK x \in Users : x = u
      BY <1>2
    <3>3. x \in Tally(h)
      <4>1. ~ Calls("IncMembers", h, x)
        BY <1>1, <3>1, <3>2, CallsOfOne
      <4>2. Calls("DecMembers", h, x)
        BY <1>1, <2>2, <3>2 DEF Calls
      <4> QED
        BY <4>1, <4>2 DEF Tally, JoinCounted
    <3>4. x \notin Tally(h)'
      <4>1. ~ Calls("DecMembers", h, x)'
        BY <1>1, <1>4, <1>9, <3>2, CallsOfOneAfter
      <4>2. ~ IsMember(h, x)'
        BY <1>1, <2>2, <3>1, <3>2 DEF MembersOf, IsMember
      <4> QED
        BY <4>1, <4>2 DEF Tally, JoinCounted
    <3>5. \A y \in Users \ {x} : y \in Tally(h)' <=> y \in Tally(h)
      BY <1>1, <1>4, <3>2, TallyElse
    <3>6. Tally(h)' = Tally(h) \ {x}
      <4>1. Tally(h)' \subseteq Users /\ Tally(h) \subseteq Users
        BY DEF Tally
      <4> QED
        BY <3>3, <3>4, <3>5, <4>1
    <3>7. /\ IsFiniteSet(Tally(h)) /\ Cardinality(Tally(h)) \in Nat
      BY <3>1, FS_CardinalityType DEF CountOf
    <3>8. /\ IsFiniteSet(Tally(h)')
          /\ Cardinality(Tally(h)') = Cardinality(Tally(h)) - 1
      BY <3>3, <3>6, <3>7, FS_RemoveElement
    <3>9. joined'[h] = joined[h] /\ joined[h] \in Nat
      BY <1>1 DEF GroupsInv, GroupsTypeOK
    <3>10. Cardinality(Tally(h)') \in Nat
      BY <3>8, FS_CardinalityType
    <3>11. Cardinality(Tally(h)') + joined'[h] = Cardinality(Tally(h)) + joined[h] + (-1)
      BY <3>7, <3>8, <3>9
    <3>12. /\ h \in Known /\ -1 \in Int
           /\ groupProfile'[h] = [i \in DOMAIN groupProfile[h] |-> groupProfile[h][i] + (-1)]
           /\ groupProfile[h] = <<>> => h \in uncounted'
      BY <1>2, <1>5, <2>2
    <3> QED
      BY <1>3, <1>5, <3>1, <3>8, <3>9, <3>10, <3>11, <3>12, CountMoves
  <2> QED
    BY <2>1, <2>2
<1>10. Undisturbed => \A h \in Known' : CreatorIsIn(h)'
  BY <1>1, <1>4, RowsUnmoved DEF Adding
<1> QED
  BY <1>1, <1>3, <1>4, <1>6, <1>7, <1>8, <1>9, <1>10, RequestKeeps

LEMMA GroupCutOffKeeps ==
    ASSUME GroupsInv, NEW w \in Workers, CutOff(w), UNCHANGED groups
    PROVE  GroupsInv'
<1>1. worker[w] # Idle /\ Logs(w, "idle") /\ DOMAIN worker = Workers /\ AloneInv
      /\ faults \in Nat /\ worker \in [Workers -> GroupLocals \cup {Idle}]
  BY DEF CutOff, Busy, GroupsInv
<1>2. UNCHANGED <<group, member, groupProfile, joined, uncounted, left, given>>
  BY DEF groups
<1>3. /\ worker' = [worker EXCEPT ![w] = Idle] /\ worker'[w] = Idle
      /\ OnlyMoves(w) /\ AloneInv' /\ faults' \in Nat /\ ~ Undisturbed'
  BY <1>1, FailureMoves DEF After
<1>4. worker' \in [Workers -> GroupLocals \cup {Idle}]
  BY <1>1, <1>3
<1>5. IdIsKnown(w)'
  BY <1>3 DEF IdIsKnown, Idle
<1>6. GroupsTypeOK' /\ RowsAge /\ Known' = Known
  BY <1>2 DEF GroupsInv, GroupsTypeOK, RowsAge, Known, Free
<1> QED
  BY <1>1, <1>2, <1>3, <1>4, <1>5, <1>6, RequestKeeps

LEMMA DeleteGroupKeeps ==
    ASSUME GroupsInv, DeleteGroup
    PROVE  GroupsInv'
<1>1. /\ group' = [g \in GroupIds |-> [group[g] EXCEPT !.live = FALSE]]
      /\ UNCHANGED <<worker, faults, overlapped>>
      /\ UNCHANGED <<member, groupProfile, joined, uncounted, left, given>>
  BY DEF DeleteGroup, Serves
<1>2. group \in [GroupIds -> [creator : Users \cup {None}, default : BOOLEAN,
                              live : BOOLEAN]]
  BY DEF GroupsInv, GroupsTypeOK
<1>3. \A g \in GroupIds :
         /\ group'[g] \in [creator : Users \cup {None}, default : BOOLEAN, live : BOOLEAN]
         /\ group'[g].creator = group[g].creator
         /\ group'[g].default = group[g].default /\ ~ group'[g].live
  BY <1>1, <1>2
<1>4. Free' = Free /\ Known' = Known
  <2>1. ASSUME NEW g \in Free
        PROVE  group'[g] = NoGroup
    <3>1. g \in GroupIds /\ group[g] = NoGroup
      BY DEF Free
    <3>2. group'[g] = [NoGroup EXCEPT !.live = FALSE]
      BY <1>1, <3>1
    <3> QED
      BY <3>2 DEF NoGroup
  <2>2. ASSUME NEW g \in Known
        PROVE  group'[g] # NoGroup
    <3>1. g \in GroupIds /\ group'[g].creator \in Users
      BY <1>3 DEF Known, GroupsInv
    <3> QED
      BY <3>1, RequestsAssumption DEF NoGroup
  <2> QED
    BY <2>1, <2>2 DEF Free, Known
<1>5. Known \subseteq GroupIds
  BY DEF Known
<1>6. RowsAge
  BY <1>1, <1>3, <1>4, <1>5 DEF RowsAge
<1>7. GroupsTypeOK' /\ (Undisturbed' <=> Undisturbed)
  <2>1. group' \in [GroupIds -> [creator : Users \cup {None}, default : BOOLEAN,
                                 live : BOOLEAN]]
    BY <1>1, <1>3
  <2> QED
    BY <1>1, <2>1 DEF GroupsInv, GroupsTypeOK, Undisturbed
<1>8. ASSUME NEW v \in Workers
      PROVE  IdIsKnown(v)' /\ (Undisturbed => MembersOf(v)' /\ FoundOf(v)')
  BY <1>1, <1>6, OtherGroupsStay
<1>9. ASSUME Undisturbed
      PROVE  GivenInv' /\ \A g \in Known' : CreatorIsIn(g)'
  <2>1. GivenInv'
    BY <1>1, <1>6, <1>9, LostStays DEF GroupsInv, GivenInv
  <2> QED
    BY <1>1, <1>3, <1>4, <1>5, <1>9, <2>1 DEF GroupsInv, CreatorIsIn, IsMember, Calls
<1>10. ASSUME Undisturbed, NEW g \in GroupIds
       PROVE  CountOf(g)'
  <2>1. CountOf(g)
    BY <1>10 DEF GroupsInv
  <2>2. Tally(g)' = Tally(g) /\ Creating(g)' = Creating(g)
    BY <1>1 DEF Tally, JoinCounted, IsMember, Calls, Creating
  <2> QED
    BY <1>1, <1>4, <2>1, <2>2, CountOfStays
<1>11. AloneInv' /\ \A g \in Known' : group'[g].creator \in Users
  BY <1>1, <1>3, <1>4, <1>5 DEF GroupsInv, AloneInv, Alone, Busy
<1> QED
  BY <1>1, <1>7, <1>8, <1>9, <1>10, <1>11 DEF GroupsInv

-----------------------------------------------------------------------------
LEMMA GroupsNextKeeps == GroupsInv /\ [GroupsNext]_groupsSpecVars => GroupsInv'
<1> SUFFICES ASSUME GroupsInv, [GroupsNext]_groupsSpecVars
             PROVE  GroupsInv'
  OBVIOUS
<1>1. ASSUME NEW w \in Workers, GroupsStep(w)
      PROVE  GroupsInv'
  BY <1>1, FindGroupKeeps, InsertGroupKeeps, CreateGroupProfileKeeps, FindMemberKeeps,
     InsertMemberKeeps, IncMembersKeeps, IncMembersAgainKeeps, DeleteMemberKeeps,
     DecMembersKeeps, GroupCutOffKeeps DEF GroupsStep
<1>2. CASE GroupsNext
  BY <1>1, <1>2, GroupArrivalsKeep, DeleteGroupKeeps DEF GroupsNext
<1>3. CASE UNCHANGED groupsSpecVars
  <2>1. /\ UNCHANGED <<worker, faults, overlapped, group, member, groupProfile, joined>>
        /\ UNCHANGED <<uncounted, left, given>>
    BY <1>3 DEF groupsSpecVars, requestVars, groups
  <2>2. /\ Known' = Known /\ Free' = Free /\ RowsAge /\ GroupsTypeOK'
        /\ Undisturbed' <=> Undisturbed
        /\ AloneInv'
    BY <2>1 DEF Known, Free, RowsAge, GroupsTypeOK, Undisturbed, AloneInv, Alone, Busy,
       GroupsInv
  <2>3. ASSUME NEW v \in Workers
        PROVE  IdIsKnown(v)' /\ (Undisturbed => MembersOf(v)' /\ FoundOf(v)')
    BY <2>1, <2>2, OtherGroupsStay
  <2>4. ASSUME Undisturbed
        PROVE  GivenInv' /\ \A g \in Known' : CreatorIsIn(g)'
    <3>1. GivenInv'
      BY <2>1, <2>2, <2>4, LostStays DEF GroupsInv, GivenInv
    <3> QED
      BY <2>1, <2>2, <2>4, <3>1 DEF GroupsInv, CreatorIsIn, IsMember, Calls
  <2>5. ASSUME Undisturbed, NEW g \in GroupIds
        PROVE  CountOf(g)'
    <3>1. CountOf(g)
      BY <2>5 DEF GroupsInv
    <3>2. Tally(g)' = Tally(g) /\ Creating(g)' = Creating(g)
      BY <2>1 DEF Tally, JoinCounted, IsMember, Calls, Creating
    <3> QED
      BY <2>1, <2>2, <3>1, <3>2, CountOfStays
  <2> QED
    BY <2>1, <2>2, <2>3, <2>4, <2>5 DEF GroupsInv
<1> QED
  BY <1>2, <1>3

\* What is known of groups, their members and the requests about them in every
\* state.
THEOREM GroupsInvariance == GroupsSpec => []GroupsInv
<1>1. RequestsInit /\ GroupsInit => GroupsInv
  BY GroupsInitHolds
<1>2. GroupsInv /\ [GroupsNext]_groupsSpecVars => GroupsInv'
  BY GroupsNextKeeps
<1> QED
  BY <1>1, <1>2, PTL DEF GroupsSpec, groupsSpecVars

\* The rows of the groups are rows of their types.
THEOREM GroupsAreTyped == GroupsSpec => []GroupsTypeOK
<1>1. GroupsInv => GroupsTypeOK
  BY DEF GroupsInv
<1> QED
  BY <1>1, GroupsInvariance, PTL

\* A join is counted twice and taken off once: at rest, the profile of a group
\* has its members, its creation and the joins that were answered.
THEOREM JoinsAreCountedTwice == GroupsSpec => []JoinsCountTwice
<1>1. GroupsInv => JoinsCountTwice
  <2> SUFFICES ASSUME GroupsInv, AtRest, Undisturbed, NEW g \in Known \ uncounted
               PROVE  groupProfile[g][1] =
                         Cardinality({u \in Users : IsMember(g, u)}) + 1 + joined[g]
    BY DEF JoinsCountTwice
  <2>1. \A w \in Workers : worker[w].pc = "idle"
    BY DEF AtRest, Busy, Idle
  <2>2. Tally(g) = {u \in Users : IsMember(g, u)} /\ ~ Creating(g)
    BY <2>1 DEF Tally, JoinCounted, Calls, Creating
  <2>3. CountOf(g)
    BY DEF GroupsInv, Known
  <2> QED
    BY <2>2, <2>3 DEF CountOf
<1> QED
  BY <1>1, GroupsInvariance, PTL

\* A user is given its default group again only when that group is lost to it.
THEOREM DefaultGroupIsForThoseWhoLeft == GroupsSpec => []DefaultGroupAfterLeaving
<1>1. GroupsInv => DefaultGroupAfterLeaving
  BY DEF GroupsInv, GivenInv, Lost, DefaultGroupAfterLeaving
<1> QED
  BY <1>1, GroupsInvariance, PTL

-----------------------------------------------------------------------------
(* Comments: replies, likes and the counts of them.                        *)

commentsSpecVars == <<requestVars, comments>>

\* What the locals of a request are between its calls.
CommentLocals(w) ==
    /\ worker[w].pc = "idle" => worker[w] = Idle
    /\ worker[w] # Idle => worker[w].user \in Users
    /\ worker[w].op = "CreateComment" => worker[w].pc \in {"GetSubject", "SaveSubject"}
    /\ worker[w].pc \in {"GetSubject", "SaveSubject"} => worker[w].on \in Subjects
    /\ worker[w].pc = "SaveSubject" => worker[w].got \in Nat
    /\ worker[w].pc \in {"InsertReply", "IncreaseReplyCount", "FindReply", "DeleteLike",
                         "CountLike"} => worker[w].on \in DOMAIN comment
    /\ worker[w].pc = "InsertReply" =>
          worker[w].got.on \in Subjects /\ worker[w].got.root \in Nat
    /\ worker[w].pc = "FindReply" => ~ comment[worker[w].on].live
    /\ worker[w].pc = "DeleteLike" => /\ worker[w].op = "DislikeComment"
                                      /\ worker[w].got.on = worker[w].on
                                      /\ worker[w].got.user = worker[w].user
    /\ worker[w].pc = "CountLike" => worker[w].op \in {"LikeComment", "DislikeComment"}

LikeRows == [user : Users, on : DOMAIN comment, id : Nat]

CommentsBase ==
    /\ CommentsTypeOK
    /\ served \in Nat /\ faults \in Nat
    /\ DOMAIN worker = Workers /\ Shaped /\ AloneInv
    /\ IsFiniteSet(Busy)
    /\ \A w \in Workers : CommentLocals(w)
    /\ \A c \in DOMAIN comment : comment[c].pre = 0 \/ comment[c].pre \in DOMAIN comment
    /\ IsFiniteSet(liking) /\ liking \subseteq LikeRows
    /\ \A l \in liking : l.id < served

\* The requests that are about to count: a reply or a like of the comment c, one
\* taken back, and a comment on x.
Repliers(c) == {w \in Workers : worker[w].pc = "IncreaseReplyCount" /\ worker[w].on = c}

Likers(c) ==
    {w \in Workers : /\ worker[w].pc = "CountLike" /\ worker[w].op = "LikeComment"
                     /\ worker[w].on = c}

Dislikers(c) ==
    {w \in Workers : /\ worker[w].pc = "CountLike" /\ worker[w].op = "DislikeComment"
                     /\ worker[w].on = c}

Makers(x) == {w \in Workers : worker[w].op = "CreateComment" /\ worker[w].on = x}

\* What they count.
RepliesTo(c) == {d \in DOMAIN comment : comment[d].pre = c}

LikesAt(c) == {l \in liking : l.on = c}

MadeOn(x) == {c \in DOMAIN comment : comment[c].on = x /\ comment[c].pre = 0}

RepliesCounted(c) ==
    comment[c].live =>
        comment[c].replies + Cardinality(Repliers(c)) = Cardinality(RepliesTo(c))

CommentLikesCounted(c) ==
    comment[c].live =>
        comment[c].likes + Cardinality(Likers(c))
            = Cardinality(LikesAt(c)) + Cardinality(Dislikers(c))

MadeCounted(x) ==
    /\ commented[x] + Cardinality(Makers(x)) <= Cardinality(MadeOn(x))
    /\ \A w \in Workers : worker[w].pc = "SaveSubject" /\ worker[w].on = x =>
          worker[w].got + Cardinality(Makers(x)) <= Cardinality(MadeOn(x))

\* No other request of the user takes the like.
LikeIsThere(w) == worker[w].pc = "DeleteLike" => worker[w].got \in liking

CommentsInv ==
    /\ CommentsBase
    /\ faults = 0 => \A c \in DOMAIN comment : RepliesCounted(c)
    /\ Undisturbed => /\ \A c \in DOMAIN comment : CommentLikesCounted(c)
                      /\ \A w \in Workers : LikeIsThere(w)
    /\ \A x \in Subjects : MadeCounted(x)

\* Rows are neither removed nor moved, nor do they come back.
RowsStay ==
    /\ DOMAIN comment \subseteq DOMAIN comment'
    /\ \A c \in DOMAIN comment : /\ comment'[c].on = comment[c].on
                                 /\ comment'[c].pre = comment[c].pre
                                 /\ comment'[c].live => comment[c].live

-----------------------------------------------------------------------------
LEMMA CommentsInitHolds == RequestsInit /\ CommentsInit => CommentsInv
<1> SUFFICES ASSUME RequestsInit, CommentsInit
             PROVE  CommentsInv
  OBVIOUS
<1>1. /\ worker = [w \in Workers |-> Idle] /\ served = 0 /\ faults = 0
      /\ comment = <<>> /\ liking = {} /\ commented = [x \in Subjects |-> 0]
  BY DEF RequestsInit, CommentsInit
<1>2. DOMAIN comment = {} /\ comment \in Seq([on : Subjects, root : Nat, pre : Nat,
                                              live : BOOLEAN, likes : Int, replies : Nat])
  BY <1>1
<1>3. CommentsTypeOK
  BY <1>1, <1>2 DEF CommentsTypeOK
<1>4. Busy = {} /\ IsFiniteSet(Busy) /\ AloneInv
  BY <1>1, FS_EmptySet DEF Busy, AloneInv, Alone
<1>5. Shaped /\ DOMAIN worker = Workers
  BY <1>1 DEF Shaped, Idle
<1>6. \A w \in Workers : CommentLocals(w) /\ LikeIsThere(w)
  BY <1>1 DEF CommentLocals, LikeIsThere, Idle
<1>7. CommentsBase
  BY <1>1, <1>2, <1>3, <1>4, <1>5, <1>6, FS_EmptySet DEF CommentsBase
<1>8. ASSUME NEW x \in Subjects
      PROVE  MadeCounted(x)
  <2>1. Makers(x) = {} /\ MadeOn(x) = {} /\ commented[x] = 0
    BY <1>1, <1>2 DEF Makers, MadeOn, Idle
  <2> QED
    BY <1>1, <2>1, FS_EmptySet DEF MadeCounted, Idle
<1> QED
  BY <1>2, <1>6, <1>7, <1>8 DEF CommentsInv

-----------------------------------------------------------------------------
LEMMA CommentCallMoves ==
    ASSUME CommentsBase, NEW w \in Workers, worker[w] # Idle, NEW pc, NEW got,
           GoesWith(w, pc, got)
    PROVE  /\ OnlyMoves(w) /\ DOMAIN worker' = Workers /\ AloneInv' /\ Shaped'
           /\ IsFiniteSet(Busy')
           /\ UNCHANGED <<served, faults, overlapped>>
           /\ Undisturbed' <=> Undisturbed
           /\ pc = "idle" => worker'[w] = Idle
           /\ pc # "idle" =>
                worker'[w] = [pc |-> pc, user |-> worker[w].user, op |-> worker[w].op,
                              on |-> worker[w].on, got |-> got]
<1>1. /\ worker'[w] = After(w, pc, got) /\ OnlyMoves(w) /\ AloneInv'
      /\ DOMAIN worker' = Workers /\ UNCHANGED <<served, faults, overlapped>>
  BY CallMoves DEF CommentsBase
<1>2. IsFiniteSet(Busy')
  BY <1>1, BusyStaysFinite DEF CommentsBase
<1>3. Undisturbed' <=> Undisturbed
  BY <1>1 DEF Undisturbed
<1> QED
  BY <1>1, <1>2, <1>3, CallStaysShaped DEF CommentsBase

LEMMA CommentFailureMoves ==
    ASSUME CommentsBase, NEW w \in Workers, worker[w] # Idle, Logs(w, "idle")
    PROVE  /\ OnlyMoves(w) /\ DOMAIN worker' = Workers /\ AloneInv' /\ Shaped'
           /\ IsFiniteSet(Busy')
           /\ UNCHANGED served /\ faults' \in Nat /\ faults' # 0 /\ ~ Undisturbed'
           /\ worker'[w] = Idle
<1>1. /\ worker'[w] = After(w, "idle", worker[w].got) /\ OnlyMoves(w) /\ AloneInv'
      /\ DOMAIN worker' = Workers /\ UNCHANGED served
      /\ faults' \in Nat /\ faults' # 0 /\ ~ Undisturbed'
  BY FailureMoves DEF CommentsBase
<1>2. IsFiniteSet(Busy')
  BY <1>1, BusyStaysFinite DEF CommentsBase
<1> QED
  BY <1>1, <1>2, CallStaysShaped DEF CommentsBase

LEMMA CommentRequestArrives ==
    ASSUME CommentsBase, NEW w \in Workers, NEW u \in Users, NEW op, NEW x, NEW pc, NEW got,
           Begins(w, u, op, x, pc, got)
    PROVE  /\ OnlyMoves(w) /\ DOMAIN worker' = Workers /\ AloneInv' /\ Shaped'
           /\ IsFiniteSet(Busy')
           /\ served' = served + 1 /\ UNCHANGED faults
           /\ Undisturbed' => Undisturbed
           /\ worker[w] = Idle
           /\ worker'[w] = [pc |-> pc, user |-> u, op |-> op, on |-> x, got |-> got]
<1>1. Takes(w, u, op, x, pc, got) /\ served' = served + 1
  BY DEF Begins
<1>2. /\ worker[w] = Idle /\ OnlyMoves(w) /\ AloneInv' /\ DOMAIN worker' = Workers
      /\ worker'[w] = [pc |-> pc, user |-> u, op |-> op, on |-> x, got |-> got]
      /\ UNCHANGED faults
      /\ Undisturbed' => Undisturbed
  BY <1>1, RequestArrives DEF CommentsBase
<1>3. IsFiniteSet(Busy')
  BY <1>2, BusyStaysFinite DEF CommentsBase
<1>4. Shaped'
  BY <1>2, RequestIsShaped DEF CommentsBase
<1> QED
  BY <1>1, <1>2, <1>3, <1>4

-----------------------------------------------------------------------------
\* What is counted is counted in finite sets.
LEMMA CommentSetsAreFinite ==
    ASSUME CommentsBase, NEW c
    PROVE  /\ IsFiniteSet(Repliers(c)) /\ IsFiniteSet(Likers(c))
           /\ IsFiniteSet(Dislikers(c)) /\ IsFiniteSet(Makers(c))
           /\ IsFiniteSet(RepliesTo(c)) /\ IsFiniteSet(LikesAt(c)) /\ IsFiniteSet(MadeOn(c))
<1>1. \A w \in Workers : worker[w] = Idle => worker[w].pc = "idle" /\ worker[w].op = "none"
  BY DEF Idle
<1>2. /\ Repliers(c) \subseteq Busy /\ Likers(c) \subseteq Busy
      /\ Dislikers(c) \subseteq Busy /\ Makers(c) \subseteq Busy
  BY <1>1 DEF Repliers, Likers, Dislikers, Makers, Busy
<1>3. IsFiniteSet(DOMAIN comment)
  <2>1. Len(comment) \in Nat /\ DOMAIN comment = 1..Len(comment)
    BY DEF CommentsBase, CommentsTypeOK
  <2> QED
    BY <2>1, FS_Interval
<1>4. RepliesTo(c) \subseteq DOMAIN comment /\ MadeOn(c) \subseteq DOMAIN comment
      /\ LikesAt(c) \subseteq liking
  BY DEF RepliesTo, MadeOn, LikesAt
<1> QED
  BY <1>2, <1>3, <1>4, FS_Subset DEF CommentsBase

LEMMA CallersElse ==
    ASSUME NEW w, OnlyMoves(w), NEW c
    PROVE  /\ Repliers(c)' \ {w} = Repliers(c) \ {w}
           /\ Likers(c)' \ {w} = Likers(c) \ {w}
           /\ Dislikers(c)' \ {w} = Dislikers(c) \ {w}
           /\ Makers(c)' \ {w} = Makers(c) \ {w}
  BY DEF OnlyMoves, Repliers, Likers, Dislikers, Makers

LEMMA LocalsStay ==
    ASSUME NEW v \in Workers, CommentLocals(v), worker'[v] = worker[v], RowsStay
    PROVE  CommentLocals(v)'
  BY DEF CommentLocals, RowsStay

LEMMA BaseStep ==
    ASSUME CommentsBase, RowsStay, NEW w, OnlyMoves(w), w \in Workers => CommentLocals(w)',
           DOMAIN worker' = Workers, Shaped', AloneInv', IsFiniteSet(Busy'), CommentsTypeOK',
           faults' \in Nat, served' \in Nat,
           \A c \in DOMAIN comment' \ DOMAIN comment :
              comment'[c].pre = 0 \/ comment'[c].pre \in DOMAIN comment',
           IsFiniteSet(liking'), liking' \subseteq LikeRows', \A l \in liking' : l.id < served'
    PROVE  CommentsBase'
<1>1. ASSUME NEW v \in Workers
      PROVE  CommentLocals(v)'
  <2>1. CASE v = w
    BY <2>1
  <2>2. CASE v # w
    BY <2>2, LocalsStay DEF CommentsBase, OnlyMoves
  <2> QED
    BY <2>1, <2>2
<1>2. ASSUME NEW c \in DOMAIN comment'
      PROVE  comment'[c].pre = 0 \/ comment'[c].pre \in DOMAIN comment'
  <2>1. CASE c \in DOMAIN comment
    BY <2>1 DEF CommentsBase, RowsStay
  <2>2. CASE c \notin DOMAIN comment
    BY <2>2
  <2> QED
    BY <2>1, <2>2
<1> QED
  BY <1>1, <1>2 DEF CommentsBase

LEMMA LikingStays ==
    ASSUME CommentsBase, RowsStay, liking' \subseteq liking, served' \in Nat, served <= served'
    PROVE  /\ IsFiniteSet(liking') /\ liking' \subseteq LikeRows'
           /\ \A l \in liking' : l.id < served'
<1>1. IsFiniteSet(liking')
  BY FS_Subset DEF CommentsBase
<1>2. LikeRows \subseteq LikeRows'
  BY DEF LikeRows, RowsStay
<1>3. ASSUME NEW l \in liking'
      PROVE  l.id < served'
  <2>1. l.id \in Nat /\ l.id < served /\ served \in Nat
    BY DEF CommentsBase, LikeRows
  <2> QED
    BY <2>1
<1> QED
  BY <1>1, <1>2, <1>3 DEF CommentsBase

-----------------------------------------------------------------------------
(* What a step does not count.                                             *)

LEMMA RepliesFrame ==
    ASSUME CommentsInv, NEW w, OnlyMoves(w), faults' = 0 => faults = 0,
           \/ worker'[w] = worker[w]
           \/ /\ worker[w].pc # "IncreaseReplyCount"
              /\ worker'[w].pc # "IncreaseReplyCount",
           \A c \in DOMAIN comment : /\ RepliesTo(c)' = RepliesTo(c)
                                     /\ comment'[c].replies = comment[c].replies
                                     /\ comment'[c].live => comment[c].live,
           \A n \in DOMAIN comment' \ DOMAIN comment :
              RepliesTo(n)' = {} /\ comment'[n].replies = 0
    PROVE  faults' = 0 => \A c \in DOMAIN comment' : RepliesCounted(c)'
<1> SUFFICES ASSUME faults' = 0, NEW c \in DOMAIN comment'
             PROVE  RepliesCounted(c)'
  OBVIOUS
<1>1. Repliers(c)' = Repliers(c)
  BY DEF Repliers, OnlyMoves
<1>2. CASE c \in DOMAIN comment
  BY <1>1, <1>2 DEF RepliesCounted, CommentsInv
<1>3. CASE c \notin DOMAIN comment
  <2>1. Repliers(c) = {}
    BY <1>3 DEF Repliers, CommentsInv, CommentsBase, CommentLocals
  <2>2. RepliesTo(c)' = {} /\ comment'[c].replies = 0
    BY <1>3
  <2> QED
    BY <1>1, <2>1, <2>2, FS_EmptySet DEF RepliesCounted
<1> QED
  BY <1>2, <1>3

LEMMA LikesFrame ==
    ASSUME CommentsInv, NEW w, OnlyMoves(w), Undisturbed' => Undisturbed,
           \/ worker'[w] = worker[w]
           \/ worker[w].pc # "CountLike" /\ worker'[w].pc # "CountLike",
           \/ worker'[w] = worker[w]
           \/ worker'[w].pc = "DeleteLike" => worker'[w].got \in liking,
           liking' = liking,
           \A c \in DOMAIN comment : /\ comment'[c].likes = comment[c].likes
                                     /\ comment'[c].live => comment[c].live,
           \A n \in DOMAIN comment' \ DOMAIN comment : comment'[n].likes = 0
    PROVE  Undisturbed' => /\ \A c \in DOMAIN comment' : CommentLikesCounted(c)'
                           /\ \A v \in Workers : LikeIsThere(v)'
<1> SUFFICES ASSUME Undisturbed'
             PROVE  /\ \A c \in DOMAIN comment' : CommentLikesCounted(c)'
                    /\ \A v \in Workers : LikeIsThere(v)'
  OBVIOUS
<1>1. ASSUME NEW c \in DOMAIN comment'
      PROVE  CommentLikesCounted(c)'
  <2>1. Likers(c)' = Likers(c) /\ Dislikers(c)' = Dislikers(c)
    BY DEF Likers, Dislikers, OnlyMoves
  <2>2. LikesAt(c)' = LikesAt(c)
    BY DEF LikesAt
  <2>3. CASE c \in DOMAIN comment
    BY <2>1, <2>2, <2>3 DEF CommentLikesCounted, CommentsInv
  <2>4. CASE c \notin DOMAIN comment
    <3>1. Likers(c) = {} /\ Dislikers(c) = {}
      BY <2>4 DEF Likers, Dislikers, CommentsInv, CommentsBase, CommentLocals
    <3>2. LikesAt(c) = {}
      BY <2>4 DEF LikesAt, CommentsInv, CommentsBase, LikeRows
    <3>3. comment'[c].likes = 0
      BY <2>4
    <3> QED
      BY <2>1, <2>2, <3>1, <3>2, <3>3, FS_EmptySet DEF CommentLikesCounted
  <2> QED
    BY <2>3, <2>4
<1>2. ASSUME NEW v \in Workers
      PROVE  LikeIsThere(v)'
  BY DEF LikeIsThere, OnlyMoves, CommentsInv
<1> QED
  BY <1>1, <1>2

LEMMA MadeFrame ==
    ASSUME CommentsInv, NEW w, OnlyMoves(w), UNCHANGED commented,
           \/ worker'[w] = worker[w]
           \/ /\ worker[w].op # "CreateComment" /\ worker'[w].op # "CreateComment"
              /\ worker'[w].pc # "SaveSubject",
           \A x \in Subjects : MadeOn(x)' = MadeOn(x)
    PROVE  \A x \in Subjects : MadeCounted(x)'
<1> SUFFICES ASSUME NEW x \in Subjects
             PROVE  MadeCounted(x)'
  OBVIOUS
<1>1. Makers(x)' = Makers(x)
  BY DEF Makers, OnlyMoves
<1>2. MadeCounted(x) /\ MadeOn(x)' = MadeOn(x)
  BY DEF CommentsInv
<1>3. ASSUME NEW v \in Workers, worker'[v].pc = "SaveSubject"
      PROVE  worker'[v] = worker[v]
  BY <1>3 DEF OnlyMoves
<1> QED
  BY <1>1, <1>2, <1>3 DEF MadeCounted

LEMMA RowsUnchanged ==
    ASSUME DOMAIN comment' = DOMAIN comment,
           \A d \in DOMAIN comment : /\ comment'[d].on = comment[d].on
                                     /\ comment'[d].pre = comment[d].pre
                                     /\ comment'[d].live => comment[d].live
    PROVE  /\ RowsStay /\ DOMAIN comment' \ DOMAIN comment = {}
           /\ \A c : RepliesTo(c)' = RepliesTo(c) /\ MadeOn(c)' = MadeOn(c)
  BY DEF RowsStay, RepliesTo, MadeOn

-----------------------------------------------------------------------------
(* Comments on stories and boards.                                         *)

CommentRows == [on : Subjects, root : Nat, pre : Nat, live : BOOLEAN, likes : Int,
                replies : Nat]

LEMMA RowsAreTyped ==
    ASSUME CommentsBase
    PROVE  /\ comment \in Seq(CommentRows) /\ Len(comment) \in Nat
           /\ DOMAIN comment = 1..Len(comment)
           /\ \A c \in DOMAIN comment : comment[c] \in CommentRows
           /\ commented \in [Subjects -> Nat] /\ served \in Nat /\ faults \in Nat
<1>1. comment \in Seq(CommentRows)
  BY DEF CommentsBase, CommentsTypeOK, CommentRows
<1>2. commented \in [Subjects -> Nat] /\ served \in Nat /\ faults \in Nat
  BY DEF CommentsBase, CommentsTypeOK
<1> QED
  BY <1>1, <1>2

\* A row of its own for each comment.
LEMMA RowAppended ==
    ASSUME CommentsBase, NEW r \in CommentRows, NEW n, n = Len(comment) + 1,
           r.pre = 0 \/ r.pre \in DOMAIN comment, comment' = Append(comment, r)
    PROVE  /\ RowsStay /\ DOMAIN comment' = DOMAIN comment \cup {n}
           /\ n \notin DOMAIN comment /\ n # 0 /\ comment'[n] = r
           /\ comment' \in Seq(CommentRows)
           /\ \A c \in DOMAIN comment : comment'[c] = comment[c]
           /\ \A c : RepliesTo(c)' = RepliesTo(c) \cup (IF r.pre = c THEN {n} ELSE {})
           /\ \A x : MadeOn(x)' = MadeOn(x) \cup (IF r.on = x /\ r.pre = 0 THEN {n} ELSE {})
           /\ n \notin RepliesTo(n) /\ RepliesTo(n) = {}
<1>1. comment \in Seq(CommentRows) /\ Len(comment) \in Nat /\ DOMAIN comment = 1..Len(comment)
  BY DEF CommentsBase, CommentsTypeOK, CommentRows
<1>2. /\ comment' \in Seq(CommentRows) /\ Len(comment') = n /\ comment'[n] = r
      /\ \A c \in DOMAIN comment : comment'[c] = comment[c]
      /\ DOMAIN comment' = 1..n
  BY <1>1
<1>3. DOMAIN comment' = DOMAIN comment \cup {n} /\ n \notin DOMAIN comment /\ n # 0
  BY <1>1, <1>2
<1>4. RowsStay
  BY <1>2, <1>3 DEF RowsStay
<1>5. \A c : RepliesTo(c)' = RepliesTo(c) \cup (IF r.pre = c THEN {n} ELSE {})
  BY <1>2, <1>3 DEF RepliesTo
<1>6. \A x : MadeOn(x)' = MadeOn(x) \cup (IF r.on = x /\ r.pre = 0 THEN {n} ELSE {})
  BY <1>2, <1>3 DEF MadeOn
<1>7. RepliesTo(n) = {}
  BY <1>3 DEF RepliesTo, CommentsBase
<1> QED
  BY <1>2, <1>3, <1>4, <1>5, <1>6, <1>7

LEMMA CreateCommentKeeps ==
    ASSUME CommentsInv, NEW w \in Workers, NEW u \in Users, NEW x \in Subjects,
           CreateComment(w, u, x)
    PROVE  CommentsInv'
<1>1. /\ CommentsBase /\ Begins(w, u, "CreateComment", x, "GetSubject", None)
      /\ comment' = Append(comment, Row(x, 0, 0)) /\ UNCHANGED <<liking, commented>>
  BY DEF CreateComment, CommentsInv
<1>2. /\ OnlyMoves(w) /\ DOMAIN worker' = Workers /\ AloneInv' /\ Shaped'
      /\ IsFiniteSet(Busy')
      /\ served' = served + 1 /\ UNCHANGED faults
      /\ Undisturbed' => Undisturbed
      /\ worker[w] = Idle
      /\ worker'[w] = [pc |-> "GetSubject", user |-> u, op |-> "CreateComment",
                       on |-> x, got |-> None]
  BY <1>1, CommentRequestArrives
<1>3. PICK n : n = Len(comment) + 1
  OBVIOUS
<1>4. PICK r \in CommentRows : r = Row(x, 0, 0)
  <2>1. Row(x, 0, 0) \in CommentRows
    BY DEF Row, CommentRows
  <2> QED
    BY <2>1
<1>5. r.on = x /\ r.pre = 0 /\ r.likes = 0 /\ r.replies = 0
  BY <1>4 DEF Row
<1>6. /\ RowsStay /\ DOMAIN comment' = DOMAIN comment \cup {n}
      /\ n \notin DOMAIN comment /\ n # 0 /\ comment'[n] = r
      /\ comment' \in Seq(CommentRows)
      /\ \A c \in DOMAIN comment : comment'[c] = comment[c]
      /\ \A c : RepliesTo(c)' = RepliesTo(c) \cup (IF r.pre = c THEN {n} ELSE {})
      /\ \A y : MadeOn(y)' = MadeOn(y) \cup (IF r.on = y /\ r.pre = 0 THEN {n} ELSE {})
      /\ RepliesTo(n) = {}
  BY <1>1, <1>3, <1>4, <1>5, RowAppended
<1>7. CommentLocals(w)'
  BY <1>2 DEF CommentLocals
<1>8. CommentsTypeOK'
  BY <1>1, <1>6 DEF CommentsBase, CommentsTypeOK, CommentRows
<1>9. served \in Nat /\ served' \in Nat /\ served <= served' /\ faults' \in Nat
  BY <1>1, <1>2 DEF CommentsBase
<1>10. CommentsBase'
  <2>1. /\ IsFiniteSet(liking') /\ liking' \subseteq LikeRows'
        /\ \A l \in liking' : l.id < served'
    BY <1>1, <1>6, <1>9, LikingStays
  <2> QED
    BY <1>1, <1>2, <1>5, <1>6, <1>7, <1>8, <1>9, <2>1, BaseStep
<1>11. faults' = 0 => \A c \in DOMAIN comment' : RepliesCounted(c)'
  <2>1. \A c \in DOMAIN comment : RepliesTo(c)' = RepliesTo(c)
    BY <1>5, <1>6, SMTT(30) DEF CommentsBase, RepliesTo
  <2>2. RepliesTo(n)' = {}
    BY <1>5, <1>6
  <2> QED
    BY <1>2, <1>5, <1>6, <2>1, <2>2, RepliesFrame DEF Idle
<1>12. Undisturbed' => /\ \A c \in DOMAIN comment' : CommentLikesCounted(c)'
                       /\ \A v \in Workers : LikeIsThere(v)'
  BY <1>1, <1>2, <1>5, <1>6, LikesFrame DEF Idle
<1>13. ASSUME NEW y \in Subjects
       PROVE  MadeCounted(y)'
  <2>1. MadeCounted(y) /\ IsFiniteSet(Makers(y)) /\ IsFiniteSet(MadeOn(y))
    BY <1>1, CommentSetsAreFinite DEF CommentsInv
  <2>2. Makers(y)' \ {w} = Makers(y) \ {w} /\ w \notin Makers(y)
    BY <1>2, CallersElse DEF Makers, Idle
  <2>3. MadeOn(y)' \ {n} = MadeOn(y) \ {n} /\ n \notin MadeOn(y)
    BY <1>6 DEF MadeOn
  <2>4. ASSUME NEW v \in Workers, worker'[v].pc = "SaveSubject", worker'[v].on = y
        PROVE  worker'[v] = worker[v] /\ worker[v].got \in Nat
    BY <1>1, <1>2, <2>4 DEF OnlyMoves, CommentsBase, CommentLocals
  <2>5. commented[y] \in Nat /\ commented'[y] = commented[y]
    BY <1>1 DEF CommentsBase, CommentsTypeOK
  <2>6. PICK a \in Nat, b \in Nat : a = Cardinality(Makers(y)) /\ b = Cardinality(MadeOn(y))
    BY <2>1, FS_CardinalityType
  <2>7. CASE y = x
    <3>1. w \in Makers(y)' /\ n \in MadeOn(y)'
      BY <1>2, <1>5, <1>6, <2>7 DEF Makers
    <3>2. Cardinality(Makers(y)') = a + 1 /\ Cardinality(MadeOn(y)') = b + 1
      BY <2>1, <2>2, <2>3, <2>6, <3>1, OneMoves
    <3> QED
      BY <2>1, <2>4, <2>5, <2>6, <3>2 DEF MadeCounted
  <2>8. CASE y # x
    <3>1. w \notin Makers(y)' /\ n \notin MadeOn(y)'
      BY <1>2, <1>5, <1>6, <2>3, <2>8 DEF Makers
    <3>2. Makers(y)' = Makers(y) /\ MadeOn(y)' = MadeOn(y)
      BY <2>2, <2>3, <3>1
    <3> QED
      BY <2>1, <2>4, <2>5, <3>2 DEF MadeCounted
  <2> QED
    BY <2>7, <2>8
<1> QED
  BY <1>10, <1>11, <1>12, <1>13 DEF CommentsInv

\* A step that writes no comment and no like.
LEMMA NoRowsWritten ==
    ASSUME CommentsInv, NEW w \in Workers, OnlyMoves(w), DOMAIN worker' = Workers,
           Shaped', AloneInv', IsFiniteSet(Busy'), UNCHANGED <<comment, liking>>,
           faults' \in Nat, faults' = 0 => faults = 0, Undisturbed' => Undisturbed,
           served' \in Nat, served <= served',
           commented' \in [Subjects -> Nat], CommentLocals(w)'
    PROVE  /\ CommentsBase'
           /\ \/ worker[w].pc = "IncreaseReplyCount"
              \/ worker'[w].pc = "IncreaseReplyCount"
              \/ faults' = 0 => \A c \in DOMAIN comment' : RepliesCounted(c)'
           /\ \/ worker[w].pc = "CountLike" \/ worker'[w].pc = "CountLike"
              \/ worker'[w].pc = "DeleteLike" /\ worker'[w].got \notin liking
              \/ Undisturbed' => /\ \A c \in DOMAIN comment' : CommentLikesCounted(c)'
                                 /\ \A v \in Workers : LikeIsThere(v)'
           /\ \/ worker[w].op = "CreateComment" \/ worker'[w].op = "CreateComment"
              \/ worker'[w].pc = "SaveSubject"
              \/ commented' # commented
              \/ \A x \in Subjects : MadeCounted(x)'
<1>1. /\ RowsStay /\ DOMAIN comment' \ DOMAIN comment = {}
      /\ \A c : RepliesTo(c)' = RepliesTo(c) /\ MadeOn(c)' = MadeOn(c)
  BY RowsUnchanged
<1>2. CommentsTypeOK'
  BY DEF CommentsInv, CommentsBase, CommentsTypeOK
<1>3. CommentsBase'
  <2>1. /\ IsFiniteSet(liking') /\ liking' \subseteq LikeRows'
        /\ \A l \in liking' : l.id < served'
    BY <1>1, LikingStays DEF CommentsInv
  <2> QED
    BY <1>1, <1>2, <2>1, BaseStep DEF CommentsInv
<1>4. \/ worker[w].pc = "IncreaseReplyCount"
      \/ worker'[w].pc = "IncreaseReplyCount"
      \/ faults' = 0 => \A c \in DOMAIN comment' : RepliesCounted(c)'
  BY <1>1, RepliesFrame
<1>5. \/ worker[w].pc = "CountLike" \/ worker'[w].pc = "CountLike"
      \/ worker'[w].pc = "DeleteLike" /\ worker'[w].got \notin liking
      \/ Undisturbed' => /\ \A c \in DOMAIN comment' : CommentLikesCounted(c)'
                         /\ \A v \in Workers : LikeIsThere(v)'
  BY <1>1, LikesFrame
<1>6. \/ worker[w].op = "CreateComment" \/ worker'[w].op = "CreateComment"
      \/ worker'[w].pc = "SaveSubject"
      \/ commented' # commented
      \/ \A x \in Subjects : MadeCounted(x)'
  BY <1>1, MadeFrame
<1> QED
  BY <1>3, <1>4, <1>5, <1>6

LEMMA ServedGrows ==
    ASSUME CommentsBase, served' = served + 1, UNCHANGED <<faults, commented>>
    PROVE  /\ served' \in Nat /\ served <= served' /\ faults' \in Nat
           /\ commented' \in [Subjects -> Nat]
<1>1. served \in Nat /\ faults \in Nat
  BY DEF CommentsBase
<1>2. commented \in [Subjects -> Nat]
  BY DEF CommentsBase, CommentsTypeOK
<1> QED
  BY <1>1, <1>2

LEMMA ChangeSubjectKeeps ==
    ASSUME CommentsInv, NEW w \in Workers, NEW u \in Users, NEW x \in Subjects,
           ChangeSubject(w, u, x)
    PROVE  CommentsInv'
<1>1. /\ CommentsBase /\ Begins(w, u, "ChangeSubject", x, "GetSubject", None)
      /\ UNCHANGED <<comment, liking, commented>>
  BY DEF ChangeSubject, CommentsInv, comments
<1>2. /\ OnlyMoves(w) /\ DOMAIN worker' = Workers /\ AloneInv' /\ Shaped'
      /\ IsFiniteSet(Busy')
      /\ served' = served + 1 /\ UNCHANGED faults
      /\ Undisturbed' => Undisturbed
      /\ worker[w] = Idle
      /\ worker'[w] = [pc |-> "GetSubject", user |-> u, op |-> "ChangeSubject",
                       on |-> x, got |-> None]
  BY <1>1, CommentRequestArrives
<1>3. CommentLocals(w)'
  BY <1>2 DEF CommentLocals
<1>4. /\ served' \in Nat /\ served <= served' /\ faults' \in Nat
      /\ commented' \in [Subjects -> Nat]
  BY <1>1, <1>2 DEF CommentsBase, CommentsTypeOK
<1>5. worker[w].pc = "idle" /\ worker[w].op = "none"
  BY <1>2 DEF Idle
<1>6. worker'[w].pc = "GetSubject" /\ worker'[w].op = "ChangeSubject"
  BY <1>2
<1> QED
  BY <1>1, <1>2, <1>3, <1>4, <1>5, <1>6, NoRowsWritten DEF CommentsInv

LEMMA GetSubjectKeeps ==
    ASSUME CommentsInv, NEW w \in Workers, GetSubject(w)
    PROVE  CommentsInv'
<1> DEFINE x == worker[w].on
<1>1. /\ CommentsBase /\ worker[w].pc = "GetSubject" /\ worker[w] # Idle
      /\ GoesWith(w, "SaveSubject", commented[x])
      /\ UNCHANGED <<comment, liking, commented>>
  BY DEF GetSubject, CommentsInv, comments, Idle
<1>2. /\ OnlyMoves(w) /\ DOMAIN worker' = Workers /\ AloneInv' /\ Shaped'
      /\ IsFiniteSet(Busy')
      /\ UNCHANGED <<served, faults, overlapped>>
      /\ Undisturbed' <=> Undisturbed
      /\ worker'[w] = [pc |-> "SaveSubject", user |-> worker[w].user, op |-> worker[w].op,
                       on |-> x, got |-> commented[x]]
  BY <1>1, CommentCallMoves
<1>3. /\ x \in Subjects /\ worker[w].user \in Users /\ CommentLocals(w)
      /\ served \in Nat /\ faults \in Nat /\ commented \in [Subjects -> Nat]
  BY <1>1 DEF CommentsBase, CommentLocals, CommentsTypeOK
<1>4. CommentLocals(w)'
  BY <1>1, <1>2, <1>3 DEF CommentLocals
<1>5. /\ CommentsBase'
      /\ faults' = 0 => \A c \in DOMAIN comment' : RepliesCounted(c)'
      /\ Undisturbed' => /\ \A c \in DOMAIN comment' : CommentLikesCounted(c)'
                         /\ \A v \in Workers : LikeIsThere(v)'
  BY <1>1, <1>2, <1>3, <1>4, NoRowsWritten
<1>6. ASSUME NEW y \in Subjects
      PROVE  MadeCounted(y)'
  <2>1. MadeCounted(y) /\ MadeOn(y)' = MadeOn(y)
    BY <1>1, RowsUnchanged DEF CommentsInv
  <2>2. Makers(y)' = Makers(y)
    BY <1>2 DEF OnlyMoves, Makers
  <2>3. ASSUME NEW v \in Workers, worker'[v].pc = "SaveSubject", worker'[v].on = y
        PROVE  worker'[v].got + Cardinality(Makers(y)) <= Cardinality(MadeOn(y))
    <3>1. CASE v = w
      BY <1>2, <2>1, <2>3, <3>1 DEF MadeCounted
    <3>2. CASE v # w
      BY <1>2, <2>1, <2>3, <3>2 DEF MadeCounted, OnlyMoves
    <3> QED
      BY <3>1, <3>2
  <2> QED
    BY <1>1, <2>1, <2>2, <2>3 DEF MadeCounted
<1> QED
  BY <1>5, <1>6 DEF CommentsInv

LEMMA SaveSubjectKeeps ==
    ASSUME CommentsInv, NEW w \in Workers, SaveSubject(w)
    PROVE  CommentsInv'
<1> DEFINE x == worker[w].on
           n == worker[w].got + Added(worker[w].op)
<1>1. /\ CommentsBase /\ worker[w].pc = "SaveSubject" /\ worker[w] # Idle
      /\ GoesWith(w, "idle", worker[w].got)
      /\ commented' = [commented EXCEPT ![x] = IF n = 0 THEN @ ELSE n]
      /\ UNCHANGED <<comment, liking>>
  BY DEF SaveSubject, CommentsInv, Idle, Ends, Goes
<1>2. /\ OnlyMoves(w) /\ DOMAIN worker' = Workers /\ AloneInv' /\ Shaped'
      /\ IsFiniteSet(Busy')
      /\ UNCHANGED <<served, faults, overlapped>>
      /\ Undisturbed' <=> Undisturbed
      /\ worker'[w] = Idle
  BY <1>1, CommentCallMoves
<1>3. /\ x \in Subjects /\ worker[w].got \in Nat
      /\ served \in Nat /\ faults \in Nat /\ commented \in [Subjects -> Nat]
  BY <1>1 DEF CommentsBase, CommentLocals, CommentsTypeOK
<1>4. n \in Nat /\ commented' \in [Subjects -> Nat]
  BY <1>1, <1>3 DEF Added
<1>5. CommentLocals(w)' /\ worker'[w].pc = "idle" /\ worker'[w].op = "none"
  BY <1>2 DEF CommentLocals, Idle
<1>6. /\ CommentsBase'
      /\ faults' = 0 => \A c \in DOMAIN comment' : RepliesCounted(c)'
      /\ Undisturbed' => /\ \A c \in DOMAIN comment' : CommentLikesCounted(c)'
                         /\ \A v \in Workers : LikeIsThere(v)'
  BY <1>1, <1>2, <1>3, <1>4, <1>5, NoRowsWritten
<1>7. ASSUME NEW y \in Subjects
      PROVE  MadeCounted(y)'
  <2>1. /\ MadeCounted(y) /\ MadeOn(y)' = MadeOn(y)
        /\ IsFiniteSet(Makers(y)) /\ IsFiniteSet(MadeOn(y))
    BY <1>1, RowsUnchanged, CommentSetsAreFinite DEF CommentsInv
  <2>2. Makers(y)' \ {w} = Makers(y) \ {w} /\ w \notin Makers(y)'
    BY <1>2, <1>5, CallersElse DEF Makers
  <2>3. PICK a \in Nat, b \in Nat : a = Cardinality(Makers(y)) /\ b = Cardinality(MadeOn(y))
    BY <2>1, FS_CardinalityType
  <2>4. PICK d \in Nat : /\ d = Cardinality(Makers(y)') /\ d <= a
                         /\ w \in Makers(y) => d = a - 1
    <3>1. CASE w \in Makers(y)
      <4>1. Cardinality(Makers(y)') = a - 1 /\ Cardinality(Makers(y)') \in Nat
        BY <2>1, <2>2, <2>3, <3>1, OneMoves
      <4> QED
        BY <3>1, <4>1
    <3>2. CASE w \notin Makers(y)
      BY <2>2, <2>3, <3>2
    <3> QED
      BY <3>1, <3>2
  <2>5. ASSUME NEW v \in Workers, worker'[v].pc = "SaveSubject", worker'[v].on = y
        PROVE  worker'[v].got + d <= b
    <3>1. worker'[v] = worker[v] /\ worker[v].got \in Nat
      BY <1>1, <1>2, <1>5, <2>5 DEF OnlyMoves, CommentsBase, CommentLocals
    <3>2. worker[v].got + a <= b
      BY <2>1, <2>3, <2>5, <3>1 DEF MadeCounted
    <3> QED
      BY <2>4, <3>1, <3>2
  <2>6. commented'[y] + d <= b
    <3>1. commented[y] + a <= b /\ commented[y] \in Nat
      BY <1>3, <2>1, <2>3 DEF MadeCounted
    <3>2. CASE y = x
      <4>1. worker[w].got + a <= b
        BY <1>1, <2>1, <2>3, <3>2 DEF MadeCounted
      <4>2. Added(worker[w].op) = 1 => w \in Makers(y)
        BY <3>2 DEF Added, Makers
      <4>3. n + d <= b
        <5>1. Added(worker[w].op) \in {0, 1}
          BY DEF Added
        <5> QED
          BY <1>3, <2>4, <4>1, <4>2, <5>1
      <4>4. commented'[y] = IF n = 0 THEN commented[y] ELSE n
        BY <1>1, <1>3, <3>2
      <4> QED
        BY <1>4, <2>4, <3>1, <4>3, <4>4
    <3>3. CASE y # x
      <4>1. commented'[y] = commented[y]
        BY <1>1, <1>3, <3>3
      <4> QED
        BY <2>4, <3>1, <4>1
    <3> QED
      BY <3>2, <3>3
  <2> QED
    BY <2>1, <2>3, <2>4, <2>5, <2>6 DEF MadeCounted
<1> QED
  BY <1>6, <1>7 DEF CommentsInv

\* A row is written: the others stay as they are.
LEMMA RowWritten ==
    ASSUME CommentsBase, NEW c \in DOMAIN comment, NEW r \in CommentRows,
           comment' = [comment EXCEPT ![c] = r]
    PROVE  /\ DOMAIN comment' = DOMAIN comment /\ comment' \in Seq(CommentRows)
           /\ comment'[c] = r
           /\ \A d \in DOMAIN comment \ {c} : comment'[d] = comment[d]
<1>1. comment \in Seq(CommentRows) /\ DOMAIN comment = 1..Len(comment) /\ Len(comment) \in Nat
  BY DEF CommentsBase, CommentsTypeOK, CommentRows
<1>2. comment' \in Seq(CommentRows)
  BY <1>1, ExceptSeq
<1>3. DOMAIN comment' = DOMAIN comment
  OBVIOUS
<1>4. comment'[c] = r /\ \A d \in DOMAIN comment \ {c} : comment'[d] = comment[d]
  OBVIOUS
<1> QED
  BY <1>2, <1>3, <1>4

\* A row that is deleted keeps its counts.
LEMMA RowDeleted ==
    ASSUME CommentsBase, NEW c \in DOMAIN comment, comment' = [comment EXCEPT ![c].live = FALSE]
    PROVE  /\ DOMAIN comment' = DOMAIN comment /\ comment' \in Seq(CommentRows)
           /\ \A d \in DOMAIN comment : /\ comment'[d].on = comment[d].on
                                        /\ comment'[d].pre = comment[d].pre
                                        /\ comment'[d].live => comment[d].live
                                        /\ comment'[d].likes = comment[d].likes
                                        /\ comment'[d].replies = comment[d].replies
           /\ ~ comment'[c].live
<1>1. comment[c] \in CommentRows
  BY RowsAreTyped
<1>2. PICK r : r = [comment[c] EXCEPT !.live = FALSE]
  OBVIOUS
<1>3. /\ r \in CommentRows /\ ~ r.live /\ r.on = comment[c].on /\ r.pre = comment[c].pre
      /\ r.likes = comment[c].likes /\ r.replies = comment[c].replies
  BY <1>1, <1>2 DEF CommentRows
<1>4. comment' = [comment EXCEPT ![c] = r]
  BY <1>2
<1>5. /\ DOMAIN comment' = DOMAIN comment /\ comment' \in Seq(CommentRows)
      /\ comment'[c] = r
      /\ \A d \in DOMAIN comment \ {c} : comment'[d] = comment[d]
  BY <1>3, <1>4, RowWritten
<1> QED
  BY <1>3, <1>5

LEMMA DeleteCommentKeeps ==
    ASSUME CommentsInv, NEW c \in DOMAIN comment, DeleteComment(c)
    PROVE  CommentsInv'
<1>1. /\ CommentsBase /\ served' = served + 1 /\ UNCHANGED <<worker, faults, overlapped>>
      /\ comment' = [comment EXCEPT ![c].live = FALSE] /\ UNCHANGED <<liking, commented>>
  BY DEF DeleteComment, CommentsInv, Serves
<1>2. /\ DOMAIN comment' = DOMAIN comment /\ comment' \in Seq(CommentRows)
      /\ \A d \in DOMAIN comment : /\ comment'[d].on = comment[d].on
                                   /\ comment'[d].pre = comment[d].pre
                                   /\ comment'[d].live => comment[d].live
                                   /\ comment'[d].likes = comment[d].likes
                                   /\ comment'[d].replies = comment[d].replies
  BY <1>1, RowDeleted
<1>3. /\ RowsStay /\ DOMAIN comment' \ DOMAIN comment = {}
      /\ \A x : RepliesTo(x)' = RepliesTo(x) /\ MadeOn(x)' = MadeOn(x)
  BY <1>2, RowsUnchanged
<1>4. /\ OnlyMoves(None) /\ None \notin Workers /\ Shaped' /\ AloneInv' /\ IsFiniteSet(Busy')
      /\ DOMAIN worker' = Workers /\ worker' = worker
      /\ Undisturbed' <=> Undisturbed
  BY <1>1, RequestsAssumption DEF OnlyMoves, CommentsBase, Shaped, AloneInv, Alone, Busy,
     Undisturbed
<1>5. CommentsTypeOK' /\ served' \in Nat /\ served <= served' /\ faults' \in Nat
  <2>1. CommentsTypeOK'
    BY <1>1, <1>2 DEF CommentsBase, CommentsTypeOK, CommentRows
  <2>2. served \in Nat /\ faults \in Nat
    BY <1>1 DEF CommentsBase
  <2> QED
    BY <1>1, <2>1, <2>2
<1>6. CommentsBase'
  <2>1. /\ IsFiniteSet(liking') /\ liking' \subseteq LikeRows'
        /\ \A l \in liking' : l.id < served'
    BY <1>1, <1>3, <1>5, LikingStays
  <2> QED
    BY <1>1, <1>3, <1>4, <1>5, <2>1, BaseStep
<1>7. faults' = 0 => \A x \in DOMAIN comment' : RepliesCounted(x)'
  BY <1>1, <1>2, <1>3, <1>4, RepliesFrame
<1>8. Undisturbed' => /\ \A x \in DOMAIN comment' : CommentLikesCounted(x)'
                      /\ \A v \in Workers : LikeIsThere(v)'
  BY <1>1, <1>2, <1>3, <1>4, LikesFrame
<1>9. \A x \in Subjects : MadeCounted(x)'
  BY <1>1, <1>3, <1>4, MadeFrame
<1> QED
  BY <1>6, <1>7, <1>8, <1>9 DEF CommentsInv

-----------------------------------------------------------------------------
(* Replies.                                                                *)

LEMMA CreateReplyKeeps ==
    ASSUME CommentsInv, NEW w \in Workers, NEW u \in Users, NEW c \in DOMAIN comment,
           CreateStoryCommentReply(w, u, c)
    PROVE  CommentsInv'
<1>1. /\ CommentsBase /\ Begins(w, u, "Reply", c, "InsertReply", comment[c])
      /\ UNCHANGED <<comment, liking, commented>>
  BY DEF CreateStoryCommentReply, CommentsInv, comments
<1>2. /\ OnlyMoves(w) /\ DOMAIN worker' = Workers /\ AloneInv' /\ Shaped'
      /\ IsFiniteSet(Busy')
      /\ served' = served + 1 /\ UNCHANGED faults
      /\ Undisturbed' => Undisturbed
      /\ worker[w] = Idle
      /\ worker'[w] = [pc |-> "InsertReply", user |-> u, op |-> "Reply",
                       on |-> c, got |-> comment[c]]
  BY <1>1, CommentRequestArrives
<1>3. comment[c].on \in Subjects /\ comment[c].root \in Nat
  BY <1>1, RowsAreTyped DEF CommentRows
<1>4. CommentLocals(w)'
  BY <1>1, <1>2, <1>3 DEF CommentLocals
<1>5. /\ served' \in Nat /\ served <= served' /\ faults' \in Nat
      /\ commented' \in [Subjects -> Nat]
  BY <1>1, <1>2, ServedGrows
<1>6. /\ worker[w].pc = "idle" /\ worker[w].op = "none"
      /\ worker'[w].pc = "InsertReply" /\ worker'[w].op = "Reply"
  BY <1>2 DEF Idle
<1> QED
  BY <1>1, <1>2, <1>4, <1>5, <1>6, NoRowsWritten DEF CommentsInv

LEMMA InsertReplyKeeps ==
    ASSUME CommentsInv, NEW w \in Workers, InsertReply(w)
    PROVE  CommentsInv'
<1>1. PICK c : c = worker[w].on
  OBVIOUS
<1>2. PICK n : n = Len(comment) + 1
  OBVIOUS
<1>3. PICK r : r = Row(worker[w].got.on,
                       IF worker[w].got.root = 0 THEN c ELSE worker[w].got.root, c)
  OBVIOUS
<1>4. /\ CommentsBase /\ worker[w].pc = "InsertReply" /\ worker[w] # Idle
      /\ GoesWith(w, "IncreaseReplyCount", worker[w].got)
      /\ comment' = Append(comment, r) /\ UNCHANGED <<liking, commented>>
  BY <1>1, <1>3 DEF InsertReply, CommentsInv, Idle, Goes
<1>5. /\ OnlyMoves(w) /\ DOMAIN worker' = Workers /\ AloneInv' /\ Shaped'
      /\ IsFiniteSet(Busy')
      /\ UNCHANGED <<served, faults, overlapped>>
      /\ Undisturbed' <=> Undisturbed
      /\ worker'[w] = [pc |-> "IncreaseReplyCount", user |-> worker[w].user,
                       op |-> worker[w].op, on |-> c, got |-> worker[w].got]
  BY <1>1, <1>4, CommentCallMoves
<1>6. /\ c \in DOMAIN comment /\ worker[w].user \in Users
      /\ worker[w].got.on \in Subjects /\ worker[w].got.root \in Nat
      /\ worker[w].op # "CreateComment"
      /\ served \in Nat /\ faults \in Nat
      /\ comment \in Seq(CommentRows)
  BY <1>1, <1>4 DEF CommentsBase, CommentLocals, CommentsTypeOK, CommentRows
<1>7. c \in Nat /\ c # 0
  <2>1. DOMAIN comment = 1..Len(comment) /\ Len(comment) \in Nat
    BY <1>6
  <2> QED
    BY <1>6, <2>1
<1>8. r \in CommentRows /\ r.pre = c /\ r.likes = 0 /\ r.replies = 0
  <2>1. PICK root \in Nat : r = Row(worker[w].got.on, root, c)
    BY <1>3, <1>6, <1>7
  <2> QED
    BY <1>6, <1>7, <2>1 DEF Row, CommentRows
<1>9. /\ RowsStay /\ DOMAIN comment' = DOMAIN comment \cup {n}
      /\ n \notin DOMAIN comment /\ n # 0 /\ comment'[n] = r
      /\ comment' \in Seq(CommentRows)
      /\ \A d \in DOMAIN comment : comment'[d] = comment[d]
      /\ \A d : RepliesTo(d)' = RepliesTo(d) \cup (IF r.pre = d THEN {n} ELSE {})
      /\ \A x : MadeOn(x)' = MadeOn(x) \cup (IF r.on = x /\ r.pre = 0 THEN {n} ELSE {})
      /\ RepliesTo(n) = {}
  BY <1>2, <1>4, <1>6, <1>8, RowAppended
<1>10. CommentLocals(w)'
  BY <1>5, <1>6, <1>9 DEF CommentLocals
<1>11. CommentsTypeOK'
  BY <1>4, <1>9 DEF CommentsBase, CommentsTypeOK, CommentRows
<1>12. CommentsBase'
  <2>1. /\ IsFiniteSet(liking') /\ liking' \subseteq LikeRows'
        /\ \A l \in liking' : l.id < served'
    BY <1>4, <1>5, <1>6, <1>9, LikingStays
  <2> QED
    BY <1>4, <1>5, <1>6, <1>8, <1>9, <1>10, <1>11, <2>1, BaseStep
<1>13. ASSUME faults' = 0, NEW d \in DOMAIN comment'
       PROVE  RepliesCounted(d)'
  <2>1. /\ IsFiniteSet(Repliers(d)) /\ IsFiniteSet(RepliesTo(d))
        /\ Repliers(d)' \ {w} = Repliers(d) \ {w} /\ w \notin Repliers(d)
    <3>1. w \notin Repliers(d)
      BY <1>4 DEF Repliers
    <3> QED
      BY <1>4, <1>5, <3>1, CommentSetsAreFinite, CallersElse
  <2>2. RepliesTo(d)' \ {n} = RepliesTo(d) \ {n} /\ n \notin RepliesTo(d)
    BY <1>9 DEF RepliesTo
  <2>3. PICK a \in Nat, b \in Nat :
           a = Cardinality(Repliers(d)) /\ b = Cardinality(RepliesTo(d))
    BY <2>1, FS_CardinalityType
  <2>4. CASE d = c
    <3>1. w \in Repliers(d)' /\ n \in RepliesTo(d)'
      BY <1>5, <1>8, <1>9, <2>4 DEF Repliers
    <3>2. Cardinality(Repliers(d)') = a + 1 /\ Cardinality(RepliesTo(d)') = b + 1
      BY <2>1, <2>2, <2>3, <3>1, OneMoves
    <3>3. RepliesCounted(d) /\ comment'[d] = comment[d] /\ comment[d].replies \in Nat
      <4>1. RepliesCounted(d)
        BY <1>5, <1>6, <1>13, <2>4 DEF CommentsInv
      <4>2. comment[d] \in CommentRows /\ comment'[d] = comment[d]
        BY <1>6, <1>9, <2>4
      <4> QED
        BY <4>1, <4>2 DEF CommentRows
    <3> QED
      BY <2>3, <3>2, <3>3 DEF RepliesCounted
  <2>5. CASE d # c
    <3>1. Repliers(d)' = Repliers(d) /\ RepliesTo(d)' = RepliesTo(d)
      <4>1. w \notin Repliers(d)'
        BY <1>5, <2>5 DEF Repliers
      <4>2. RepliesTo(d)' = RepliesTo(d)
        BY <1>8, <1>9, <2>5
      <4> QED
        BY <2>1, <4>1, <4>2
    <3>2. CASE d \in DOMAIN comment
      <4>1. RepliesCounted(d) /\ comment'[d] = comment[d]
        BY <1>5, <1>9, <1>13, <3>2 DEF CommentsInv
      <4> QED
        BY <3>1, <4>1 DEF RepliesCounted
    <3>3. CASE d = n
      <4>1. Repliers(d) = {}
        BY <1>4, <1>9, <3>3 DEF Repliers, CommentsBase, CommentLocals
      <4> QED
        <5>1. comment'[d].replies = 0 /\ Repliers(d)' = {} /\ RepliesTo(d)' = {}
          BY <1>8, <1>9, <3>1, <3>3, <4>1
        <5> QED
          BY <5>1, FS_EmptySet DEF RepliesCounted
    <3> QED
      BY <1>9, <3>2, <3>3
  <2> QED
    BY <2>4, <2>5
<1>14. Undisturbed' => /\ \A d \in DOMAIN comment' : CommentLikesCounted(d)'
                       /\ \A v \in Workers : LikeIsThere(v)'
  <2>1. worker[w].pc # "CountLike" /\ worker'[w].pc = "IncreaseReplyCount"
    BY <1>4, <1>5
  <2> QED
    BY <1>4, <1>5, <1>8, <1>9, <2>1, LikesFrame
<1>15. \A x \in Subjects : MadeCounted(x)'
  <2>1. \A x \in Subjects : MadeOn(x)' = MadeOn(x)
    BY <1>7, <1>8, <1>9
  <2>2. worker'[w].pc = "IncreaseReplyCount" /\ worker'[w].op # "CreateComment"
    BY <1>5, <1>6
  <2> QED
    BY <1>4, <1>5, <1>6, <2>1, <2>2, MadeFrame
<1> QED
  BY <1>12, <1>13, <1>14, <1>15 DEF CommentsInv

\* A request that stops has counted nothing: no count is promised after that but
\* that of the row that is commented on.
LEMMA CommentsCutOffKeeps ==
    ASSUME CommentsInv, NEW w \in Workers, worker[w] # Idle, Logs(w, "idle"),
           UNCHANGED <<comment, liking, commented>>
    PROVE  CommentsInv'
<1>1. CommentsBase /\ commented \in [Subjects -> Nat] /\ served \in Nat
  BY RowsAreTyped DEF CommentsInv
<1>2. /\ OnlyMoves(w) /\ DOMAIN worker' = Workers /\ AloneInv' /\ Shaped'
      /\ IsFiniteSet(Busy')
      /\ UNCHANGED served /\ faults' \in Nat /\ faults' # 0 /\ ~ Undisturbed'
      /\ worker'[w] = Idle
  BY <1>1, CommentFailureMoves
<1>3. CommentLocals(w)' /\ worker'[w].pc = "idle" /\ worker'[w].op = "none"
  BY <1>2 DEF CommentLocals, Idle
<1>4. CommentsBase'
  BY <1>1, <1>2, <1>3, NoRowsWritten
<1>5. ASSUME NEW y \in Subjects
      PROVE  MadeCounted(y)'
  <2>1. /\ MadeCounted(y) /\ MadeOn(y)' = MadeOn(y)
        /\ IsFiniteSet(Makers(y)) /\ IsFiniteSet(MadeOn(y))
    BY <1>1, RowsUnchanged, CommentSetsAreFinite DEF CommentsInv
  <2>2. Makers(y)' \ {w} = Makers(y) \ {w} /\ w \notin Makers(y)'
    BY <1>2, <1>3, CallersElse DEF Makers
  <2>3. PICK a \in Nat, b \in Nat, d \in Nat :
           /\ a = Cardinality(Makers(y)) /\ b = Cardinality(MadeOn(y))
           /\ d = Cardinality(Makers(y)') /\ d <= a
    <3>1. Makers(y)' \subseteq Makers(y)
      BY <2>2
    <3> QED
      BY <2>1, <3>1, FS_CardinalityType, FS_Subset
  <2>4. ASSUME NEW v \in Workers, worker'[v].pc = "SaveSubject", worker'[v].on = y
        PROVE  worker'[v].got + d <= b
    <3>1. worker'[v] = worker[v] /\ worker[v].got \in Nat
      BY <1>1, <1>2, <1>3, <2>4 DEF OnlyMoves, CommentsBase, CommentLocals
    <3>2. worker[v].got + a <= b
      BY <2>1, <2>3, <2>4, <3>1 DEF MadeCounted
    <3> QED
      BY <2>3, <3>1, <3>2
  <2>5. commented'[y] + d <= b
    <3>1. commented[y] + a <= b /\ commented[y] \in Nat /\ commented'[y] = commented[y]
      BY <1>1, <2>1, <2>3 DEF MadeCounted
    <3> QED
      BY <2>3, <3>1
  <2> QED
    BY <2>1, <2>3, <2>4, <2>5 DEF MadeCounted
<1> QED
  BY <1>2, <1>4, <1>5 DEF CommentsInv

\* One count of a row that is not deleted changes.
LEMMA RowPlus ==
    ASSUME CommentsBase, NEW c \in DOMAIN comment, NEW n \in Int,
           NEW count \in {"likes", "replies"}, LivePlus(c, count, n),
           count = "replies" /\ comment[c].live => comment[c].replies + n \in Nat
    PROVE  /\ DOMAIN comment' = DOMAIN comment /\ comment' \in Seq(CommentRows)
           /\ \A d \in DOMAIN comment : /\ comment'[d].on = comment[d].on
                                        /\ comment'[d].pre = comment[d].pre
                                        /\ comment'[d].live = comment[d].live
                                        /\ d # c => comment'[d] = comment[d]
                                        /\ count # "likes" => comment'[d].likes = comment[d].likes
                                        /\ count # "replies"
                                              => comment'[d].replies = comment[d].replies
           /\ comment[c].live =>
                 /\ count = "likes" => comment'[c].likes = comment[c].likes + n
                 /\ count = "replies" => comment'[c].replies = comment[c].replies + n
<1>1. comment[c] \in CommentRows /\ comment \in Seq(CommentRows)
  BY RowsAreTyped
<1>2. CASE ~ comment[c].live
  <2>1. comment' = comment
    BY <1>2 DEF LivePlus, Live
  <2> QED
    BY <1>1, <1>2, <2>1
<1>3. CASE comment[c].live
  <2>1. comment' = [comment EXCEPT ![c][count] = @ + n]
    BY <1>3 DEF LivePlus, Live
  <2>2. PICK r : r = [comment[c] EXCEPT ![count] = @ + n]
    OBVIOUS
  <2>3. comment' = [comment EXCEPT ![c] = r]
    BY <2>1, <2>2
  <2>4. /\ r.on = comment[c].on /\ r.pre = comment[c].pre /\ r.live = comment[c].live
        /\ count = "likes" => /\ r.likes = comment[c].likes + n
                              /\ r.replies = comment[c].replies
        /\ count = "replies" => /\ r.replies = comment[c].replies + n
                                /\ r.likes = comment[c].likes
        /\ r \in CommentRows
    <3>1. CASE count = "likes"
      <4>1. r = [comment[c] EXCEPT !.likes = @ + n]
        BY <2>2, <3>1
      <4>2. comment[c].likes + n \in Int /\ DOMAIN comment[c] = DOMAIN r
        BY <1>1, <4>1 DEF CommentRows
      <4>3. /\ r.on = comment[c].on /\ r.pre = comment[c].pre /\ r.live = comment[c].live
            /\ r.root = comment[c].root /\ r.replies = comment[c].replies
            /\ r.likes = comment[c].likes + n
        BY <1>1, <4>1 DEF CommentRows
      <4>4. r \in CommentRows
        BY <1>1, <4>1, <4>2 DEF CommentRows
      <4> QED
        BY <3>1, <4>3, <4>4
    <3>2. CASE count = "replies"
      <4>1. r = [comment[c] EXCEPT !.replies = @ + n]
        BY <2>2, <3>2
      <4> QED
        BY <1>1, <1>3, <3>2, <4>1 DEF CommentRows
    <3> QED
      BY <3>1, <3>2
  <2>5. /\ DOMAIN comment' = DOMAIN comment /\ comment' \in Seq(CommentRows)
        /\ comment'[c] = r
        /\ \A d \in DOMAIN comment \ {c} : comment'[d] = comment[d]
    BY <2>3, <2>4, RowWritten
  <2> QED
    BY <2>4, <2>5
<1> QED
  BY <1>2, <1>3

\* What is left to show of a step of w that writes no new row.
LEMMA RowsRewritten ==
    ASSUME CommentsInv, NEW w \in Workers, OnlyMoves(w), DOMAIN worker' = Workers,
           Shaped', AloneInv', IsFiniteSet(Busy'), UNCHANGED commented,
           DOMAIN comment' = DOMAIN comment, comment' \in Seq(CommentRows),
           \A d \in DOMAIN comment : /\ comment'[d].on = comment[d].on
                                     /\ comment'[d].pre = comment[d].pre
                                     /\ comment'[d].live => comment[d].live,
           liking' \subseteq liking,
           faults' \in Nat, served' \in Nat, served <= served', CommentLocals(w)',
           worker[w].op # "CreateComment", worker'[w].op # "CreateComment",
           worker'[w].pc # "SaveSubject"
    PROVE  CommentsBase' /\ \A x \in Subjects : MadeCounted(x)'
<1>1. /\ RowsStay /\ DOMAIN comment' \ DOMAIN comment = {}
      /\ \A c : RepliesTo(c)' = RepliesTo(c) /\ MadeOn(c)' = MadeOn(c)
  BY RowsUnchanged
<1>2. CommentsTypeOK'
  BY DEF CommentsInv, CommentsBase, CommentsTypeOK, CommentRows
<1>3. CommentsBase'
  <2>1. /\ IsFiniteSet(liking') /\ liking' \subseteq LikeRows'
        /\ \A l \in liking' : l.id < served'
    BY <1>1, LikingStays DEF CommentsInv
  <2> QED
    BY <1>1, <1>2, <2>1, BaseStep DEF CommentsInv
<1> QED
  BY <1>1, <1>3, MadeFrame

LEMMA IncreaseReplyCountKeeps ==
    ASSUME CommentsInv, NEW w \in Workers, IncreaseReplyCount(w)
    PROVE  CommentsInv'
<1>1. /\ CommentsBase /\ worker[w].pc = "IncreaseReplyCount" /\ worker[w] # Idle
      /\ UNCHANGED <<liking, commented>>
  BY DEF IncreaseReplyCount, CommentsInv, Idle
<1>2. PICK c \in DOMAIN comment : c = worker[w].on
  BY <1>1 DEF CommentsBase, CommentLocals
<1>3. worker[w].op # "CreateComment"
  BY <1>1 DEF CommentsBase, CommentLocals
<1>4. CASE GoesWith(w, "idle", worker[w].got) /\ LivePlus(c, "replies", 1)
  <2>1. /\ OnlyMoves(w) /\ DOMAIN worker' = Workers /\ AloneInv' /\ Shaped'
        /\ IsFiniteSet(Busy')
        /\ UNCHANGED <<served, faults, overlapped>>
        /\ Undisturbed' <=> Undisturbed
        /\ worker'[w] = Idle
    BY <1>1, <1>4, CommentCallMoves
  <2>2. comment[c] \in CommentRows /\ served \in Nat /\ faults \in Nat
    BY <1>1, RowsAreTyped
  <2>3. comment[c].replies \in Nat
    BY <2>2 DEF CommentRows
  <2>4. /\ DOMAIN comment' = DOMAIN comment /\ comment' \in Seq(CommentRows)
        /\ \A d \in DOMAIN comment : /\ comment'[d].on = comment[d].on
                                     /\ comment'[d].pre = comment[d].pre
                                     /\ comment'[d].live = comment[d].live
                                     /\ d # c => comment'[d] = comment[d]
                                     /\ comment'[d].likes = comment[d].likes
        /\ comment[c].live => comment'[c].replies = comment[c].replies + 1
    BY <1>1, <1>4, <2>3, RowPlus
  <2>5. /\ RowsStay /\ DOMAIN comment' \ DOMAIN comment = {}
        /\ \A d : RepliesTo(d)' = RepliesTo(d) /\ MadeOn(d)' = MadeOn(d)
    BY <2>4, RowsUnchanged
  <2>6. CommentLocals(w)' /\ worker'[w].pc = "idle" /\ worker'[w].op = "none"
    BY <2>1 DEF CommentLocals, Idle
  <2>7. CommentsBase' /\ \A x \in Subjects : MadeCounted(x)'
    BY <1>1, <1>3, <2>1, <2>2, <2>4, <2>6, RowsRewritten
  <2>8. ASSUME faults' = 0, NEW d \in DOMAIN comment'
        PROVE  RepliesCounted(d)'
    <3>1. RepliesCounted(d) /\ RepliesTo(d)' = RepliesTo(d)
      BY <2>1, <2>4, <2>5, <2>8 DEF CommentsInv
    <3>2. /\ IsFiniteSet(Repliers(d)) /\ IsFiniteSet(RepliesTo(d))
          /\ Repliers(d)' \ {w} = Repliers(d) \ {w} /\ w \notin Repliers(d)'
      <4>1. w \notin Repliers(d)'
        BY <2>6 DEF Repliers
      <4> QED
        BY <1>1, <2>1, <4>1, CommentSetsAreFinite, CallersElse
    <3>3. PICK a \in Nat, b \in Nat :
             a = Cardinality(Repliers(d)) /\ b = Cardinality(RepliesTo(d))
      BY <3>2, FS_CardinalityType
    <3>4. CASE d = c
      <4>1. w \in Repliers(d)
        BY <1>1, <1>2, <3>4 DEF Repliers
      <4>2. Cardinality(Repliers(d)') = a - 1
        BY <3>2, <3>3, <4>1, OneMoves
      <4>3. comment'[d].live => comment'[d].replies = comment[d].replies + 1 /\ comment[d].live
        BY <2>4, <3>4
      <4> QED
        BY <2>3, <3>1, <3>3, <3>4, <4>2, <4>3 DEF RepliesCounted
    <3>5. CASE d # c
      <4>1. w \notin Repliers(d)
        BY <1>2, <3>5 DEF Repliers
      <4>2. Repliers(d)' = Repliers(d) /\ comment'[d] = comment[d]
        <5>1. Repliers(d)' = Repliers(d)
          BY <3>2, <4>1
        <5>2. comment'[d] = comment[d]
          BY <2>4, <3>5
        <5> QED
          BY <5>1, <5>2
      <4> QED
        BY <3>1, <4>2 DEF RepliesCounted
    <3> QED
      BY <3>4, <3>5
  <2>9. Undisturbed' => /\ \A d \in DOMAIN comment' : CommentLikesCounted(d)'
                        /\ \A v \in Workers : LikeIsThere(v)'
    BY <1>1, <2>1, <2>4, <2>5, <2>6, LikesFrame
  <2> QED
    BY <2>7, <2>8, <2>9 DEF CommentsInv
<1>5. CASE Logs(w, "idle") /\ UNCHANGED comment
  BY <1>1, <1>5, CommentsCutOffKeeps
<1> QED
  BY <1>1, <1>2, <1>4, <1>5 DEF IncreaseReplyCount, Goes

LEMMA DeleteReplyKeeps ==
    ASSUME CommentsInv, NEW w \in Workers, NEW u \in Users, NEW c \in DOMAIN comment,
           DeleteStoryCommentReply(w, u, c)
    PROVE  CommentsInv'
<1>1. /\ CommentsBase /\ Begins(w, u, "DeleteReply", c, "FindReply", None)
      /\ comment' = [comment EXCEPT ![c].live = FALSE] /\ UNCHANGED <<liking, commented>>
  BY DEF DeleteStoryCommentReply, CommentsInv
<1>2. /\ OnlyMoves(w) /\ DOMAIN worker' = Workers /\ AloneInv' /\ Shaped'
      /\ IsFiniteSet(Busy')
      /\ served' = served + 1 /\ UNCHANGED faults
      /\ Undisturbed' => Undisturbed
      /\ worker[w] = Idle
      /\ worker'[w] = [pc |-> "FindReply", user |-> u, op |-> "DeleteReply",
                       on |-> c, got |-> None]
  BY <1>1, CommentRequestArrives
<1>3. /\ DOMAIN comment' = DOMAIN comment /\ comment' \in Seq(CommentRows)
      /\ \A d \in DOMAIN comment : /\ comment'[d].on = comment[d].on
                                   /\ comment'[d].pre = comment[d].pre
                                   /\ comment'[d].live => comment[d].live
                                   /\ comment'[d].likes = comment[d].likes
                                   /\ comment'[d].replies = comment[d].replies
      /\ ~ comment'[c].live
  BY <1>1, RowDeleted
<1>4. /\ RowsStay /\ DOMAIN comment' \ DOMAIN comment = {}
      /\ \A d : RepliesTo(d)' = RepliesTo(d) /\ MadeOn(d)' = MadeOn(d)
  BY <1>3, RowsUnchanged
<1>5. CommentLocals(w)'
  BY <1>2, <1>3 DEF CommentLocals
<1>6. /\ served' \in Nat /\ served <= served' /\ faults' \in Nat
  BY <1>1, <1>2, ServedGrows
<1>7. /\ worker[w].pc = "idle" /\ worker[w].op = "none"
      /\ worker'[w].pc = "FindReply" /\ worker'[w].op = "DeleteReply"
  BY <1>2 DEF Idle
<1>8. CommentsBase' /\ \A x \in Subjects : MadeCounted(x)'
  BY <1>1, <1>2, <1>3, <1>5, <1>6, <1>7, RowsRewritten
<1>9. faults' = 0 => \A d \in DOMAIN comment' : RepliesCounted(d)'
  BY <1>2, <1>3, <1>4, <1>7, RepliesFrame
<1>10. Undisturbed' => /\ \A d \in DOMAIN comment' : CommentLikesCounted(d)'
                       /\ \A v \in Workers : LikeIsThere(v)'
  BY <1>1, <1>2, <1>3, <1>4, <1>7, LikesFrame
<1> QED
  BY <1>8, <1>9, <1>10 DEF CommentsInv

\* The deleted reply is never found, so nothing is taken off.
LEMMA FindReplyKeeps ==
    ASSUME CommentsInv, NEW w \in Workers, FindReply(w)
    PROVE  CommentsInv'
<1>1. /\ CommentsBase /\ worker[w].pc = "FindReply" /\ worker[w] # Idle
      /\ GoesWith(w, "idle", worker[w].got)
      /\ UNCHANGED <<liking, commented>>
  BY DEF FindReply, CommentsInv, Idle, Ends, Goes
<1>2. ~ Readable(worker[w].on) /\ worker[w].op # "CreateComment"
  BY <1>1 DEF CommentsBase, CommentLocals, Readable, Live
<1>3. comment' = comment
  BY <1>2 DEF FindReply
<1>4. /\ OnlyMoves(w) /\ DOMAIN worker' = Workers /\ AloneInv' /\ Shaped'
      /\ IsFiniteSet(Busy')
      /\ UNCHANGED <<served, faults, overlapped>>
      /\ Undisturbed' <=> Undisturbed
      /\ worker'[w] = Idle
  BY <1>1, CommentCallMoves
<1>5. CommentLocals(w)' /\ worker'[w].pc = "idle" /\ worker'[w].op = "none"
  BY <1>4 DEF CommentLocals, Idle
<1>6. served \in Nat /\ faults \in Nat /\ commented \in [Subjects -> Nat]
  BY <1>1, RowsAreTyped
<1> QED
  BY <1>1, <1>2, <1>3, <1>4, <1>5, <1>6, NoRowsWritten DEF CommentsInv

-----------------------------------------------------------------------------
(* Likes of comments.                                                      *)

LEMMA FirstIsIn ==
    ASSUME NEW likes, likes # {}, \A l \in likes : l.id \in Nat
    PROVE  First(likes) \in likes
<1>1. PICK ids : ids = {l.id : l \in likes}
  OBVIOUS
<1>2. ids \in SUBSET Nat /\ ids # {}
  BY <1>1
<1>3. PICK i \in ids : \A j \in ids : i <= j
  BY <1>2, LowestIsIn
<1>4. PICK l \in likes : l.id = i
  BY <1>1
<1>5. \A other \in likes : l.id <= other.id
  BY <1>1, <1>3, <1>4
<1> QED
  BY <1>5 DEF First

LEMMA LikeCommentKeeps ==
    ASSUME CommentsInv, NEW w \in Workers, NEW u \in Users, NEW c \in DOMAIN comment,
           LikeComment(w, u, c)
    PROVE  CommentsInv'
<1>1. PICK l : l = [user |-> u, on |-> c, id |-> served]
  OBVIOUS
<1>2. /\ CommentsBase /\ Begins(w, u, "LikeComment", c, "CountLike", None)
      /\ liking' = liking \cup {l} /\ UNCHANGED <<comment, commented>>
  BY <1>1 DEF LikeComment, CommentsInv
<1>3. /\ OnlyMoves(w) /\ DOMAIN worker' = Workers /\ AloneInv' /\ Shaped'
      /\ IsFiniteSet(Busy')
      /\ served' = served + 1 /\ UNCHANGED faults
      /\ Undisturbed' => Undisturbed
      /\ worker[w] = Idle
      /\ worker'[w] = [pc |-> "CountLike", user |-> u, op |-> "LikeComment",
                       on |-> c, got |-> None]
  BY <1>2, CommentRequestArrives
<1>4. /\ RowsStay /\ DOMAIN comment' \ DOMAIN comment = {}
      /\ \A d : RepliesTo(d)' = RepliesTo(d) /\ MadeOn(d)' = MadeOn(d)
  BY <1>2, RowsUnchanged
<1>5. CommentLocals(w)'
  BY <1>2, <1>3 DEF CommentLocals
<1>6. served \in Nat /\ served' \in Nat /\ served <= served' /\ faults' \in Nat
  BY <1>2, <1>3, RowsAreTyped
<1>7. /\ worker[w].pc = "idle" /\ worker[w].op = "none"
      /\ worker'[w].pc = "CountLike" /\ worker'[w].op = "LikeComment"
      /\ worker'[w].on = c
  BY <1>3 DEF Idle
<1>8. l \in LikeRows /\ l.on = c /\ l.id = served /\ l.user = u
  BY <1>1, <1>6 DEF LikeRows
<1>9. l \notin liking
  <2>1. ~ (served < served)
    BY <1>6
  <2> QED
    BY <1>2, <1>8, <2>1 DEF CommentsBase
<1>10. IsFiniteSet(liking') /\ liking' \subseteq LikeRows' /\ \A k \in liking' : k.id < served'
  <2>1. IsFiniteSet(liking) /\ liking \subseteq LikeRows /\ \A k \in liking : k.id < served
    BY <1>2 DEF CommentsBase
  <2>2. \A k \in liking : k.id \in Nat
    BY <2>1 DEF LikeRows
  <2>3. LikeRows' = LikeRows
    BY <1>2 DEF LikeRows
  <2>4. \A k \in liking' : k.id < served'
    BY <1>2, <1>3, <1>6, <1>8, <2>1, <2>2
  <2> QED
    BY <1>2, <1>8, <2>1, <2>3, <2>4, FS_AddElement
<1>11. CommentsTypeOK'
  BY <1>2, <1>8 DEF CommentsBase, CommentsTypeOK
<1>12. CommentsBase'
  BY <1>2, <1>3, <1>4, <1>5, <1>6, <1>10, <1>11, BaseStep
<1>13. faults' = 0 => \A d \in DOMAIN comment' : RepliesCounted(d)'
  BY <1>2, <1>3, <1>4, <1>7, RepliesFrame
<1>14. ASSUME Undisturbed', NEW d \in DOMAIN comment'
       PROVE  CommentLikesCounted(d)'
  <2>1. CommentLikesCounted(d) /\ comment'[d] = comment[d]
    BY <1>2, <1>3, <1>14 DEF CommentsInv
  <2>2. /\ IsFiniteSet(Likers(d)) /\ IsFiniteSet(LikesAt(d)) /\ IsFiniteSet(Dislikers(d))
        /\ Likers(d)' \ {w} = Likers(d) \ {w} /\ w \notin Likers(d)
        /\ Dislikers(d)' \ {w} = Dislikers(d) \ {w} /\ w \notin Dislikers(d)
        /\ w \notin Dislikers(d)'
    <3>1. w \notin Likers(d) /\ w \notin Dislikers(d) /\ w \notin Dislikers(d)'
      BY <1>7 DEF Likers, Dislikers
    <3> QED
      BY <1>2, <1>3, <3>1, CommentSetsAreFinite, CallersElse
  <2>3. LikesAt(d)' \ {l} = LikesAt(d) \ {l} /\ l \notin LikesAt(d)
    BY <1>2, <1>9 DEF LikesAt
  <2>4. Dislikers(d)' = Dislikers(d)
    BY <2>2
  <2>5. PICK a \in Nat, b \in Nat, e \in Nat :
           /\ a = Cardinality(Likers(d)) /\ b = Cardinality(LikesAt(d))
           /\ e = Cardinality(Dislikers(d))
    BY <2>2, FS_CardinalityType
  <2>6. comment[d].likes \in Int
    BY <1>2, RowsAreTyped DEF CommentRows
  <2>7. CASE d = c
    <3>1. w \in Likers(d)' /\ l \in LikesAt(d)'
      BY <1>2, <1>7, <1>8, <2>7 DEF Likers, LikesAt
    <3>2. Cardinality(Likers(d)') = a + 1 /\ Cardinality(LikesAt(d)') = b + 1
      BY <2>2, <2>3, <2>5, <3>1, OneMoves
    <3> QED
      BY <2>1, <2>4, <2>5, <2>6, <3>2 DEF CommentLikesCounted
  <2>8. CASE d # c
    <3>1. w \notin Likers(d)' /\ l \notin LikesAt(d)'
      BY <1>7, <1>8, <2>8 DEF Likers, LikesAt
    <3>2. Likers(d)' = Likers(d) /\ LikesAt(d)' = LikesAt(d)
      BY <2>2, <2>3, <3>1
    <3> QED
      BY <2>1, <2>4, <3>2 DEF CommentLikesCounted
  <2> QED
    BY <2>7, <2>8
<1>15. ASSUME Undisturbed', NEW v \in Workers
       PROVE  LikeIsThere(v)'
  <2>1. CASE v = w
    BY <1>7, <2>1 DEF LikeIsThere
  <2>2. CASE v # w
    BY <1>2, <1>3, <1>15, <2>2 DEF LikeIsThere, CommentsInv, OnlyMoves
  <2> QED
    BY <2>1, <2>2
<1>16. \A x \in Subjects : MadeCounted(x)'
  BY <1>2, <1>3, <1>4, <1>7, MadeFrame
<1> QED
  BY <1>12, <1>13, <1>14, <1>15, <1>16 DEF CommentsInv

LEMMA DislikeCommentKeeps ==
    ASSUME CommentsInv, NEW w \in Workers, NEW u \in Users, NEW c \in DOMAIN comment,
           DislikeComment(w, u, c)
    PROVE  CommentsInv'
<1>1. PICK l : l = First(LikesOf(u, c))
  OBVIOUS
<1>2. /\ CommentsBase /\ Begins(w, u, "DislikeComment", c, "DeleteLike", l)
      /\ LikesOf(u, c) # {} /\ UNCHANGED <<comment, liking, commented>>
  BY <1>1 DEF DislikeComment, CommentsInv, comments
<1>3. /\ OnlyMoves(w) /\ DOMAIN worker' = Workers /\ AloneInv' /\ Shaped'
      /\ IsFiniteSet(Busy')
      /\ served' = served + 1 /\ UNCHANGED faults
      /\ Undisturbed' => Undisturbed
      /\ worker[w] = Idle
      /\ worker'[w] = [pc |-> "DeleteLike", user |-> u, op |-> "DislikeComment",
                       on |-> c, got |-> l]
  BY <1>2, CommentRequestArrives
<1>4. l \in liking /\ l.user = u /\ l.on = c
  <2>1. \A k \in LikesOf(u, c) : k.id \in Nat
    BY <1>2 DEF LikesOf, CommentsBase, LikeRows
  <2>2. l \in LikesOf(u, c)
    BY <1>1, <1>2, <2>1, FirstIsIn
  <2> QED
    BY <2>2 DEF LikesOf
<1>5. CommentLocals(w)'
  BY <1>2, <1>3, <1>4 DEF CommentLocals
<1>6. /\ served' \in Nat /\ served <= served' /\ faults' \in Nat
      /\ commented' \in [Subjects -> Nat]
  BY <1>2, <1>3, ServedGrows
<1>7. /\ worker[w].pc = "idle" /\ worker[w].op = "none"
      /\ worker'[w].pc = "DeleteLike" /\ worker'[w].op = "DislikeComment"
      /\ worker'[w].got = l
  BY <1>3 DEF Idle
<1> QED
  BY <1>2, <1>3, <1>4, <1>5, <1>6, <1>7, NoRowsWritten DEF CommentsInv

\* What is left to show of a step of w on the likes of c.
LEMMA LikesMove ==
    ASSUME CommentsBase, NEW w \in Workers, OnlyMoves(w), NEW c, NEW d,
           worker[w].on = c, worker'[w] = Idle \/ worker'[w].on = c
    PROVE  /\ IsFiniteSet(Likers(d)) /\ IsFiniteSet(LikesAt(d)) /\ IsFiniteSet(Dislikers(d))
           /\ Likers(d)' \ {w} = Likers(d) \ {w}
           /\ Dislikers(d)' \ {w} = Dislikers(d) \ {w}
           /\ d # c => Likers(d)' = Likers(d) /\ Dislikers(d)' = Dislikers(d)
<1>1. d # c => /\ w \notin Likers(d) /\ w \notin Dislikers(d)
               /\ w \notin Likers(d)' /\ w \notin Dislikers(d)'
  BY DEF Likers, Dislikers, Idle
<1>2. /\ Likers(d)' \ {w} = Likers(d) \ {w}
      /\ Dislikers(d)' \ {w} = Dislikers(d) \ {w}
  BY CallersElse
<1> QED
  BY <1>1, <1>2, CommentSetsAreFinite

LEMMA DeleteLikeKeeps ==
    ASSUME CommentsInv, NEW w \in Workers, DeleteLike(w)
    PROVE  CommentsInv'
<1>1. /\ CommentsBase /\ worker[w].pc = "DeleteLike" /\ worker[w] # Idle
      /\ GoesWith(w, "CountLike", worker[w].got)
      /\ UNCHANGED <<comment, commented>>
  BY DEF DeleteLike, CommentsInv, Idle, Goes
<1>2. PICK l : l = worker[w].got
  OBVIOUS
<1>3. PICK c \in DOMAIN comment : c = worker[w].on
  BY <1>1 DEF CommentsBase, CommentLocals
<1>4. liking' = liking \ {l}
  BY <1>2 DEF DeleteLike
<1>5. /\ worker[w].op = "DislikeComment" /\ l.on = c /\ l.user = worker[w].user
      /\ worker[w].user \in Users
  BY <1>1, <1>2, <1>3 DEF CommentsBase, CommentLocals
<1>6. /\ OnlyMoves(w) /\ DOMAIN worker' = Workers /\ AloneInv' /\ Shaped'
      /\ IsFiniteSet(Busy')
      /\ UNCHANGED <<served, faults, overlapped>>
      /\ Undisturbed' <=> Undisturbed
      /\ worker'[w] = [pc |-> "CountLike", user |-> worker[w].user, op |-> worker[w].op,
                       on |-> c, got |-> l]
  BY <1>1, <1>2, <1>3, CommentCallMoves
<1>7. /\ worker'[w].pc = "CountLike" /\ worker'[w].op = "DislikeComment"
      /\ worker'[w].on = c
  BY <1>5, <1>6
<1>8. CommentLocals(w)'
  BY <1>1, <1>5, <1>6 DEF CommentLocals
<1>9. /\ comment \in Seq(CommentRows) /\ served \in Nat /\ faults \in Nat
      /\ \A d \in DOMAIN comment : comment[d] \in CommentRows
  BY <1>1, RowsAreTyped
<1>10. CommentsBase' /\ \A x \in Subjects : MadeCounted(x)'
  BY <1>1, <1>4, <1>5, <1>6, <1>7, <1>8, <1>9, RowsRewritten
<1>11. faults' = 0 => \A d \in DOMAIN comment' : RepliesCounted(d)'
  <2>1. \A d : RepliesTo(d)' = RepliesTo(d)
    BY <1>1 DEF RepliesTo
  <2> QED
    BY <1>1, <1>6, <1>7, <2>1, RepliesFrame
<1>12. ASSUME Undisturbed'
       PROVE  l \in liking /\ \A v \in Workers : LikeIsThere(v)'
  <2>1. /\ \A v \in Workers : LikeIsThere(v)
        /\ Alone
    BY <1>1, <1>6, <1>12 DEF CommentsInv, CommentsBase, AloneInv, Undisturbed
  <2>2. ASSUME NEW v \in Workers
        PROVE  LikeIsThere(v)'
    <3>1. CASE v = w
      BY <1>7, <3>1 DEF LikeIsThere
    <3>2. CASE v # w /\ worker[v].pc = "DeleteLike"
      <4>1. worker[v].got.user = worker[v].user /\ v \in Busy /\ w \in Busy
        BY <1>1, <3>2 DEF CommentsBase, CommentLocals, Busy, Idle
      <4>2. worker[v].user # worker[w].user
        BY <2>1, <3>2, <4>1 DEF Alone
      <4>3. worker[v].got # l /\ worker[v].got \in liking
        BY <1>5, <2>1, <3>2, <4>1, <4>2 DEF LikeIsThere
      <4> QED
        BY <1>4, <1>6, <3>2, <4>3 DEF LikeIsThere, OnlyMoves
    <3>3. CASE v # w /\ worker[v].pc # "DeleteLike"
      BY <1>6, <3>3 DEF LikeIsThere, OnlyMoves
    <3> QED
      BY <3>1, <3>2, <3>3
  <2> QED
    BY <1>1, <1>2, <2>1, <2>2 DEF LikeIsThere
<1>13. ASSUME Undisturbed', NEW d \in DOMAIN comment'
       PROVE  CommentLikesCounted(d)'
  <2>1. CommentLikesCounted(d) /\ comment'[d] = comment[d] /\ d \in DOMAIN comment
    BY <1>1, <1>6, <1>13 DEF CommentsInv
  <2>2. /\ IsFiniteSet(Likers(d)) /\ IsFiniteSet(LikesAt(d)) /\ IsFiniteSet(Dislikers(d))
        /\ Likers(d)' \ {w} = Likers(d) \ {w}
        /\ Dislikers(d)' \ {w} = Dislikers(d) \ {w}
        /\ d # c => Likers(d)' = Likers(d) /\ Dislikers(d)' = Dislikers(d)
    BY <1>1, <1>3, <1>6, <1>7, LikesMove
  <2>3. w \notin Likers(d) /\ w \notin Likers(d)' /\ w \notin Dislikers(d)
    BY <1>1, <1>7 DEF Likers, Dislikers
  <2>4. Likers(d)' = Likers(d) /\ LikesAt(d)' = LikesAt(d) \ {l}
    BY <1>4, <2>2, <2>3 DEF LikesAt
  <2>5. PICK a \in Nat, b \in Nat, e \in Nat :
           /\ a = Cardinality(Likers(d)) /\ b = Cardinality(LikesAt(d))
           /\ e = Cardinality(Dislikers(d))
    BY <2>2, FS_CardinalityType
  <2>6. comment[d].likes \in Int
    BY <1>9, <2>1 DEF CommentRows
  <2>7. CASE d = c
    <3>1. w \in Dislikers(d)' /\ l \in LikesAt(d)
      BY <1>5, <1>7, <1>12, <1>13, <2>7 DEF Dislikers, LikesAt
    <3>2. Cardinality(Dislikers(d)') = e + 1
      BY <2>2, <2>3, <2>5, <3>1, OneMoves
    <3>3. Cardinality(LikesAt(d)') = b - 1
      <4>1. Cardinality(LikesAt(d) \ {l}) = Cardinality(LikesAt(d)) - 1
        BY <2>2, <3>1, FS_RemoveElement
      <4> QED
        BY <2>4, <2>5, <4>1
    <3> QED
      BY <2>1, <2>4, <2>5, <2>6, <3>2, <3>3 DEF CommentLikesCounted
  <2>8. CASE d # c
    <3>1. LikesAt(d)' = LikesAt(d)
      BY <1>5, <2>4, <2>8 DEF LikesAt
    <3> QED
      BY <2>1, <2>2, <2>8, <3>1 DEF CommentLikesCounted
  <2> QED
    BY <2>7, <2>8
<1> QED
  BY <1>10, <1>11, <1>12, <1>13 DEF CommentsInv

LEMMA CountLikeKeeps ==
    ASSUME CommentsInv, NEW w \in Workers, CountLike(w)
    PROVE  CommentsInv'
<1> DEFINE n == IF worker[w].op = "LikeComment" THEN 1 ELSE -1
<1>1. /\ CommentsBase /\ worker[w].pc = "CountLike" /\ worker[w] # Idle
      /\ GoesWith(w, "idle", worker[w].got) /\ LivePlus(worker[w].on, "likes", n)
      /\ UNCHANGED <<liking, commented>>
  BY DEF CountLike, CommentsInv, Idle, Ends, Goes
<1>2. PICK c \in DOMAIN comment : c = worker[w].on
  BY <1>1 DEF CommentsBase, CommentLocals
<1>3. worker[w].op \in {"LikeComment", "DislikeComment"}
  BY <1>1 DEF CommentsBase, CommentLocals
<1>4. /\ OnlyMoves(w) /\ DOMAIN worker' = Workers /\ AloneInv' /\ Shaped'
      /\ IsFiniteSet(Busy')
      /\ UNCHANGED <<served, faults, overlapped>>
      /\ Undisturbed' <=> Undisturbed
      /\ worker'[w] = Idle
  BY <1>1, CommentCallMoves
<1>5. /\ DOMAIN comment' = DOMAIN comment /\ comment' \in Seq(CommentRows)
      /\ \A d \in DOMAIN comment : /\ comment'[d].on = comment[d].on
                                   /\ comment'[d].pre = comment[d].pre
                                   /\ comment'[d].live = comment[d].live
                                   /\ d # c => comment'[d] = comment[d]
                                   /\ comment'[d].replies = comment[d].replies
      /\ comment[c].live => comment'[c].likes = comment[c].likes + n
  <2>1. n \in Int
    OBVIOUS
  <2> HIDE DEF n
  <2> QED
    BY <1>1, <1>2, <2>1, RowPlus
<1>6. CommentLocals(w)' /\ worker'[w].pc = "idle" /\ worker'[w].op = "none"
  BY <1>4 DEF CommentLocals, Idle
<1>7. /\ served \in Nat /\ faults \in Nat
      /\ \A d \in DOMAIN comment : comment[d] \in CommentRows
  BY <1>1, RowsAreTyped
<1>8. CommentsBase' /\ \A x \in Subjects : MadeCounted(x)'
  BY <1>1, <1>3, <1>4, <1>5, <1>6, <1>7, RowsRewritten
<1>9. /\ RowsStay /\ DOMAIN comment' \ DOMAIN comment = {}
      /\ \A d : RepliesTo(d)' = RepliesTo(d) /\ MadeOn(d)' = MadeOn(d)
  BY <1>5, RowsUnchanged
<1>10. faults' = 0 => \A d \in DOMAIN comment' : RepliesCounted(d)'
  BY <1>1, <1>4, <1>5, <1>6, <1>9, RepliesFrame
<1>11. ASSUME Undisturbed', NEW d \in DOMAIN comment'
       PROVE  CommentLikesCounted(d)'
  <2>1. CommentLikesCounted(d) /\ d \in DOMAIN comment
    BY <1>4, <1>5, <1>11 DEF CommentsInv
  <2>2. /\ IsFiniteSet(Likers(d)) /\ IsFiniteSet(LikesAt(d)) /\ IsFiniteSet(Dislikers(d))
        /\ Likers(d)' \ {w} = Likers(d) \ {w}
        /\ Dislikers(d)' \ {w} = Dislikers(d) \ {w}
        /\ d # c => Likers(d)' = Likers(d) /\ Dislikers(d)' = Dislikers(d)
    BY <1>1, <1>2, <1>4, LikesMove
  <2>3. w \notin Likers(d)' /\ w \notin Dislikers(d)'
    BY <1>6 DEF Likers, Dislikers
  <2>4. LikesAt(d)' = LikesAt(d)
    BY <1>1 DEF LikesAt
  <2>5. PICK a \in Nat, b \in Nat, e \in Nat :
           /\ a = Cardinality(Likers(d)) /\ b = Cardinality(LikesAt(d))
           /\ e = Cardinality(Dislikers(d))
    BY <2>2, FS_CardinalityType
  <2>6. comment[d].likes \in Int
    BY <1>7, <2>1 DEF CommentRows
  <2>7. CASE d = c /\ worker[w].op = "LikeComment"
    <3>1. w \in Likers(d) /\ w \notin Dislikers(d)
      BY <1>1, <1>2, <2>7 DEF Likers, Dislikers
    <3>2. Cardinality(Likers(d)') = a - 1 /\ Dislikers(d)' = Dislikers(d)
      BY <2>2, <2>3, <2>5, <3>1, OneMoves
    <3>3. comment'[d].live => comment'[d].likes = comment[d].likes + 1 /\ comment[d].live
      BY <1>5, <2>1, <2>7
    <3> QED
      BY <2>1, <2>4, <2>5, <2>6, <3>2, <3>3 DEF CommentLikesCounted
  <2>8. CASE d = c /\ worker[w].op = "DislikeComment"
    <3>1. w \in Dislikers(d) /\ w \notin Likers(d)
      BY <1>1, <1>2, <2>8 DEF Likers, Dislikers
    <3>2. Cardinality(Dislikers(d)') = e - 1 /\ Likers(d)' = Likers(d)
      BY <2>2, <2>3, <2>5, <3>1, OneMoves
    <3>3. comment'[d].live => comment'[d].likes = comment[d].likes + (-1) /\ comment[d].live
      BY <1>5, <2>1, <2>8
    <3> QED
      BY <2>1, <2>4, <2>5, <2>6, <3>2, <3>3 DEF CommentLikesCounted
  <2>9. CASE d # c
    <3>1. comment'[d] = comment[d]
      BY <1>5, <2>1, <2>9
    <3> QED
      BY <2>1, <2>2, <2>4, <2>9, <3>1 DEF CommentLikesCounted
  <2> QED
    BY <1>3, <2>7, <2>8, <2>9
<1>12. ASSUME Undisturbed', NEW v \in Workers
       PROVE  LikeIsThere(v)'
  <2>1. CASE v = w
    BY <1>6, <2>1 DEF LikeIsThere
  <2>2. CASE v # w
    BY <1>1, <1>4, <1>12, <2>2 DEF LikeIsThere, CommentsInv, OnlyMoves
  <2> QED
    BY <2>1, <2>2
<1> QED
  BY <1>8, <1>10, <1>11, <1>12 DEF CommentsInv

-----------------------------------------------------------------------------
LEMMA CommentsNextKeeps == CommentsInv /\ [CommentsNext]_commentsSpecVars => CommentsInv'
<1> SUFFICES ASSUME CommentsInv, [CommentsNext]_commentsSpecVars
             PROVE  CommentsInv'
  OBVIOUS
<1>1. ASSUME NEW w \in Workers, CommentsStep(w)
      PROVE  CommentsInv'
  <2>1. CASE CutOff(w) /\ UNCHANGED comments
    <3>1. worker[w] # Idle /\ Logs(w, "idle") /\ UNCHANGED <<comment, liking, commented>>
      BY <2>1 DEF CutOff, Busy, comments
    <3> QED
      BY <3>1, CommentsCutOffKeeps
  <2> QED
    BY <1>1, <2>1, GetSubjectKeeps, SaveSubjectKeeps, InsertReplyKeeps,
       IncreaseReplyCountKeeps, FindReplyKeeps, DeleteLikeKeeps, CountLikeKeeps
       DEF CommentsStep
<1>2. CASE CommentsNext
  BY <1>1, <1>2, CreateCommentKeeps, ChangeSubjectKeeps, CreateReplyKeeps, DeleteReplyKeeps,
     LikeCommentKeeps, DislikeCommentKeeps, DeleteCommentKeeps DEF CommentsNext
<1>3. CASE UNCHANGED commentsSpecVars
  <2>1. /\ UNCHANGED <<worker, served, faults, overlapped>>
        /\ UNCHANGED <<comment, liking, commented>>
    BY <1>3 DEF commentsSpecVars, requestVars, comments
  <2>2. CommentsBase'
    BY <2>1 DEF CommentsInv, CommentsBase, CommentsTypeOK, Shaped, AloneInv, Alone, Busy,
       CommentLocals, LikeRows
  <2>3. \A c : /\ RepliesCounted(c)' = RepliesCounted(c)
              /\ CommentLikesCounted(c)' = CommentLikesCounted(c)
               /\ MadeCounted(c)' = MadeCounted(c)
    BY <2>1 DEF RepliesCounted, CommentLikesCounted, MadeCounted, Repliers, RepliesTo, Likers,
       Dislikers, LikesAt, Makers, MadeOn
  <2>4. \A v : LikeIsThere(v)' = LikeIsThere(v)
    BY <2>1 DEF LikeIsThere
  <2> QED
    BY <2>1, <2>2, <2>3, <2>4 DEF CommentsInv, Undisturbed
<1> QED
  BY <1>2, <1>3

\* What is known of comments and the requests about them in every state.
THEOREM CommentsInvariance == CommentsSpec => []CommentsInv
<1>1. RequestsInit /\ CommentsInit => CommentsInv
  BY CommentsInitHolds
<1>2. CommentsInv /\ [CommentsNext]_commentsSpecVars => CommentsInv'
  BY CommentsNextKeeps
<1> QED
  BY <1>1, <1>2, PTL DEF CommentsSpec, commentsSpecVars

\* The rows of comments and of their likes are rows of their types.
THEOREM CommentsAreTyped == CommentsSpec => []CommentsTypeOK
<1>1. CommentsInv => CommentsTypeOK
  BY DEF CommentsInv, CommentsBase
<1> QED
  BY <1>1, CommentsInvariance, PTL

\* A comment counts the replies to it and its likes; what is commented on never
\* counts more than the comments made on it.
THEOREM CommentsAreCounted == CommentsSpec => []CommentCountsAgree
<1>1. CommentsInv => CommentCountsAgree
  <2> SUFFICES ASSUME CommentsInv
               PROVE  CommentCountsAgree
    OBVIOUS
  <2>1. CommentsBase
    BY DEF CommentsInv
  <2>2. ASSUME AtRest, faults = 0, NEW c \in DOMAIN comment, Live(c)
        PROVE  /\ comment[c].replies = Cardinality({d \in DOMAIN comment : comment[d].pre = c})
               /\ ~ overlapped =>
                     comment[c].likes = Cardinality({l \in liking : l.on = c})
    <3>1. \A w \in Workers : worker[w].pc = "idle"
      BY <2>2 DEF AtRest, Busy, Idle
    <3>2. Repliers(c) = {} /\ Likers(c) = {} /\ Dislikers(c) = {}
      BY <3>1 DEF Repliers, Likers, Dislikers
    <3>3. comment[c].replies \in Nat /\ comment[c].likes \in Int
      BY <2>1, RowsAreTyped DEF CommentRows
    <3>4. Cardinality(RepliesTo(c)) \in Nat /\ Cardinality(LikesAt(c)) \in Nat
      BY <2>1, CommentSetsAreFinite, FS_CardinalityType
    <3>5. comment[c].replies = Cardinality(RepliesTo(c))
      <4>1. comment[c].replies + Cardinality(Repliers(c)) = Cardinality(RepliesTo(c))
        BY <2>2 DEF CommentsInv, RepliesCounted, Live
      <4> QED
        BY <3>2, <3>3, <3>4, <4>1, FS_EmptySet
    <3>6. ~ overlapped => comment[c].likes = Cardinality(LikesAt(c))
      <4>1. ~ overlapped => CommentLikesCounted(c)
        BY <2>2 DEF CommentsInv, Undisturbed
      <4>2. Cardinality(Likers(c)) = 0 /\ Cardinality(Dislikers(c)) = 0 /\ comment[c].live
        BY <2>2, <3>2, FS_EmptySet DEF Live
      <4> QED
        BY <3>3, <3>4, <4>1, <4>2 DEF CommentLikesCounted
    <3> QED
      BY <3>5, <3>6 DEF RepliesTo, LikesAt
  <2>3. ASSUME NEW x \in Subjects
        PROVE  commented[x] <= Cardinality(MadeOn(x))
    <3>1. commented[x] \in Nat
      BY <2>1, RowsAreTyped
    <3>2. Cardinality(MadeOn(x)) \in Nat /\ Cardinality(Makers(x)) \in Nat
      BY <2>1, CommentSetsAreFinite, FS_CardinalityType
    <3>3. commented[x] + Cardinality(Makers(x)) <= Cardinality(MadeOn(x))
      BY DEF CommentsInv, MadeCounted
    <3> QED
      BY <3>1, <3>2, <3>3
  <2> QED
    BY <2>2, <2>3 DEF CommentCountsAgree, MadeOn
<1> QED
  BY <1>1, CommentsInvariance, PTL
-----------------------------------------------------------------------------
(* Chats: messages and replies.                                            *)

chatsSpecVars == <<requestVars, chats>>

Talks == [role : ChatRoles, count : 0..MaxMessages, next : 1..MaxMessages]

ChatLocals(w) ==
    /\ worker[w].pc = "idle" => worker[w] = Idle
    /\ worker[w] # Idle => worker[w].user \in Users /\ worker[w].on \in Talks
    /\ worker[w].op = "CreateStoryRoleChat" => worker[w].pc = "CreateChatContext"
    /\ worker[w].op = "ChatWithStoryRole" => worker[w].on.next <= worker[w].on.count
    /\ worker[w].pc \in {"CreateChatMessage", "ChatWithRole"} =>
          /\ worker[w].op = "ChatWithStoryRole"
          /\ worker[w].got \in ChatsWith(worker[w].user, worker[w].on.role)
    /\ worker[w].pc = "ChatRecieveMessage" =>
          worker[w].got \in ChatsWith(worker[w].user, worker[w].on.role) \cup {0}

\* The requests that ask the model for the words to the message x of the chat c.
Asking(c, x) ==
    {w \in Workers : /\ worker[w].pc = "ChatWithRole" /\ worker[w].got = c
                     /\ worker[w].on.next = x}

Said(s) == {i \in DOMAIN chat_message : chat_message[i].from = s}

InItsChat(m) ==
    /\ m.chat = 0 => m.from = "stream"
    /\ m.chat # 0 => m.chat \in ChatsWith(m.user, m.role)

\* A reply waits, or was stored, only where there is its message.
Answered(c, x) ==
    Cardinality(From("role", c, x)) + Cardinality(Asking(c, x))
        <= Cardinality(From("user", c, x))

EachIsAnswered ==
    Cardinality(Said("user"))
        <= Cardinality(Said("role")) + Cardinality(Waiting) + faults

OneChat ==
    /\ \A u \in Users, r \in ChatRoles : \A c, d \in ChatsWith(u, r) : c = d
    /\ \A w \in Workers : worker[w].pc = "CreateChatContext" =>
          ChatsWith(worker[w].user, worker[w].on.role) = {}

ChatsBase ==
    /\ ChatsTypeOK
    /\ faults \in Nat
    /\ DOMAIN worker = Workers /\ Shaped /\ AloneInv
    /\ IsFiniteSet(Busy)
    /\ \A w \in Workers : ChatLocals(w)
    /\ \A i \in DOMAIN chat_message : InItsChat(chat_message[i])

ChatsInv ==
    /\ ChatsBase
    /\ \A c, x : Answered(c, x)
    /\ EachIsAnswered
    /\ ~ overlapped => OneChat

\* The chats stay where they are.
ContextsStay ==
    /\ DOMAIN chat_context \subseteq DOMAIN chat_context'
    /\ \A c \in DOMAIN chat_context : chat_context'[c] = chat_context[c]

-----------------------------------------------------------------------------
LEMMA ChatsInitHolds == RequestsInit /\ ChatsInit => ChatsInv
<1> SUFFICES ASSUME RequestsInit, ChatsInit
             PROVE  ChatsInv
  OBVIOUS
<1>1. /\ worker = [w \in Workers |-> Idle] /\ faults = 0
      /\ chat_context = <<>> /\ chat_message = <<>>
  BY DEF RequestsInit, ChatsInit
<1>2. /\ DOMAIN chat_context = {} /\ DOMAIN chat_message = {} /\ ChatsTypeOK
  BY <1>1 DEF ChatsTypeOK
<1>3. Busy = {} /\ IsFiniteSet(Busy) /\ AloneInv
  BY <1>1, FS_EmptySet DEF Busy, AloneInv, Alone
<1>4. Shaped /\ DOMAIN worker = Workers /\ \A w \in Workers : ChatLocals(w)
  BY <1>1 DEF Shaped, Idle, ChatLocals
<1>5. ChatsBase
  BY <1>1, <1>2, <1>3, <1>4 DEF ChatsBase
<1>6. ASSUME NEW c, NEW x
      PROVE  Answered(c, x)
  <2>1. From("role", c, x) = {} /\ From("user", c, x) = {} /\ Asking(c, x) = {}
    BY <1>1, <1>2 DEF From, Asking, Idle
  <2> QED
    BY <2>1, FS_EmptySet DEF Answered
<1>7. EachIsAnswered
  <2>1. Said("user") = {} /\ Said("role") = {} /\ Waiting = {}
    BY <1>2, <1>3 DEF Said, Waiting
  <2> QED
    <3>1. /\ Cardinality(Said("user")) = 0 /\ Cardinality(Said("role")) = 0
          /\ Cardinality(Waiting) = 0
      BY <2>1, FS_EmptySet
    <3> QED
      BY <1>1, <3>1 DEF EachIsAnswered
<1>8. OneChat
  BY <1>1, <1>2 DEF OneChat, ChatsWith, Idle
<1> QED
  BY <1>5, <1>6, <1>7, <1>8 DEF ChatsInv

-----------------------------------------------------------------------------
\* A request of a user goes on, in whatever way.
LEMMA AloneStays ==
    ASSUME AloneInv, NEW w \in Workers, OnlyMoves(w), worker[w] # Idle, UNCHANGED overlapped,
           worker'[w] = Idle \/ worker'[w].user = worker[w].user
    PROVE  AloneInv'
<1>1. \A v \in Busy' : v \in Busy /\ worker'[v].user = worker[v].user
  BY DEF Busy, OnlyMoves
<1> QED
  BY <1>1 DEF AloneInv, Alone

LEMMA ChatCallMoves ==
    ASSUME ChatsBase, NEW w \in Workers, worker[w] # Idle, NEW pc, NEW got,
           GoesWith(w, pc, got)
    PROVE  /\ OnlyMoves(w) /\ DOMAIN worker' = Workers /\ AloneInv' /\ Shaped'
           /\ IsFiniteSet(Busy')
           /\ UNCHANGED <<faults, overlapped>>
           /\ pc = "idle" => worker'[w] = Idle
           /\ pc # "idle" =>
                worker'[w] = [pc |-> pc, user |-> worker[w].user, op |-> worker[w].op,
                              on |-> worker[w].on, got |-> got]
<1>1. /\ worker'[w] = After(w, pc, got) /\ OnlyMoves(w) /\ AloneInv'
      /\ DOMAIN worker' = Workers /\ UNCHANGED <<served, faults, overlapped>>
  BY CallMoves DEF ChatsBase
<1>2. IsFiniteSet(Busy')
  BY <1>1, BusyStaysFinite DEF ChatsBase
<1> QED
  BY <1>1, <1>2, CallStaysShaped DEF ChatsBase

LEMMA ChatRequestArrives ==
    ASSUME ChatsBase, NEW w \in Workers, NEW u \in Users, NEW op, NEW x, NEW pc, NEW got,
           Begins(w, u, op, x, pc, got)
    PROVE  /\ OnlyMoves(w) /\ DOMAIN worker' = Workers /\ AloneInv' /\ Shaped'
           /\ IsFiniteSet(Busy') /\ UNCHANGED faults
           /\ ~ overlapped' => ~ overlapped
           /\ worker[w] = Idle
           /\ worker'[w] = [pc |-> pc, user |-> u, op |-> op, on |-> x, got |-> got]
<1>1. Takes(w, u, op, x, pc, got)
  BY DEF Begins
<1>2. /\ worker[w] = Idle /\ OnlyMoves(w) /\ AloneInv' /\ DOMAIN worker' = Workers
      /\ worker'[w] = [pc |-> pc, user |-> u, op |-> op, on |-> x, got |-> got]
      /\ UNCHANGED faults
      /\ ~ overlapped' => ~ overlapped
  BY <1>1, RequestArrives DEF ChatsBase
<1>3. IsFiniteSet(Busy')
  BY <1>2, BusyStaysFinite DEF ChatsBase
<1>4. Shaped'
  BY <1>2, RequestIsShaped DEF ChatsBase
<1> QED
  BY <1>2, <1>3, <1>4

-----------------------------------------------------------------------------
\* What is counted is counted in finite sets.
LEMMA ChatSetsAreFinite ==
    ASSUME ChatsBase, NEW s, NEW c, NEW x
    PROVE  /\ IsFiniteSet(From(s, c, x)) /\ IsFiniteSet(Said(s))
           /\ IsFiniteSet(Asking(c, x)) /\ IsFiniteSet(Waiting)
<1>1. \A w \in Workers : worker[w] = Idle => worker[w].pc = "idle"
  BY DEF Idle
<1>2. Asking(c, x) \subseteq Busy /\ Waiting \subseteq Busy
  BY <1>1 DEF Asking, Waiting, Busy
<1>3. IsFiniteSet(DOMAIN chat_message)
  <2>1. Len(chat_message) \in Nat /\ DOMAIN chat_message = 1..Len(chat_message)
    BY DEF ChatsBase, ChatsTypeOK
  <2> QED
    BY <2>1, FS_Interval
<1>4. From(s, c, x) \subseteq DOMAIN chat_message /\ Said(s) \subseteq DOMAIN chat_message
  BY DEF From, Said
<1> QED
  BY <1>2, <1>3, <1>4, FS_Subset DEF ChatsBase

LEMMA ChatsWithStay ==
    ASSUME ContextsStay, NEW u, NEW r
    PROVE  ChatsWith(u, r) \subseteq ChatsWith(u, r)'
  BY DEF ContextsStay, ChatsWith, IsWith

LEMMA ChatLocalsStay ==
    ASSUME NEW v \in Workers, ChatLocals(v), worker'[v] = worker[v], ContextsStay
    PROVE  ChatLocals(v)'
<1>1. PICK u, r : u = worker[v].user /\ r = worker[v].on.role
  OBVIOUS
<1>2. ChatsWith(u, r) \subseteq ChatsWith(u, r)'
  BY ChatsWithStay
<1>3. ChatsWith(worker[v].user, worker[v].on.role)' = ChatsWith(u, r)'
  BY <1>1
<1> QED
  BY <1>1, <1>2, <1>3 DEF ChatLocals, Talks

\* What is left to show of a step of w that stores no message.
LEMMA NothingSaid ==
    ASSUME ChatsInv, NEW w \in Workers, OnlyMoves(w), DOMAIN worker' = Workers,
           Shaped', AloneInv', IsFiniteSet(Busy'), ChatsTypeOK',
           UNCHANGED <<chat_message, faults>>, ContextsStay, ChatLocals(w)',
           worker[w].pc # "ChatWithRole", worker'[w].pc # "ChatWithRole",
           ~ overlapped' => OneChat'
    PROVE  ChatsInv'
<1>1. ChatsBase
  BY DEF ChatsInv
<1>2. ASSUME NEW v \in Workers
      PROVE  ChatLocals(v)'
  <2>1. CASE v = w
    BY <2>1
  <2>2. CASE v # w
    BY <1>1, <2>2, ChatLocalsStay DEF ChatsBase, OnlyMoves
  <2> QED
    BY <2>1, <2>2
<1>3. ASSUME NEW i \in DOMAIN chat_message'
      PROVE  InItsChat(chat_message[i])'
  <2>1. PICK m : m = chat_message[i]
    OBVIOUS
  <2>2. InItsChat(m) /\ ChatsWith(m.user, m.role) \subseteq ChatsWith(m.user, m.role)'
    BY <1>1, <2>1, ChatsWithStay DEF ChatsBase
  <2>3. InItsChat(m)'
    BY <2>2 DEF InItsChat
  <2> QED
    BY <2>1, <2>3 DEF InItsChat
<1>4. ChatsBase'
  BY <1>1, <1>2, <1>3 DEF ChatsBase
<1>5. ASSUME NEW c, NEW x
      PROVE  Answered(c, x)'
  <2>1. Asking(c, x)' = Asking(c, x)
    BY DEF Asking, OnlyMoves
  <2>2. Answered(c, x)
    BY DEF ChatsInv
  <2> QED
    BY <2>1, <2>2 DEF Answered, From
<1>6. EachIsAnswered'
  <2>1. Waiting' = Waiting
    BY DEF Waiting, Busy, OnlyMoves
  <2> QED
    BY <2>1 DEF ChatsInv, EachIsAnswered, Said
<1> QED
  BY <1>4, <1>5, <1>6 DEF ChatsInv

\* While each waits for its answer, a request that opens no chat.
LEMMA OneChatStays ==
    ASSUME ChatsInv, ~ overlapped, NEW w \in Workers, OnlyMoves(w), UNCHANGED chat_context,
           worker'[w].pc = "CreateChatContext" =>
              ChatsWith(worker'[w].user, worker'[w].on.role) = {}
    PROVE  OneChat'
<1>1. OneChat
  BY DEF ChatsInv
<1>2. \A u, r : ChatsWith(u, r)' = ChatsWith(u, r)
  BY DEF ChatsWith, IsWith
<1>3. ASSUME NEW v \in Workers, worker'[v].pc = "CreateChatContext"
      PROVE  ChatsWith(worker'[v].user, worker'[v].on.role) = {}
  BY <1>1, <1>3 DEF OneChat, OnlyMoves
<1>4. ASSUME NEW v \in Workers, worker'[v].pc = "CreateChatContext"
      PROVE  ChatsWith(worker[v].user, worker[v].on.role)' = {}
  <2>1. PICK u, r : u = worker'[v].user /\ r = worker'[v].on.role
    OBVIOUS
  <2>2. ChatsWith(u, r)' = {}
    BY <1>2, <1>3, <1>4, <2>1
  <2> QED
    BY <2>1, <2>2
<1> QED
  BY <1>1, <1>2, <1>4 DEF OneChat

LEMMA NothingHappens ==
    ASSUME ChatsInv, UNCHANGED <<worker, faults, overlapped, chat_context, chat_message>>
    PROVE  ChatsInv'
<1>1. ChatsBase'
  BY DEF ChatsInv, ChatsBase, ChatsTypeOK, Shaped, AloneInv, Alone, Busy, ChatLocals,
     ChatsWith, IsWith, InItsChat, Talks
<1>2. ASSUME NEW c, NEW x
      PROVE  Answered(c, x)'
  <2>1. /\ \A s : From(s, c, x)' = From(s, c, x)
        /\ Asking(c, x)' = Asking(c, x)
    BY DEF From, Asking
  <2> QED
    BY <2>1 DEF ChatsInv, Answered
<1>3. EachIsAnswered'
  BY DEF ChatsInv, EachIsAnswered, Said, Waiting, Busy
<1>4. ~ overlapped' => OneChat'
  BY DEF ChatsInv, OneChat, ChatsWith, IsWith
<1> QED
  BY <1>1, <1>2, <1>3, <1>4 DEF ChatsInv

\* The look-up finds a chat if there is one.
LEMMA ContextIsFound ==
    ASSUME ChatsBase, NEW u, NEW r
    PROVE  /\ ChatsWith(u, r) = {} => GetChatContextByUserIDAndRoleID(u, r) = 0
           /\ ChatsWith(u, r) # {} =>
                 /\ GetChatContextByUserIDAndRoleID(u, r) \in ChatsWith(u, r)
                 /\ GetChatContextByUserIDAndRoleID(u, r) # 0
<1>1. ChatsWith(u, r) \in SUBSET Nat /\ 0 \notin ChatsWith(u, r)
  <2>1. DOMAIN chat_context = 1..Len(chat_context) /\ Len(chat_context) \in Nat
    BY DEF ChatsBase, ChatsTypeOK
  <2> QED
    BY <2>1 DEF ChatsWith
<1>2. ASSUME ChatsWith(u, r) # {}
      PROVE  GetChatContextByUserIDAndRoleID(u, r) \in ChatsWith(u, r)
  <2>1. \E c \in ChatsWith(u, r) : \A d \in ChatsWith(u, r) : c <= d
    BY <1>1, <1>2, LowestIsIn
  <2> QED
    BY <1>2, <2>1 DEF GetChatContextByUserIDAndRoleID
<1> QED
  BY <1>1, <1>2 DEF GetChatContextByUserIDAndRoleID

LEMMA CreateStoryRoleChatKeeps ==
    ASSUME ChatsInv, NEW w \in Workers, NEW u \in Users, NEW r \in ChatRoles,
           CreateStoryRoleChat(w, u, r)
    PROVE  ChatsInv'
<1>1. ChatsBase /\ UNCHANGED <<chat_context, chat_message>>
  BY DEF ChatsInv, CreateStoryRoleChat, chats
<1>2. CASE ChatsWith(u, r) # {}
  <2>1. UNCHANGED <<worker, faults, overlapped>>
    BY <1>2 DEF CreateStoryRoleChat, Serves
  <2> QED
    BY <1>1, <2>1, NothingHappens
<1>3. CASE ChatsWith(u, r) = {}
  <2>1. Begins(w, u, "CreateStoryRoleChat", Talk(r, 0), "CreateChatContext", 0)
    BY <1>3 DEF CreateStoryRoleChat
  <2>2. /\ OnlyMoves(w) /\ DOMAIN worker' = Workers /\ AloneInv' /\ Shaped'
        /\ IsFiniteSet(Busy') /\ UNCHANGED faults
        /\ ~ overlapped' => ~ overlapped
        /\ worker[w] = Idle
        /\ worker'[w] = [pc |-> "CreateChatContext", user |-> u, op |-> "CreateStoryRoleChat",
                         on |-> Talk(r, 0), got |-> 0]
    BY <1>1, <2>1, ChatRequestArrives
  <2>3. Talk(r, 0) \in Talks /\ Talk(r, 0).role = r
    BY ChatsAssumption DEF Talk, Talks
  <2>4. ChatLocals(w)'
    BY <2>2, <2>3 DEF ChatLocals, Talks
  <2>5. /\ worker[w].pc = "idle" /\ worker'[w].pc = "CreateChatContext"
        /\ worker'[w].user = u /\ worker'[w].on.role = r
    BY <2>2, <2>3 DEF Idle
  <2>6. ~ overlapped' => OneChat'
    BY <1>1, <1>3, <2>2, <2>5, OneChatStays
  <2>7. ContextsStay /\ ChatsTypeOK'
    BY <1>1 DEF ContextsStay, ChatsBase, ChatsTypeOK
  <2> QED
    BY <1>1, <2>2, <2>4, <2>5, <2>6, <2>7, NothingSaid
<1> QED
  BY <1>2, <1>3

LEMMA ChatWithStoryRoleKeeps ==
    ASSUME ChatsInv, NEW w \in Workers, NEW u \in Users, NEW r \in ChatRoles,
           NEW count \in 1..MaxMessages, ChatWithStoryRole(w, u, r, count)
    PROVE  ChatsInv'
<1>1. PICK c : c = GetChatContextByUserIDAndRoleID(u, r)
  OBVIOUS
<1>2. PICK pc : pc = IF c = 0 THEN "CreateChatContext" ELSE "CreateChatMessage"
  OBVIOUS
<1>3. /\ ChatsBase /\ UNCHANGED <<chat_context, chat_message>>
      /\ Begins(w, u, "ChatWithStoryRole", Talk(r, count), pc, c)
  BY <1>1, <1>2 DEF ChatsInv, ChatWithStoryRole, chats
<1>4. /\ OnlyMoves(w) /\ DOMAIN worker' = Workers /\ AloneInv' /\ Shaped'
      /\ IsFiniteSet(Busy') /\ UNCHANGED faults
      /\ ~ overlapped' => ~ overlapped
      /\ worker[w] = Idle
      /\ worker'[w] = [pc |-> pc, user |-> u, op |-> "ChatWithStoryRole",
                       on |-> Talk(r, count), got |-> c]
  BY <1>3, ChatRequestArrives
<1>5. /\ Talk(r, count) \in Talks /\ Talk(r, count).role = r
      /\ Talk(r, count).next <= Talk(r, count).count
  BY ChatsAssumption DEF Talk, Talks
<1>6. /\ c = 0 => ChatsWith(u, r) = {}
      /\ c # 0 => c \in ChatsWith(u, r)
  BY <1>1, <1>3, ContextIsFound
<1>7. ChatsWith(u, r)' = ChatsWith(u, r)
  BY <1>3 DEF ChatsWith, IsWith
<1>8. /\ worker'[w].pc = pc /\ worker'[w].user = u /\ worker'[w].on = Talk(r, count)
      /\ worker'[w].op = "ChatWithStoryRole" /\ worker'[w].got = c
      /\ pc \in {"CreateChatContext", "CreateChatMessage"}
  BY <1>2, <1>4
<1>9. ChatLocals(w)'
  <2>1. ChatsWith(worker[w].user, worker[w].on.role)' = ChatsWith(u, r)
    BY <1>5, <1>7, <1>8
  <2> QED
    BY <1>2, <1>5, <1>6, <1>8, <2>1 DEF ChatLocals, Talks
<1>10. ~ overlapped' => OneChat'
  BY <1>2, <1>3, <1>4, <1>5, <1>6, <1>8, OneChatStays
<1>11. ContextsStay /\ ChatsTypeOK'
  BY <1>3 DEF ContextsStay, ChatsBase, ChatsTypeOK
<1>12. worker[w].pc # "ChatWithRole" /\ worker'[w].pc # "ChatWithRole"
  BY <1>4, <1>8 DEF Idle
<1> QED
  BY <1>3, <1>4, <1>9, <1>10, <1>11, <1>12, NothingSaid

LEMMA StreamChatMessageKeeps ==
    ASSUME ChatsInv, NEW w \in Workers, NEW u \in Users, NEW r \in ChatRoles,
           StreamChatMessage(w, u, r)
    PROVE  ChatsInv'
<1>1. PICK c : c = GetChatContextByUserIDAndRoleID(u, r)
  OBVIOUS
<1>2. /\ ChatsBase /\ UNCHANGED <<chat_context, chat_message>>
      /\ Begins(w, u, "StreamChatMessage", Talk(r, 1), "ChatRecieveMessage", c)
  BY <1>1 DEF ChatsInv, StreamChatMessage, chats
<1>3. /\ OnlyMoves(w) /\ DOMAIN worker' = Workers /\ AloneInv' /\ Shaped'
      /\ IsFiniteSet(Busy') /\ UNCHANGED faults
      /\ ~ overlapped' => ~ overlapped
      /\ worker[w] = Idle
      /\ worker'[w] = [pc |-> "ChatRecieveMessage", user |-> u, op |-> "StreamChatMessage",
                       on |-> Talk(r, 1), got |-> c]
  BY <1>2, ChatRequestArrives
<1>4. Talk(r, 1) \in Talks /\ Talk(r, 1).role = r
  BY ChatsAssumption DEF Talk, Talks
<1>5. c \in ChatsWith(u, r) \cup {0}
  BY <1>1, <1>2, ContextIsFound
<1>6. ChatsWith(u, r)' = ChatsWith(u, r)
  BY <1>2 DEF ChatsWith, IsWith
<1>7. /\ worker'[w].pc = "ChatRecieveMessage" /\ worker'[w].user = u
      /\ worker'[w].on = Talk(r, 1)
      /\ worker'[w].op = "StreamChatMessage" /\ worker'[w].got = c
  BY <1>3
<1>8. ChatLocals(w)'
  <2>1. ChatsWith(worker[w].user, worker[w].on.role)' = ChatsWith(u, r)
    BY <1>4, <1>6, <1>7
  <2> QED
    BY <1>4, <1>5, <1>7, <2>1 DEF ChatLocals, Talks
<1>9. ~ overlapped' => OneChat'
  BY <1>2, <1>3, <1>7, OneChatStays
<1>10. ContextsStay /\ ChatsTypeOK'
  BY <1>2 DEF ContextsStay, ChatsBase, ChatsTypeOK
<1>11. worker[w].pc # "ChatWithRole" /\ worker'[w].pc # "ChatWithRole"
  BY <1>3, <1>7 DEF Idle
<1> QED
  BY <1>2, <1>3, <1>8, <1>9, <1>10, <1>11, NothingSaid

\* The chat that was missing is opened, by one request at a time.
LEMMA CreateChatContextKeeps ==
    ASSUME ChatsInv, NEW w \in Workers, CreateChatContext(w)
    PROVE  ChatsInv'
<1>1. PICK pc : pc = IF worker[w].op = "ChatWithStoryRole" THEN "CreateChatMessage" ELSE "idle"
  OBVIOUS
<1>2. PICK n : n = Len(chat_context) + 1
  OBVIOUS
<1>3. PICK u, r : u = worker[w].user /\ r = worker[w].on.role
  OBVIOUS
<1>4. PICK chat : chat = [user |-> u, role |-> r]
  OBVIOUS
<1>5. /\ ChatsBase /\ worker[w].pc = "CreateChatContext" /\ worker[w] # Idle
      /\ GoesWith(w, pc, n)
      /\ chat_context' = Append(chat_context, chat) /\ chat_message' = chat_message
  BY <1>1, <1>2, <1>3, <1>4 DEF CreateChatContext, ChatsInv, Idle
<1>6. /\ OnlyMoves(w) /\ DOMAIN worker' = Workers /\ AloneInv' /\ Shaped'
      /\ IsFiniteSet(Busy')
      /\ UNCHANGED <<faults, overlapped>>
      /\ pc = "idle" => worker'[w] = Idle
      /\ pc # "idle" =>
           worker'[w] = [pc |-> pc, user |-> worker[w].user, op |-> worker[w].op,
                         on |-> worker[w].on, got |-> n]
  BY <1>5, ChatCallMoves
<1>7. /\ u \in Users /\ worker[w].on \in Talks /\ r \in ChatRoles
      /\ worker[w].op = "ChatWithStoryRole" => worker[w].on.next <= worker[w].on.count
  BY <1>3, <1>5 DEF ChatsBase, ChatLocals, Talks
<1>8. /\ chat_context \in Seq([user : Users, role : ChatRoles])
      /\ Len(chat_context) \in Nat /\ DOMAIN chat_context = 1..Len(chat_context)
  BY <1>5 DEF ChatsBase, ChatsTypeOK
<1>9. /\ chat_context' \in Seq([user : Users, role : ChatRoles])
      /\ Len(chat_context') = n /\ DOMAIN chat_context' = DOMAIN chat_context \cup {n}
      /\ chat_context'[n] = chat /\ n \notin DOMAIN chat_context
      /\ \A c \in DOMAIN chat_context : chat_context'[c] = chat_context[c]
  <2>1. chat \in [user : Users, role : ChatRoles]
    BY <1>4, <1>7
  <2> QED
    BY <1>2, <1>5, <1>8, <2>1
<1>10. ContextsStay
  BY <1>9 DEF ContextsStay
<1>11. \A v, s : ChatsWith(v, s)' = ChatsWith(v, s) \cup (IF v = u /\ s = r THEN {n} ELSE {})
  BY <1>4, <1>9 DEF ChatsWith, IsWith
<1>12. ChatLocals(w)'
  <2>1. CASE pc = "idle"
    BY <1>6, <2>1 DEF ChatLocals, Idle
  <2>2. CASE pc # "idle"
    <3>1. /\ worker'[w].pc = "CreateChatMessage" /\ worker'[w].user = u
          /\ worker'[w].on = worker[w].on /\ worker'[w].got = n
          /\ worker'[w].op = "ChatWithStoryRole"
          /\ worker[w].on.next <= worker[w].on.count
      BY <1>1, <1>3, <1>6, <1>7, <2>2
    <3>2. ChatsWith(worker[w].user, worker[w].on.role)' = ChatsWith(u, r)'
      BY <1>3, <3>1
    <3>3. n \in ChatsWith(u, r)'
      BY <1>11
    <3> QED
      BY <1>7, <3>1, <3>2, <3>3 DEF ChatLocals, Talks
  <2> QED
    BY <2>1, <2>2
<1>13. ChatsTypeOK'
  <2>1. chat_message \in Seq([chat : 0..Len(chat_context), user : Users, role : ChatRoles,
                              uuid : 1..MaxMessages, from : {"user", "role", "stream"}])
    BY <1>5 DEF ChatsBase, ChatsTypeOK
  <2>2. 0..Len(chat_context) \subseteq 0..Len(chat_context')
    BY <1>2, <1>8, <1>9
  <2>3. [chat : 0..Len(chat_context), user : Users, role : ChatRoles,
         uuid : 1..MaxMessages, from : {"user", "role", "stream"}]
        \subseteq [chat : 0..Len(chat_context'), user : Users, role : ChatRoles,
                   uuid : 1..MaxMessages, from : {"user", "role", "stream"}]
    BY <2>2
  <2>4. chat_message \in Seq([chat : 0..Len(chat_context'), user : Users, role : ChatRoles,
                              uuid : 1..MaxMessages, from : {"user", "role", "stream"}])
    BY <2>1, <2>3, SeqMonotonic
  <2> QED
    BY <1>5, <1>9, <2>4 DEF ChatsTypeOK
<1>14. ASSUME ~ overlapped'
       PROVE  OneChat'
  <2>1. OneChat /\ Alone
    BY <1>5, <1>6, <1>14 DEF ChatsInv, ChatsBase, AloneInv
  <2>2. ChatsWith(u, r) = {}
    BY <1>3, <1>5, <2>1 DEF OneChat
  <2>3. ASSUME NEW v \in Users, NEW s \in ChatRoles, NEW c \in ChatsWith(v, s)',
               NEW d \in ChatsWith(v, s)'
        PROVE  c = d
    BY <1>11, <2>1, <2>2 DEF OneChat
  <2>4. ASSUME NEW v \in Workers, worker'[v].pc = "CreateChatContext"
        PROVE  ChatsWith(worker[v].user, worker[v].on.role)' = {}
    <3>1. worker'[w].pc # "CreateChatContext"
      BY <1>1, <1>6 DEF Idle
    <3>2. v # w /\ worker'[v] = worker[v]
      BY <1>6, <2>4, <3>1 DEF OnlyMoves
    <3>3. v \in Busy /\ w \in Busy
      BY <1>5, <2>4, <3>2 DEF Busy, Idle
    <3>4. worker[v].user # u
      BY <1>3, <2>1, <3>2, <3>3 DEF Alone
    <3>5. PICK x, s : x = worker[v].user /\ s = worker[v].on.role
      OBVIOUS
    <3>6. ChatsWith(x, s)' = ChatsWith(x, s) /\ ChatsWith(x, s) = {}
      BY <1>11, <2>1, <2>4, <3>2, <3>4, <3>5 DEF OneChat
    <3> QED
      BY <3>2, <3>5, <3>6
  <2> QED
    BY <2>3, <2>4 DEF OneChat
<1>15. worker[w].pc # "ChatWithRole" /\ worker'[w].pc # "ChatWithRole"
  BY <1>1, <1>5, <1>6 DEF Idle
<1> QED
  BY <1>5, <1>6, <1>10, <1>12, <1>13, <1>14, <1>15, NothingSaid

-----------------------------------------------------------------------------
(* Messages and the replies to them.                                       *)

MessageRows ==
    [chat : 0..Len(chat_context), user : Users, role : ChatRoles,
     uuid : 1..MaxMessages, from : {"user", "role", "stream"}]

\* The message m is stored as the n-th.
Stored(m, n) ==
    /\ \A s, c, x : From(s, c, x)' = From(s, c, x) \cup
          (IF m.from = s /\ m.chat = c /\ m.uuid = x THEN {n} ELSE {})
    /\ \A s : Said(s)' = Said(s) \cup (IF m.from = s THEN {n} ELSE {})
    /\ \A s, c, x : n \notin From(s, c, x) /\ n \notin Said(s)

\* A step of w that stores the message m.
LEMMA MessageKeeps ==
    ASSUME ChatsInv, NEW w \in Workers, OnlyMoves(w), DOMAIN worker' = Workers,
           Shaped', AloneInv', IsFiniteSet(Busy'), UNCHANGED <<chat_context, faults, overlapped>>,
           NEW m \in MessageRows, InItsChat(m), NEW n, n = Len(chat_message) + 1,
           chat_message' = Append(chat_message, m), ChatLocals(w)',
           worker'[w].pc # "CreateChatContext"
    PROVE  /\ ChatsBase'
           /\ ~ overlapped' => OneChat'
           /\ Stored(m, n)
<1>1. ChatsBase
  BY DEF ChatsInv
<1>2. /\ chat_message \in Seq(MessageRows) /\ Len(chat_message) \in Nat
      /\ DOMAIN chat_message = 1..Len(chat_message)
  BY <1>1 DEF ChatsBase, ChatsTypeOK, MessageRows
<1>3. /\ chat_message' \in Seq(MessageRows) /\ n \notin DOMAIN chat_message
      /\ DOMAIN chat_message' = DOMAIN chat_message \cup {n} /\ chat_message'[n] = m
      /\ \A i \in DOMAIN chat_message : chat_message'[i] = chat_message[i]
  BY <1>2
<1>4. ChatsTypeOK'
  BY <1>1, <1>3 DEF ChatsBase, ChatsTypeOK, MessageRows
<1>5. ContextsStay
  BY DEF ContextsStay
<1>6. ASSUME NEW v \in Workers
      PROVE  ChatLocals(v)'
  <2>1. CASE v = w
    BY <2>1
  <2>2. CASE v # w
    BY <1>1, <1>5, <2>2, ChatLocalsStay DEF ChatsBase, OnlyMoves
  <2> QED
    BY <2>1, <2>2
<1>7. ASSUME NEW i \in DOMAIN chat_message'
      PROVE  InItsChat(chat_message[i])'
  <2>1. InItsChat(chat_message'[i])
    BY <1>1, <1>3 DEF ChatsBase
  <2> QED
    BY <2>1 DEF InItsChat, ChatsWith, IsWith
<1>8. ChatsBase'
  BY <1>1, <1>4, <1>6, <1>7 DEF ChatsBase
<1>9. ~ overlapped' => OneChat'
  BY OneChatStays
<1>10. \A s, c, x :
          From(s, c, x)' = From(s, c, x) \cup
             (IF m.from = s /\ m.chat = c /\ m.uuid = x THEN {n} ELSE {})
  BY <1>3 DEF From
<1>11. \A s : Said(s)' = Said(s) \cup (IF m.from = s THEN {n} ELSE {})
  BY <1>3 DEF Said
<1>12. \A s, c, x : n \notin From(s, c, x) /\ n \notin Said(s)
  BY <1>3 DEF From, Said
<1> QED
  BY <1>8, <1>9, <1>10, <1>11, <1>12 DEF Stored

LEMMA AskersElse ==
    ASSUME ChatsBase, NEW w \in Workers, OnlyMoves(w), NEW c, NEW x
    PROVE  /\ IsFiniteSet(Asking(c, x)) /\ IsFiniteSet(Waiting)
           /\ Asking(c, x)' \ {w} = Asking(c, x) \ {w}
           /\ Waiting' \ {w} = Waiting \ {w}
<1>1. Asking(c, x)' \ {w} = Asking(c, x) \ {w}
  BY DEF OnlyMoves, Asking
<1>2. Waiting' \ {w} = Waiting \ {w}
  BY DEF OnlyMoves, Waiting, Busy
<1> QED
  BY <1>1, <1>2, ChatSetsAreFinite

LEMMA StoreMessageKeeps ==
    ASSUME ChatsInv, NEW w \in Workers, StoreMessage(w)
    PROVE  ChatsInv'
<1>1. PICK c, x : c = worker[w].got /\ x = worker[w].on.next
  OBVIOUS
<1>2. PICK m : m = [chat |-> c, user |-> worker[w].user, role |-> worker[w].on.role,
                    uuid |-> x, from |-> "user"]
  OBVIOUS
<1>3. PICK n : n = Len(chat_message) + 1
  OBVIOUS
<1>4. /\ ChatsBase /\ worker[w].pc = "CreateChatMessage" /\ worker[w] # Idle
      /\ GoesWith(w, "ChatWithRole", c)
      /\ chat_message' = Append(chat_message, m) /\ UNCHANGED chat_context
  BY <1>1, <1>2 DEF StoreMessage, CreateChatMessage, ChatsInv, Idle, Goes
<1>5. /\ OnlyMoves(w) /\ DOMAIN worker' = Workers /\ AloneInv' /\ Shaped'
      /\ IsFiniteSet(Busy')
      /\ UNCHANGED <<faults, overlapped>>
      /\ worker'[w] = [pc |-> "ChatWithRole", user |-> worker[w].user, op |-> worker[w].op,
                       on |-> worker[w].on, got |-> c]
  BY <1>4, ChatCallMoves
<1>6. /\ worker[w].user \in Users /\ worker[w].on \in Talks
      /\ worker[w].op = "ChatWithStoryRole" /\ worker[w].on.next <= worker[w].on.count
      /\ c \in ChatsWith(worker[w].user, worker[w].on.role)
  BY <1>1, <1>4 DEF ChatsBase, ChatLocals
<1>7. c \in 1..Len(chat_context) /\ Len(chat_context) \in Nat
  BY <1>4, <1>6 DEF ChatsBase, ChatsTypeOK, ChatsWith
<1>8. m \in MessageRows /\ InItsChat(m)
  <2>1. x \in 1..MaxMessages /\ worker[w].on.role \in ChatRoles
    BY <1>1, <1>6 DEF Talks
  <2>2. m \in MessageRows
    BY <1>2, <1>6, <1>7, <2>1 DEF MessageRows
  <2>3. c # 0
    BY <1>7
  <2> QED
    BY <1>2, <1>6, <2>2, <2>3 DEF InItsChat
<1>9. /\ worker'[w].pc = "ChatWithRole" /\ worker'[w].got = c
      /\ worker'[w].on = worker[w].on /\ worker'[w].user = worker[w].user
      /\ worker'[w].op = "ChatWithStoryRole"
  BY <1>5, <1>6
<1>10. ChatLocals(w)'
  <2>1. ChatsWith(worker[w].user, worker[w].on.role)'
           = ChatsWith(worker[w].user, worker[w].on.role)
    BY <1>4, <1>9 DEF ChatsWith, IsWith
  <2> QED
    BY <1>6, <1>9, <2>1 DEF ChatLocals
<1>11. /\ ChatsBase'
       /\ ~ overlapped' => OneChat'
       /\ Stored(m, n)
  BY <1>3, <1>4, <1>5, <1>8, <1>9, <1>10, MessageKeeps
<1>12. m.from = "user" /\ m.chat = c /\ m.uuid = x
  BY <1>2
<1>13. ASSUME NEW d, NEW y
       PROVE  Answered(d, y)'
  <2>1. /\ IsFiniteSet(From("user", d, y)) /\ IsFiniteSet(From("role", d, y))
        /\ IsFiniteSet(Asking(d, y))
        /\ Asking(d, y)' \ {w} = Asking(d, y) \ {w} /\ w \notin Asking(d, y)
    <3>1. w \notin Asking(d, y)
      BY <1>4 DEF Asking
    <3> QED
      BY <1>4, <1>5, <3>1, ChatSetsAreFinite, AskersElse
  <2>2. From("role", d, y)' = From("role", d, y)
    BY <1>11, <1>12 DEF Stored
  <2>3. PICK a \in Nat, b \in Nat, e \in Nat :
           /\ a = Cardinality(From("role", d, y)) /\ b = Cardinality(From("user", d, y))
           /\ e = Cardinality(Asking(d, y))
    BY <2>1, FS_CardinalityType
  <2>4. a + e <= b
    BY <2>3 DEF ChatsInv, Answered
  <2>5. CASE d = c /\ y = x
    <3>1. From("user", d, y)' = From("user", d, y) \cup {n} /\ n \notin From("user", d, y)
      BY <1>11, <1>12, <2>5 DEF Stored
    <3>2. w \in Asking(d, y)'
      BY <1>1, <1>9, <2>5 DEF Asking
    <3>3. Cardinality(From("user", d, y)') = b + 1 /\ Cardinality(Asking(d, y)') = e + 1
      BY <2>1, <2>3, <3>1, <3>2, FS_AddElement, OneMoves
    <3> QED
      BY <2>2, <2>3, <2>4, <3>3 DEF Answered
  <2>6. CASE ~ (d = c /\ y = x)
    <3>1. From("user", d, y)' = From("user", d, y)
      BY <1>11, <1>12, <2>6 DEF Stored
    <3>2. w \notin Asking(d, y)'
      BY <1>1, <1>9, <2>6 DEF Asking
    <3>3. Asking(d, y)' = Asking(d, y)
      BY <2>1, <3>2
    <3> QED
      BY <2>2, <2>3, <2>4, <3>1, <3>3 DEF Answered
  <2> QED
    BY <2>5, <2>6
<1>14. EachIsAnswered'
  <2>1. /\ IsFiniteSet(Said("user")) /\ IsFiniteSet(Said("role")) /\ IsFiniteSet(Waiting)
        /\ Waiting' \ {w} = Waiting \ {w} /\ w \notin Waiting /\ w \in Waiting'
    <3>1. w \notin Waiting
      BY <1>4 DEF Waiting
    <3>2. w \in Waiting'
      BY <1>9 DEF Waiting, Busy, Idle
    <3> QED
      BY <1>4, <1>5, <3>1, <3>2, ChatSetsAreFinite, AskersElse
  <2>2. /\ Said("user")' = Said("user") \cup {n} /\ n \notin Said("user")
        /\ Said("role")' = Said("role")
    BY <1>11, <1>12 DEF Stored
  <2>3. PICK a \in Nat, b \in Nat, e \in Nat, f \in Nat :
           /\ a = Cardinality(Said("role")) /\ b = Cardinality(Said("user"))
           /\ e = Cardinality(Waiting) /\ f = faults
    BY <1>4, <2>1, FS_CardinalityType DEF ChatsBase
  <2>4. Cardinality(Said("user")') = b + 1 /\ Cardinality(Waiting') = e + 1
    BY <2>1, <2>2, <2>3, FS_AddElement, OneMoves
  <2>5. b <= a + e + f
    BY <2>3 DEF ChatsInv, EachIsAnswered
  <2>6. b + 1 <= a + (e + 1) + f
    BY ONLY a \in Nat, b \in Nat, e \in Nat, f \in Nat, <2>5
  <2> QED
    BY <1>5, <2>2, <2>3, <2>4, <2>6 DEF EachIsAnswered
<1> QED
  BY <1>11, <1>13, <1>14 DEF ChatsInv

\* The request returns, or its next message is stored next.
LEMMA ReplyMoves ==
    ASSUME ChatsBase, NEW w \in Workers, StoreReply(w)
    PROVE  /\ OnlyMoves(w) /\ DOMAIN worker' = Workers /\ AloneInv' /\ Shaped'
           /\ IsFiniteSet(Busy')
           /\ UNCHANGED <<faults, overlapped>>
           /\ worker'[w].pc \in {"idle", "CreateChatMessage"}
           /\ ChatsWith(worker[w].user, worker[w].on.role) \subseteq DOMAIN chat_context
           /\ UNCHANGED chat_context => ChatLocals(w)'
<1> DEFINE on == [worker[w].on EXCEPT !.next = worker[w].on.next + 1]
           l == [pc |-> "CreateChatMessage", user |-> worker[w].user, op |-> worker[w].op,
                 on |-> on, got |-> worker[w].got]
           last == worker[w].on.next = worker[w].on.count
<1>1. /\ worker[w].pc = "ChatWithRole" /\ UNCHANGED <<faults, overlapped>>
      /\ worker' = [worker EXCEPT ![w] =
                       IF last THEN Idle
                       ELSE [worker[w] EXCEPT !.pc = "CreateChatMessage", !.on = on]]
  BY DEF StoreReply
<1>2. /\ worker[w] = [pc |-> worker[w].pc, user |-> worker[w].user, op |-> worker[w].op,
                      on |-> worker[w].on, got |-> worker[w].got]
      /\ worker[w] # Idle /\ DOMAIN worker = Workers
  BY <1>1 DEF ChatsBase, Shaped, Idle
<1>3. [worker[w] EXCEPT !.pc = "CreateChatMessage", !.on = on] = l
  <2>1. PICK r : r = [pc |-> "CreateChatMessage", user |-> worker[w].user,
                      op |-> worker[w].op, on |-> worker[w].on, got |-> worker[w].got]
    OBVIOUS
  <2>2. [worker[w] EXCEPT !.pc = "CreateChatMessage"] = r
    BY <1>2, <2>1
  <2>3. [r EXCEPT !.on = on] = l
    <3> HIDE DEF on
    <3> QED
      BY <2>1
  <2> HIDE DEF on, l
  <2> QED
    BY <2>2, <2>3
<1>4. worker'[w] = IF last THEN Idle ELSE l
  <2> HIDE DEF on, l, last
  <2> QED
    BY <1>1, <1>2, <1>3
<1>5. OnlyMoves(w) /\ DOMAIN worker' = Workers
  BY <1>1, <1>2 DEF OnlyMoves
<1>6. /\ worker[w].user \in Users /\ worker[w].on \in Talks
      /\ worker[w].op = "ChatWithStoryRole" /\ worker[w].on.next <= worker[w].on.count
      /\ worker[w].got \in ChatsWith(worker[w].user, worker[w].on.role)
  BY <1>1, <1>2 DEF ChatsBase, ChatLocals
<1>7. ~ last => on \in Talks /\ on.role = worker[w].on.role /\ on.next <= on.count
  <2>1. MaxMessages \in Nat
    BY ChatsAssumption
  <2> QED
    BY <1>6, <2>1 DEF Talks
<1>8. l.user = worker[w].user /\ l.pc = "CreateChatMessage"
  OBVIOUS
<1>9. AloneInv'
  BY <1>1, <1>2, <1>4, <1>5, <1>8, AloneStays DEF ChatsBase
<1>10. IsFiniteSet(Busy')
  BY <1>5, BusyStaysFinite DEF ChatsBase
<1>11. Shaped'
  <2>1. CASE last
    <3>1. worker'[w] = [pc |-> "idle", user |-> None, op |-> "none", on |-> None, got |-> None]
      BY <1>4, <2>1 DEF Idle
    <3> QED
      BY <1>5, <3>1, RequestIsShaped DEF ChatsBase
  <2>2. CASE ~ last
    <3>1. worker'[w] = [pc |-> "CreateChatMessage", user |-> worker[w].user,
                        op |-> worker[w].op, on |-> on, got |-> worker[w].got]
      BY <1>4, <2>2
    <3> HIDE DEF on
    <3> QED
      BY <1>5, <3>1, RequestIsShaped DEF ChatsBase
  <2> QED
    BY <2>1, <2>2
<1>12. worker'[w].pc \in {"idle", "CreateChatMessage"}
  BY <1>4 DEF Idle
<1>13. ASSUME UNCHANGED chat_context
       PROVE  ChatLocals(w)'
  <2>1. CASE last
    BY <1>4, <2>1 DEF ChatLocals, Idle
  <2>2. CASE ~ last
    <3>1. /\ worker'[w].pc = "CreateChatMessage" /\ worker'[w].user = worker[w].user
          /\ worker'[w].on = on /\ worker'[w].op = "ChatWithStoryRole"
          /\ worker'[w].got = worker[w].got
      BY <1>4, <1>6, <2>2
    <3>2. ChatsWith(worker[w].user, worker[w].on.role)'
             = ChatsWith(worker[w].user, worker[w].on.role)
      BY <1>7, <1>13, <2>2, <3>1 DEF ChatsWith, IsWith
    <3> HIDE DEF on
    <3> QED
      BY <1>6, <1>7, <2>2, <3>1, <3>2 DEF ChatLocals
  <2> QED
    BY <2>1, <2>2
<1>14. ChatsWith(worker[w].user, worker[w].on.role) \subseteq DOMAIN chat_context
  BY DEF ChatsWith
<1> QED
  BY <1>1, <1>5, <1>9, <1>10, <1>11, <1>12, <1>13, <1>14

LEMMA StoreReplyKeeps ==
    ASSUME ChatsInv, NEW w \in Workers, StoreReply(w)
    PROVE  ChatsInv'
<1>1. PICK c, x : c = worker[w].got /\ x = worker[w].on.next
  OBVIOUS
<1>2. PICK m : m = [chat |-> c, user |-> worker[w].user, role |-> worker[w].on.role,
                    uuid |-> x, from |-> "role"]
  OBVIOUS
<1>3. PICK n : n = Len(chat_message) + 1
  OBVIOUS
<1>4. /\ ChatsBase /\ worker[w].pc = "ChatWithRole" /\ worker[w] # Idle
      /\ chat_message' = Append(chat_message, m) /\ UNCHANGED chat_context
  BY <1>1, <1>2 DEF StoreReply, CreateChatMessage, ChatsInv, Idle
<1>5. /\ OnlyMoves(w) /\ DOMAIN worker' = Workers /\ AloneInv' /\ Shaped'
      /\ IsFiniteSet(Busy')
      /\ UNCHANGED <<faults, overlapped>>
      /\ worker'[w].pc \in {"idle", "CreateChatMessage"}
      /\ ChatLocals(w)'
  BY <1>4, ReplyMoves
<1>6. /\ worker[w].user \in Users /\ worker[w].on \in Talks
      /\ c \in ChatsWith(worker[w].user, worker[w].on.role)
  BY <1>1, <1>4 DEF ChatsBase, ChatLocals
<1>7. c \in 1..Len(chat_context) /\ Len(chat_context) \in Nat
  BY <1>4, <1>6 DEF ChatsBase, ChatsTypeOK, ChatsWith
<1>8. m \in MessageRows /\ InItsChat(m)
  <2>1. x \in 1..MaxMessages /\ worker[w].on.role \in ChatRoles
    BY <1>1, <1>6 DEF Talks
  <2>2. m \in MessageRows
    BY <1>2, <1>6, <1>7, <2>1 DEF MessageRows
  <2>3. c # 0
    BY <1>7
  <2> QED
    BY <1>2, <1>6, <2>2, <2>3 DEF InItsChat
<1>9. ChatsBase' /\ (~ overlapped' => OneChat') /\ Stored(m, n)
  BY <1>3, <1>4, <1>5, <1>8, MessageKeeps
<1>10. m.from = "role" /\ m.chat = c /\ m.uuid = x
  BY <1>2
<1>11. ASSUME NEW d, NEW y
       PROVE  Answered(d, y)'
  <2>1. /\ IsFiniteSet(From("user", d, y)) /\ IsFiniteSet(From("role", d, y))
        /\ IsFiniteSet(Asking(d, y))
        /\ Asking(d, y)' \ {w} = Asking(d, y) \ {w} /\ w \notin Asking(d, y)'
    <3>1. w \notin Asking(d, y)'
      BY <1>5 DEF Asking
    <3> QED
      BY <1>4, <1>5, <3>1, ChatSetsAreFinite, AskersElse
  <2>2. From("user", d, y)' = From("user", d, y)
    BY <1>9, <1>10 DEF Stored
  <2>3. PICK a \in Nat, b \in Nat, e \in Nat :
           /\ a = Cardinality(From("role", d, y)) /\ b = Cardinality(From("user", d, y))
           /\ e = Cardinality(Asking(d, y))
    BY <2>1, FS_CardinalityType
  <2>4. a + e <= b
    BY <2>3 DEF ChatsInv, Answered
  <2>5. CASE d = c /\ y = x
    <3>1. From("role", d, y)' = From("role", d, y) \cup {n} /\ n \notin From("role", d, y)
      BY <1>9, <1>10, <2>5 DEF Stored
    <3>2. w \in Asking(d, y)
      BY <1>1, <1>4, <2>5 DEF Asking
    <3>3. Cardinality(From("role", d, y)') = a + 1 /\ Cardinality(Asking(d, y)') = e - 1
      BY <2>1, <2>3, <3>1, <3>2, FS_AddElement, OneMoves
    <3> QED
      BY <2>2, <2>3, <2>4, <3>3 DEF Answered
  <2>6. CASE ~ (d = c /\ y = x)
    <3>1. From("role", d, y)' = From("role", d, y)
      BY <1>9, <1>10, <2>6 DEF Stored
    <3>2. w \notin Asking(d, y)
      BY <1>1, <1>4, <2>6 DEF Asking
    <3>3. Asking(d, y)' = Asking(d, y)
      BY <2>1, <3>2
    <3> QED
      BY <2>2, <2>3, <2>4, <3>1, <3>3 DEF Answered
  <2> QED
    BY <2>5, <2>6
<1>12. EachIsAnswered'
  <2>1. /\ IsFiniteSet(Said("user")) /\ IsFiniteSet(Said("role")) /\ IsFiniteSet(Waiting)
        /\ Waiting' \ {w} = Waiting \ {w} /\ w \in Waiting /\ w \notin Waiting'
    <3>1. w \notin Waiting'
      BY <1>5 DEF Waiting
    <3>2. w \in Waiting
      BY <1>4 DEF Waiting, Busy
    <3> QED
      BY <1>4, <1>5, <3>1, <3>2, ChatSetsAreFinite, AskersElse
  <2>2. /\ Said("role")' = Said("role") \cup {n} /\ n \notin Said("role")
        /\ Said("user")' = Said("user")
    BY <1>9, <1>10 DEF Stored
  <2>3. PICK a \in Nat, b \in Nat, e \in Nat, f \in Nat :
           /\ a = Cardinality(Said("role")) /\ b = Cardinality(Said("user"))
           /\ e = Cardinality(Waiting) /\ f = faults
    BY <1>4, <2>1, FS_CardinalityType DEF ChatsBase
  <2>4. Cardinality(Said("role")') = a + 1 /\ Cardinality(Waiting') = e - 1
    BY <2>1, <2>2, <2>3, FS_AddElement, OneMoves
  <2>5. b <= a + e + f
    BY <2>3 DEF ChatsInv, EachIsAnswered
  <2>6. b <= (a + 1) + (e - 1) + f
    BY ONLY a \in Nat, b \in Nat, e \in Nat, f \in Nat, <2>5
  <2> QED
    BY <1>5, <2>2, <2>3, <2>4, <2>6 DEF EachIsAnswered
<1> QED
  BY <1>9, <1>11, <1>12 DEF ChatsInv

\* What is streamed counts neither as a message nor as a reply.
LEMMA ChatRecieveMessageKeeps ==
    ASSUME ChatsInv, NEW w \in Workers, ChatRecieveMessage(w)
    PROVE  ChatsInv'
<1>1. PICK c, x : c = worker[w].got /\ x = worker[w].on.next
  OBVIOUS
<1>2. PICK m : m = [chat |-> c, user |-> worker[w].user, role |-> worker[w].on.role,
                    uuid |-> x, from |-> "stream"]
  OBVIOUS
<1>3. PICK n : n = Len(chat_message) + 1
  OBVIOUS
<1>4. /\ ChatsBase /\ worker[w].pc = "ChatRecieveMessage" /\ worker[w] # Idle
      /\ GoesWith(w, "idle", c)
      /\ chat_message' = Append(chat_message, m) /\ UNCHANGED chat_context
  BY <1>1, <1>2 DEF ChatRecieveMessage, CreateChatMessage, ChatsInv, Idle, Ends, Goes
<1>5. /\ OnlyMoves(w) /\ DOMAIN worker' = Workers /\ AloneInv' /\ Shaped'
      /\ IsFiniteSet(Busy')
      /\ UNCHANGED <<faults, overlapped>>
      /\ worker'[w] = Idle
  BY <1>4, ChatCallMoves
<1>6. /\ worker[w].user \in Users /\ worker[w].on \in Talks
      /\ c \in ChatsWith(worker[w].user, worker[w].on.role) \cup {0}
  BY <1>1, <1>4 DEF ChatsBase, ChatLocals
<1>7. c \in 0..Len(chat_context) /\ Len(chat_context) \in Nat
  BY <1>4, <1>6 DEF ChatsBase, ChatsTypeOK, ChatsWith
<1>8. m \in MessageRows /\ InItsChat(m)
  <2>1. x \in 1..MaxMessages /\ worker[w].on.role \in ChatRoles
    BY <1>1, <1>6 DEF Talks
  <2>2. m \in MessageRows
    BY <1>2, <1>6, <1>7, <2>1 DEF MessageRows
  <2> QED
    BY <1>2, <1>6, <2>2 DEF InItsChat
<1>9. ChatLocals(w)' /\ worker'[w].pc = "idle"
  BY <1>5 DEF ChatLocals, Idle
<1>10. ChatsBase' /\ (~ overlapped' => OneChat') /\ Stored(m, n)
  BY <1>3, <1>4, <1>5, <1>8, <1>9, MessageKeeps
<1>11. m.from = "stream"
  BY <1>2
<1>12. ASSUME NEW d, NEW y
       PROVE  Answered(d, y)'
  <2>1. /\ From("user", d, y)' = From("user", d, y) /\ From("role", d, y)' = From("role", d, y)
    BY <1>10, <1>11 DEF Stored
  <2>2. Asking(d, y)' = Asking(d, y)
    BY <1>4, <1>5, <1>9 DEF Asking, OnlyMoves
  <2> QED
    BY <2>1, <2>2 DEF ChatsInv, Answered
<1>13. EachIsAnswered'
  <2>1. Said("user")' = Said("user") /\ Said("role")' = Said("role")
    BY <1>10, <1>11 DEF Stored
  <2>2. Waiting' = Waiting
    BY <1>4, <1>5, <1>9 DEF Waiting, Busy, OnlyMoves
  <2> QED
    BY <1>5, <2>1, <2>2 DEF ChatsInv, EachIsAnswered
<1> QED
  BY <1>10, <1>12, <1>13 DEF ChatsInv

\* A message may be left without its reply by a call that fails.
LEMMA ChatsCutOffKeeps ==
    ASSUME ChatsInv, NEW w \in Workers, CutOff(w), UNCHANGED chats
    PROVE  ChatsInv'
<1>1. /\ ChatsBase /\ worker[w] # Idle /\ Logs(w, "idle")
      /\ UNCHANGED <<chat_context, chat_message>>
  BY DEF CutOff, Busy, ChatsInv, chats
<1>2. /\ OnlyMoves(w) /\ AloneInv' /\ DOMAIN worker' = Workers /\ UNCHANGED overlapped
      /\ worker'[w] = After(w, "idle", worker[w].got)
  BY <1>1, FailureMoves DEF ChatsBase
<1>3. Shaped' /\ worker'[w] = Idle /\ IsFiniteSet(Busy')
  BY <1>1, <1>2, CallStaysShaped, BusyStaysFinite DEF ChatsBase
<1>4. faults' = faults + 1 /\ faults \in Nat
  BY <1>1 DEF Logs, ChatsBase
<1>5. worker'[w].pc = "idle" /\ ChatLocals(w)'
  BY <1>3 DEF ChatLocals, Idle
<1>6. ChatsBase'
  <2>1. ContextsStay
    BY <1>1 DEF ContextsStay
  <2>2. ASSUME NEW v \in Workers
        PROVE  ChatLocals(v)'
    <3>1. CASE v = w
      BY <1>5, <3>1
    <3>2. CASE v # w
      BY <1>1, <1>2, <2>1, <3>2, ChatLocalsStay DEF ChatsBase, OnlyMoves
    <3> QED
      BY <3>1, <3>2
  <2>3. ASSUME NEW i \in DOMAIN chat_message'
        PROVE  InItsChat(chat_message[i])'
    BY <1>1 DEF ChatsBase, InItsChat, ChatsWith, IsWith
  <2>4. ChatsTypeOK'
    BY <1>1 DEF ChatsBase, ChatsTypeOK
  <2> QED
    BY <1>2, <1>3, <1>4, <2>2, <2>3, <2>4 DEF ChatsBase
<1>7. ASSUME NEW d, NEW y
      PROVE  Answered(d, y)'
  <2>1. /\ IsFiniteSet(Asking(d, y)) /\ Asking(d, y)' \ {w} = Asking(d, y) \ {w}
        /\ IsFiniteSet(From("user", d, y)) /\ IsFiniteSet(From("role", d, y))
    BY <1>1, <1>2, ChatSetsAreFinite, AskersElse
  <2>2. Asking(d, y)' \subseteq Asking(d, y)
    BY <1>5, <2>1 DEF Asking
  <2>3. PICK a \in Nat, b \in Nat, e \in Nat, f \in Nat :
           /\ a = Cardinality(From("role", d, y)) /\ b = Cardinality(From("user", d, y))
           /\ e = Cardinality(Asking(d, y)) /\ f = Cardinality(Asking(d, y)') /\ f <= e
    BY <2>1, <2>2, FS_CardinalityType, FS_Subset
  <2>4. From("role", d, y)' = From("role", d, y) /\ From("user", d, y)' = From("user", d, y)
    BY <1>1 DEF From
  <2>5. a + e <= b
    BY <2>3 DEF ChatsInv, Answered
  <2> QED
    BY <2>3, <2>4, <2>5 DEF Answered
<1>8. EachIsAnswered'
  <2>1. /\ IsFiniteSet(Waiting) /\ Waiting' \ {w} = Waiting \ {w} /\ w \notin Waiting'
        /\ IsFiniteSet(Said("user")) /\ IsFiniteSet(Said("role"))
    <3>1. w \notin Waiting'
      BY <1>5 DEF Waiting
    <3> QED
      BY <1>1, <1>2, <3>1, ChatSetsAreFinite, AskersElse
  <2>2. PICK a \in Nat, b \in Nat, e \in Nat, f \in Nat :
           /\ a = Cardinality(Said("role")) /\ b = Cardinality(Said("user"))
           /\ e = Cardinality(Waiting) /\ f = faults
    BY <1>4, <2>1, FS_CardinalityType
  <2>3. PICK g \in Nat : g = Cardinality(Waiting') /\ e <= g + 1
    <3>1. CASE w \in Waiting
      <4>1. Cardinality(Waiting') = e - 1 /\ Cardinality(Waiting') \in Nat
        BY <2>1, <2>2, <3>1, OneMoves
      <4> QED
        BY <2>2, <4>1
    <3>2. CASE w \notin Waiting
      <4>1. Waiting' = Waiting
        BY <2>1, <3>2
      <4> QED
        BY <2>2, <4>1
    <3> QED
      BY <3>1, <3>2
  <2>4. Said("user")' = Said("user") /\ Said("role")' = Said("role")
    BY <1>1 DEF Said
  <2>5. b <= a + e + f
    BY <2>2 DEF ChatsInv, EachIsAnswered
  <2>6. b <= a + g + (f + 1)
    BY ONLY a \in Nat, b \in Nat, e \in Nat, f \in Nat, g \in Nat, <2>5, <2>3
  <2> QED
    BY <1>4, <2>2, <2>3, <2>4, <2>6 DEF EachIsAnswered
<1>9. ~ overlapped' => OneChat'
  BY <1>1, <1>2, <1>5, OneChatStays
<1> QED
  BY <1>6, <1>7, <1>8, <1>9 DEF ChatsInv

-----------------------------------------------------------------------------
LEMMA ChatsNextKeeps == ChatsInv /\ [ChatsNext]_chatsSpecVars => ChatsInv'
<1> SUFFICES ASSUME ChatsInv, [ChatsNext]_chatsSpecVars
             PROVE  ChatsInv'
  OBVIOUS
<1>1. ASSUME NEW w \in Workers, ChatsStep(w)
      PROVE  ChatsInv'
  BY <1>1, CreateChatContextKeeps, StoreMessageKeeps, StoreReplyKeeps,
     ChatRecieveMessageKeeps, ChatsCutOffKeeps DEF ChatsStep
<1>2. CASE ChatsNext
  BY <1>1, <1>2, CreateStoryRoleChatKeeps, ChatWithStoryRoleKeeps, StreamChatMessageKeeps
     DEF ChatsNext
<1>3. CASE UNCHANGED chatsSpecVars
  BY <1>3, NothingHappens DEF chatsSpecVars, requestVars, chats
<1> QED
  BY <1>2, <1>3

\* What is known of chats, their messages and the requests about them in every
\* state.
THEOREM ChatsInvariance == ChatsSpec => []ChatsInv
<1>1. RequestsInit /\ ChatsInit => ChatsInv
  BY ChatsInitHolds
<1>2. ChatsInv /\ [ChatsNext]_chatsSpecVars => ChatsInv'
  BY ChatsNextKeeps
<1> QED
  BY <1>1, <1>2, PTL DEF ChatsSpec, chatsSpecVars

\* The rows of chats and messages are rows of their types.
THEOREM ChatsAreTyped == ChatsSpec => []ChatsTypeOK
<1>1. ChatsInv => ChatsTypeOK
  BY DEF ChatsInv, ChatsBase
<1> QED
  BY <1>1, ChatsInvariance, PTL

\* The last message of a chat is the last that is shown.
LEMMA LastIsShown ==
    ASSUME ChatsBase, NEW u \in Users, NEW r \in ChatRoles,
           \A c, d \in ChatsWith(u, r) : c = d, NEW i \in SentBy(u, r)
    PROVE  i <= GetUserChatWithRole(u, r)
<1>1. /\ i \in DOMAIN chat_message /\ chat_message[i].user = u /\ chat_message[i].role = r
      /\ chat_message[i].chat # 0
  BY DEF SentBy
<1>2. PICK c : c = chat_message[i].chat
  OBVIOUS
<1>3. c \in ChatsWith(u, r)
  BY <1>1, <1>2 DEF ChatsBase, InItsChat
<1>4. GetChatContextByUserIDAndRoleID(u, r) = c /\ c # 0
  BY <1>3, ContextIsFound
<1>5. i \in IdsOf(c)
  BY <1>1, <1>2 DEF IdsOf
<1>6. PICK n \in Nat : n = Len(chat_message) /\ DOMAIN chat_message = 1..n
  BY DEF ChatsBase, ChatsTypeOK
<1>7. PICK last \in IdsOf(c) : \A j \in IdsOf(c) : j <= last
  <2>1. PICK back : back = {n - j : j \in IdsOf(c)}
    OBVIOUS
  <2>2. \A j \in IdsOf(c) : j \in 1..n
    BY <1>6 DEF IdsOf
  <2>3. back \in SUBSET Nat /\ back # {}
    BY <1>5, <2>1, <2>2
  <2>4. PICK b \in back : \A other \in back : b <= other
    BY <2>3, LowestIsIn
  <2>5. PICK last \in IdsOf(c) : b = n - last
    BY <2>1, <2>4
  <2>6. ASSUME NEW j \in IdsOf(c)
        PROVE  j <= last
    <3>1. n - last <= n - j
      BY <2>1, <2>4, <2>5
    <3>2. j \in 1..n /\ last \in 1..n
      BY <2>2
    <3> QED
      BY <3>1, <3>2
  <2> QED
    BY <2>6
<1>8. \A j \in IdsOf(c) : j <= GetChatContextLastMessage(c)
  BY <1>5, <1>7 DEF GetChatContextLastMessage
<1> QED
  BY <1>4, <1>5, <1>8 DEF GetUserChatWithRole

\* A reply is stored after its message and in its chat; a message without one
\* waits for it or lost it to a failure; a user that waits for each answer has
\* one chat with each role, and sees its last message.
THEOREM RepliesFollowMessages == ChatsSpec => []RepliesStayInTheirChat
<1>1. ChatsInv => RepliesStayInTheirChat
  <2> SUFFICES ASSUME ChatsInv
               PROVE  RepliesStayInTheirChat
    OBVIOUS
  <2>1. ChatsBase
    BY DEF ChatsInv
  <2>2. \A i \in DOMAIN chat_message : InItsChat(chat_message[i])
    BY <2>1 DEF ChatsBase
  <2>3. ASSUME NEW c \in DOMAIN chat_context, NEW x \in 1..MaxMessages
        PROVE  Cardinality(From("role", c, x)) <= Cardinality(From("user", c, x))
    <3>1. /\ Cardinality(From("role", c, x)) \in Nat /\ Cardinality(From("user", c, x)) \in Nat
          /\ Cardinality(Asking(c, x)) \in Nat
      BY <2>1, ChatSetsAreFinite, FS_CardinalityType
    <3>2. Answered(c, x)
      BY DEF ChatsInv
    <3> QED
      BY <3>1, <3>2 DEF Answered
  <2>4. Cardinality({i \in DOMAIN chat_message : chat_message[i].from = "user"})
          <= Cardinality({i \in DOMAIN chat_message : chat_message[i].from = "role"})
             + Cardinality(Waiting) + faults
    BY DEF ChatsInv, EachIsAnswered, Said
  <2>5. ASSUME ~ overlapped, NEW u \in Users, NEW r \in ChatRoles
        PROVE  /\ Cardinality(ChatsWith(u, r)) <= 1
               /\ \A i \in SentBy(u, r) : i <= GetUserChatWithRole(u, r)
    <3>1. \A c, d \in ChatsWith(u, r) : c = d
      BY <2>5 DEF ChatsInv, OneChat
    <3>2. Cardinality(ChatsWith(u, r)) <= 1
      <4>1. CASE ChatsWith(u, r) = {}
        BY <4>1, FS_EmptySet
      <4>2. CASE ChatsWith(u, r) # {}
        <5>1. PICK c : ChatsWith(u, r) = {c}
          BY <3>1, <4>2
        <5>2. Cardinality({c}) = 1
          BY FS_Singleton
        <5> QED
          BY <5>1, <5>2
      <4> QED
        BY <4>1, <4>2
    <3> QED
      BY <2>1, <3>1, <3>2, LastIsShown
  <2> QED
    BY <2>2, <2>3, <2>4, <2>5 DEF RepliesStayInTheirChat, InItsChat
<1> QED
  BY <1>1, ChatsInvariance, PTL

-----------------------------------------------------------------------------
(* Accounts: ids of users and of auth rows.                                *)

accountsSpecVars == <<requestVars, accounts>>

Registrable == Emails \cup Phones

Registering ==
    [pc : {"InsertUser", "InsertAuth", "InsertProfile"}, user : {None},
     op : {"Register"}, on : Registrable, got : Nat \cup {None}]

\* The row that a registration has inserted is that of its account.
HasUser(w) ==
    worker[w].pc \in {"InsertAuth", "InsertProfile"} =>
        worker[w].got \in DOMAIN users /\ users[worker[w].got] = worker[w].on

SameKind(a, b) == {a, b} \subseteq Emails \/ {a, b} \subseteq Phones

AuthInv ==
    /\ \A row \in auth : users[row.uid] = row.account /\ row.account \in Registrable
    /\ \A row, other \in auth : SameKind(row.account, other.account) => row = other

\* A single registration at a time takes an id from each counter.
CountsAlike ==
    /\ \A v, w \in Busy : v = w
    /\ Busy = {} => lastAuth = Len(users)
    /\ \A w \in Busy :
          IF worker[w].pc = "InsertAuth"
          THEN lastAuth + 1 = Len(users) /\ worker[w].got = Len(users)
          ELSE lastAuth = Len(users)
    /\ \A row \in auth : row.id = row.uid

\* What a token says is what the auth row of its account said.
TokensInv ==
    \A t \in tokens : \E row \in auth : row.id = t.user /\ row.account = t.account

AccountsInv ==
    /\ AccountsTypeOK
    /\ faults \in Nat
    /\ worker \in [Workers -> Registering \cup {Idle}]
    /\ \A w \in Workers : HasUser(w)
    /\ AuthInv
    /\ TokensInv
    /\ Undisturbed => CountsAlike

-----------------------------------------------------------------------------
LEMMA AccountsInitHolds == RequestsInit /\ AccountsInit => AccountsInv
<1> SUFFICES ASSUME RequestsInit, AccountsInit
             PROVE  AccountsInv
  OBVIOUS
<1>1. AccountsTypeOK /\ AuthInv /\ TokensInv
  BY DEF AccountsInit, AccountsTypeOK, AuthInv, TokensInv
<1>2. worker \in [Workers -> Registering \cup {Idle}] /\ Busy = {}
  BY DEF RequestsInit, Busy
<1>3. \A w \in Workers : HasUser(w)
  BY DEF RequestsInit, HasUser, Idle
<1>4. CountsAlike
  BY <1>2 DEF CountsAlike, AccountsInit
<1> QED
  BY <1>1, <1>2, <1>3, <1>4 DEF AccountsInv, RequestsInit

\* A step of w keeps what the other registrations know of the users.
LEMMA HasUserStays ==
    ASSUME AccountsInv, NEW w \in Workers, worker'[w] = worker[w],
           DOMAIN users \subseteq DOMAIN users',
           \A i \in DOMAIN users : users'[i] = users[i]
    PROVE  HasUser(w)'
BY DEF AccountsInv, HasUser

LEMMA RegisterKeeps ==
    ASSUME AccountsInv, NEW w \in Workers, NEW a \in Registrable, Register(w, a)
    PROVE  AccountsInv'
<1> DEFINE l == [pc |-> "InsertUser", user |-> None, op |-> "Register", on |-> a,
                 got |-> None]
<1>1. /\ worker[w] = Idle /\ worker' = [worker EXCEPT ![w] = l]
      /\ overlapped' = (overlapped \/ \E other \in Busy : worker[other].user = None)
      /\ faults' = faults /\ UNCHANGED accounts
  BY DEF Register, Begins, Takes
<1>2. l \in Registering
  BY DEF Registering
<1>3. worker' \in [Workers -> Registering \cup {Idle}]
  BY <1>1, <1>2 DEF AccountsInv
<1>4. AccountsTypeOK' /\ AuthInv' /\ TokensInv'
  BY <1>1 DEF AccountsInv, AccountsTypeOK, AuthInv, TokensInv, accounts
<1>5. worker'[w] = l /\ \A v \in Workers \ {w} : worker'[v] = worker[v]
  BY <1>1 DEF AccountsInv
<1>6. \A v \in Workers : HasUser(v)'
  BY <1>1, <1>5, HasUserStays DEF HasUser, accounts
<1>7. ASSUME Undisturbed'
      PROVE  CountsAlike'
  <2>1. \A v \in Busy : worker[v].user = None
    BY DEF AccountsInv, Busy, Registering
  <2>2. Busy = {} /\ Undisturbed
    BY <1>1, <1>7, <2>1 DEF Undisturbed
  <2>3. Busy' = {w}
    BY <1>5, <2>2 DEF Busy, Idle
  <2>4. lastAuth = Len(users) /\ \A row \in auth : row.id = row.uid
    BY <2>2 DEF AccountsInv, CountsAlike
  <2> QED
    BY <1>1, <1>5, <2>3, <2>4 DEF CountsAlike, accounts
<1> QED
  BY <1>1, <1>3, <1>4, <1>6, <1>7 DEF AccountsInv

\* A step of a registration: its locals are l, or it ends.
LEMMA StepOf ==
    ASSUME AccountsInv, NEW w \in Workers, worker[w] # Idle,
           NEW l \in Registering \cup {Idle}, worker' = [worker EXCEPT ![w] = l]
    PROVE  /\ worker' \in [Workers -> Registering \cup {Idle}]
           /\ worker'[w] = l
           /\ \A v \in Workers \ {w} : worker'[v] = worker[v]
           /\ w \in Busy
           /\ Busy' = IF l = Idle THEN Busy \ {w} ELSE Busy
BY DEF AccountsInv, Busy

LEMMA InsertUserKeeps ==
    ASSUME AccountsInv, NEW w \in Workers, InsertUser(w)
    PROVE  AccountsInv'
<1> DEFINE l == [worker[w] EXCEPT !.pc = "InsertAuth", !.got = Len(users) + 1]
<1>1. /\ worker[w].pc = "InsertUser" /\ users' = Append(users, worker[w].on)
      /\ UNCHANGED <<auth, lastAuth, profiles, expired, tokens>>
      /\ UNCHANGED <<faults, overlapped>>
      /\ worker' = [worker EXCEPT ![w] = l]
  BY DEF InsertUser, GoesWith, After
<1>2. worker[w] \in Registering /\ worker[w] # Idle
  BY <1>1 DEF AccountsInv, Idle
<1>3. users \in Seq(Registrable) /\ worker[w].on \in Registrable
  BY <1>2 DEF AccountsInv, AccountsTypeOK, Registrable, Registering
<1>4. /\ users' \in Seq(Registrable) /\ Len(users') = Len(users) + 1
      /\ DOMAIN users' = DOMAIN users \cup {Len(users) + 1}
      /\ users'[Len(users) + 1] = worker[w].on
      /\ \A i \in DOMAIN users : users'[i] = users[i]
  BY <1>1, <1>3
<1>5. Len(users) + 1 \in Nat /\ Len(users) \in Nat
  BY <1>3
<1>6. l \in Registering /\ l.pc = "InsertAuth" /\ l.got = Len(users) + 1 /\ l.on = worker[w].on
  BY <1>2, <1>5 DEF Registering
<1>7. l # Idle
  BY <1>6 DEF Idle
<1>8. /\ worker' \in [Workers -> Registering \cup {Idle}] /\ worker'[w] = l
      /\ \A v \in Workers \ {w} : worker'[v] = worker[v]
      /\ w \in Busy /\ Busy' = Busy
  BY <1>1, <1>2, <1>6, <1>7, StepOf
<1>9. \A v \in Workers : HasUser(v)'
  <2>1. HasUser(w)'
    BY <1>4, <1>6, <1>8 DEF HasUser
  <2>2. \A v \in Workers \ {w} : HasUser(v)'
    BY <1>4, <1>8, HasUserStays
  <2> QED
    BY <2>1, <2>2
<1>10. AccountsTypeOK'
  BY <1>1, <1>4 DEF AccountsInv, AccountsTypeOK, Registrable
<1>11. AuthInv' /\ TokensInv'
  BY <1>1, <1>4 DEF AccountsInv, AccountsTypeOK, AuthInv, TokensInv
<1>12. ASSUME Undisturbed'
       PROVE  CountsAlike'
  <2>1. CountsAlike
    BY <1>1, <1>12 DEF AccountsInv, Undisturbed
  <2>2. Busy = {w} /\ lastAuth = Len(users)
    BY <1>1, <1>8, <2>1 DEF CountsAlike
  <2>3. \A row \in auth' : row.id = row.uid
    BY <1>1, <2>1 DEF CountsAlike
  <2> QED
    BY <1>1, <1>4, <1>6, <1>8, <2>2, <2>3 DEF CountsAlike
<1> QED
  BY <1>1, <1>8, <1>9, <1>10, <1>11, <1>12 DEF AccountsInv

LEMMA InsertAuthKeeps ==
    ASSUME AccountsInv, NEW w \in Workers, InsertAuth(w)
    PROVE  AccountsInv'
<1> DEFINE a == worker[w].on
           row == [id |-> lastAuth + 1, uid |-> worker[w].got, account |-> a]
           next == [worker[w] EXCEPT !.pc = "InsertProfile"]
           l == IF Conflicts(a) THEN Idle ELSE next
<1>1. /\ worker[w].pc = "InsertAuth" /\ lastAuth' = lastAuth + 1
      /\ UNCHANGED <<users, profiles, expired, tokens>>
      /\ UNCHANGED <<faults, overlapped>>
      /\ auth' = IF Conflicts(a) THEN auth ELSE auth \cup {row}
  BY DEF InsertAuth, Uid, Ends, Goes, GoesWith
<1>2. worker[w] \in Registering /\ worker[w] # Idle
  BY <1>1 DEF AccountsInv, Idle
<1>3. worker' = [worker EXCEPT ![w] = l]
  BY <1>2 DEF InsertAuth, Ends, Goes, GoesWith, After, Registering
<1>4. /\ next \in Registering /\ next.pc = "InsertProfile"
      /\ next.got = worker[w].got /\ next.on = a /\ next # Idle
  BY <1>2 DEF Registering, Idle
<1>5. /\ worker' \in [Workers -> Registering \cup {Idle}] /\ worker'[w] = l
      /\ \A v \in Workers \ {w} : worker'[v] = worker[v]
      /\ w \in Busy /\ Busy' = IF l = Idle THEN Busy \ {w} ELSE Busy
  BY <1>2, <1>3, <1>4, StepOf
<1>6. worker[w].got \in DOMAIN users /\ users[worker[w].got] = a /\ a \in Registrable
  BY <1>1, <1>2 DEF AccountsInv, HasUser, Registering
<1>7. \A v \in Workers : HasUser(v)'
  <2>1. HasUser(w)'
    BY <1>1, <1>4, <1>5, <1>6 DEF HasUser, Idle
  <2>2. \A v \in Workers \ {w} : HasUser(v)'
    BY <1>1, <1>5, HasUserStays
  <2> QED
    BY <2>1, <2>2
<1>8. lastAuth \in Nat /\ \A r \in auth : r.id \in 1 .. lastAuth /\ r.uid \in DOMAIN users
  BY DEF AccountsInv, AccountsTypeOK
<1>9. AccountsTypeOK'
  <2>1. \A r \in auth' : r.id \in 1 .. lastAuth' /\ r.uid \in DOMAIN users'
    BY <1>1, <1>6, <1>8
  <2>2. \A t \in tokens' : t.account \in Emails /\ t.user \in 1 .. lastAuth'
    BY <1>1, <1>8 DEF AccountsInv, AccountsTypeOK
  <2> QED
    BY <1>1, <1>8, <2>1, <2>2 DEF AccountsInv, AccountsTypeOK
<1>10. AuthInv'
  <2>1. CASE Conflicts(a)
    BY <1>1, <2>1 DEF AccountsInv, AuthInv
  <2>2. CASE ~ Conflicts(a)
    <3>1. \A r \in auth : ~ SameKind(r.account, a) /\ ~ SameKind(a, r.account)
      BY <2>2 DEF Conflicts, SameKind
    <3> QED
      BY <1>1, <1>6, <2>2, <3>1 DEF AccountsInv, AuthInv
  <2> QED
    BY <2>1, <2>2
<1>11. TokensInv'
  BY <1>1 DEF AccountsInv, TokensInv
<1>12. ASSUME Undisturbed'
       PROVE  CountsAlike'
  <2>1. CountsAlike
    BY <1>1, <1>12 DEF AccountsInv, Undisturbed
  <2>2. Busy = {w} /\ lastAuth + 1 = Len(users) /\ worker[w].got = Len(users)
    BY <1>1, <1>5, <2>1 DEF CountsAlike
  <2>3. \A r \in auth' : r.id = r.uid
    BY <1>1, <2>1, <2>2 DEF CountsAlike
  <2>4. lastAuth' = Len(users')
    BY <1>1, <2>2
  <2>5. \A v \in Busy' : v = w /\ worker'[v].pc # "InsertAuth"
    BY <1>4, <1>5, <2>2
  <2> QED
    BY <2>3, <2>4, <2>5 DEF CountsAlike
<1> QED
  BY <1>1, <1>5, <1>7, <1>9, <1>10, <1>11, <1>12 DEF AccountsInv

\* A registration that ends without an id of the one table for the other's.
LEMMA EndsAlike ==
    ASSUME AccountsInv, NEW w \in Workers, worker[w] # Idle,
           worker' = [worker EXCEPT ![w] = Idle],
           UNCHANGED <<users, auth, lastAuth, expired, tokens>>,
           profiles' \subseteq DOMAIN users, faults' \in Nat,
           Undisturbed' => Undisturbed /\ worker[w].pc = "InsertProfile"
    PROVE  AccountsInv'
<1>1. /\ worker' \in [Workers -> Registering \cup {Idle}] /\ worker'[w] = Idle
      /\ \A v \in Workers \ {w} : worker'[v] = worker[v]
      /\ w \in Busy /\ Busy' = Busy \ {w}
  BY StepOf
<1>2. \A v \in Workers : HasUser(v)'
  <2>1. HasUser(w)'
    BY <1>1 DEF HasUser, Idle
  <2>2. \A v \in Workers \ {w} : HasUser(v)'
    BY <1>1, HasUserStays
  <2> QED
    BY <2>1, <2>2
<1>3. AccountsTypeOK' /\ AuthInv' /\ TokensInv'
  BY DEF AccountsInv, AccountsTypeOK, AuthInv, TokensInv
<1>4. ASSUME Undisturbed'
      PROVE  CountsAlike'
  <2>1. CountsAlike /\ worker[w].pc = "InsertProfile"
    BY <1>4 DEF AccountsInv
  <2>2. Busy = {w} /\ lastAuth = Len(users)
    BY <1>1, <2>1 DEF CountsAlike
  <2>3. Busy' = {}
    BY <1>1, <2>2
  <2> QED
    BY <2>1, <2>2, <2>3 DEF CountsAlike
<1> QED
  BY <1>1, <1>2, <1>3, <1>4 DEF AccountsInv

LEMMA AccountsNextKeeps == AccountsInv /\ [AccountsNext]_accountsSpecVars => AccountsInv'
<1> SUFFICES ASSUME AccountsInv, [AccountsNext]_accountsSpecVars
             PROVE  AccountsInv'
  OBVIOUS
<1>1. ASSUME NEW w \in Workers, AccountsStep(w)
      PROVE  AccountsInv'
  <2>1. CASE InsertUser(w)
    BY <2>1, InsertUserKeeps
  <2>2. CASE InsertAuth(w)
    BY <2>2, InsertAuthKeeps
  <2>3. CASE InsertProfile(w)
    <3>1. /\ worker[w].pc = "InsertProfile" /\ worker[w] # Idle
          /\ worker' = [worker EXCEPT ![w] = Idle]
          /\ UNCHANGED <<users, auth, lastAuth, expired, tokens>>
          /\ UNCHANGED <<faults, overlapped>>
          /\ profiles' = profiles \cup {worker[w].got}
      BY <2>3 DEF InsertProfile, Uid, Ends, Goes, GoesWith, After, Idle
    <3>2. profiles' \subseteq DOMAIN users /\ faults' \in Nat
      BY <3>1 DEF AccountsInv, AccountsTypeOK, HasUser
    <3> QED
      BY <3>1, <3>2, EndsAlike DEF Undisturbed
  <2>4. CASE CutOff(w) /\ UNCHANGED accounts
    <3>1. /\ worker[w] # Idle /\ worker' = [worker EXCEPT ![w] = Idle]
          /\ faults' = faults + 1 /\ UNCHANGED accounts
      BY <2>4 DEF CutOff, Logs, After, Busy
    <3>2. faults' \in Nat /\ ~ Undisturbed'
      BY <3>1 DEF AccountsInv, Undisturbed
    <3>3. profiles' \subseteq DOMAIN users
      BY <3>1 DEF AccountsInv, AccountsTypeOK, accounts
    <3> QED
      BY <3>1, <3>2, <3>3, EndsAlike DEF accounts
  <2> QED
    BY <1>1, <2>1, <2>2, <2>3, <2>4 DEF AccountsStep
<1>2. ASSUME NEW w \in Workers, NEW a \in Emails \cup Phones, Register(w, a)
      PROVE  AccountsInv'
  BY <1>2, RegisterKeeps DEF Registrable
<1>3. ASSUME UNCHANGED <<worker, faults, overlapped, users, auth, lastAuth, profiles>>,
             AccountsTypeOK', TokensInv'
      PROVE  AccountsInv'
  BY <1>3 DEF AccountsInv, HasUser, AuthInv, CountsAlike, Undisturbed, Busy
<1>4. ASSUME NEW a \in Emails \cup Phones, Login(a)
      PROVE  AccountsInv'
  <2>1. /\ a \in Emails
        /\ UNCHANGED <<worker, faults, overlapped, users, auth, lastAuth, profiles, expired>>
    BY <1>4 DEF Login, Serves
  <2>2. PICK row \in RowOf(a) : tokens' = tokens \cup {[account |-> a, user |-> row.id]}
    BY <1>4 DEF Login
  <2>3. row \in auth /\ row.account = a
    BY <2>2 DEF RowOf
  <2>4. row.id \in 1 .. lastAuth
    BY <2>3 DEF AccountsInv, AccountsTypeOK
  <2>5. AccountsTypeOK'
    BY <2>1, <2>2, <2>4 DEF AccountsInv, AccountsTypeOK
  <2>6. TokensInv'
    BY <2>1, <2>2, <2>3 DEF AccountsInv, TokensInv
  <2> QED
    BY <1>3, <2>1, <2>5, <2>6
<1>5. ASSUME NEW a \in Emails \cup Phones, Expire(a)
      PROVE  AccountsInv'
  <2>1. /\ expired' = expired \cup {a}
        /\ UNCHANGED <<worker, faults, overlapped, users, auth, lastAuth, profiles, tokens>>
    BY <1>5 DEF Expire, requestVars
  <2>2. AccountsTypeOK' /\ TokensInv'
    BY <2>1 DEF AccountsInv, AccountsTypeOK, TokensInv
  <2> QED
    BY <1>3, <2>1, <2>2
<1>6. CASE (\E t \in tokens : RefreshToken(t)) \/ UNCHANGED accountsSpecVars
  <2>1. UNCHANGED <<worker, faults, overlapped, accounts>>
    BY <1>6 DEF RefreshToken, Serves, accountsSpecVars, requestVars
  <2>2. AccountsTypeOK' /\ TokensInv'
    BY <2>1 DEF accounts, AccountsInv, AccountsTypeOK, TokensInv
  <2> QED
    BY <1>3, <2>1, <2>2 DEF accounts
<1> QED
  BY <1>1, <1>2, <1>4, <1>5, <1>6 DEF AccountsNext

\* The ids of users and of auth rows go on alike as long as no registration
\* fails and no two overlap; what a token says was said by an auth row.
THEOREM AccountsInvariance == AccountsSpec => []AccountsInv
<1>1. RequestsInit /\ AccountsInit => AccountsInv
  BY AccountsInitHolds
<1>2. AccountsInv /\ [AccountsNext]_accountsSpecVars => AccountsInv'
  BY AccountsNextKeeps
<1> QED
  BY <1>1, <1>2, PTL DEF AccountsSpec, accountsSpecVars

\* While nothing fails or overlaps, a token names the user of its account,
\* although it holds the id of the auth row.
THEOREM TokensAreOfUsers == AccountsSpec => []TokenNamesTheUser
<1> SUFFICES ASSUME AccountsInv
             PROVE  TokenNamesTheUser
  BY AccountsInvariance, PTL
<1>1. \A row \in auth : users[row.uid] = row.account
  BY DEF AccountsInv, AuthInv
<1>2. \A row, other \in auth :
         (row.account \in Emails <=> other.account \in Emails) => row = other
  BY DEF AccountsInv, AuthInv, SameKind, Registrable
<1>3. ASSUME Undisturbed, NEW t \in tokens
      PROVE  t.user \in DOMAIN users /\ users[t.user] = t.account
  <2>1. PICK row \in auth : row.id = t.user /\ row.account = t.account
    BY DEF AccountsInv, TokensInv
  <2>2. row.id = row.uid
    BY <1>3 DEF AccountsInv, CountsAlike
  <2>3. row.uid \in DOMAIN users
    BY DEF AccountsInv, AccountsTypeOK
  <2> QED
    BY <1>1, <2>1, <2>2, <2>3
<1> QED
  BY <1>1, <1>2, <1>3 DEF TokenNamesTheUser

-----------------------------------------------------------------------------
(* Messages: subscriptions and their channels.                             *)

messagesSpecVars == <<requestVars, messages>>

Sending ==
    [pc : {"PublishLive", "Commit"}, user : {None}, op : {"Publish", "SaveMessage"},
     on : {None}, got : Nat]

Saving(w) == worker[w] # Idle /\ worker[w].pc = "Commit"

\* Every number up to n was given to a message.
Given(n) == \A id \in 1 .. n : \E j \in DOMAIN record : record[j] = id

\* A channel is closed by its goroutine, which returns, or by Close.
ClosedByOne ==
    \A i \in DOMAIN sub : sub[i].closed /\ ~ sub[i].gone => done \in {"closed", "twice"}

\* Messages in the order of their numbers, each read as the last by one request.
Unshared ==
    /\ lastMsg = Len(record) /\ \A i \in DOMAIN record : record[i] = i
    /\ \A w \in Workers : Saving(w) => worker[w].got = lastMsg
    /\ \A v, w \in Workers : Saving(v) /\ Saving(w) => v = w

StoreInv ==
    /\ Given(lastMsg)
    /\ \A i \in DOMAIN record : Given(record[i])
    /\ \A w \in Workers : Saving(w) => Given(worker[w].got)
    /\ ~ shared => Unshared

MessagesInv ==
    /\ MessagesTypeOK
    /\ worker \in [Workers -> Sending \cup {Idle}]
    /\ \A w \in Busy : worker[w].op = "SaveMessage" <=> worker[w].pc = "Commit"
    /\ ClosedByOne
    /\ PanicsOnlyAfterTheEnd
    /\ StoreInv

-----------------------------------------------------------------------------
LEMMA MessagesInitHolds == RequestsInit /\ MessagesInit => MessagesInv
<1> SUFFICES ASSUME RequestsInit, MessagesInit
             PROVE  MessagesInv
  OBVIOUS
<1>1. MessagesTypeOK
  <2>1. <<>> \in Seq(SubRows) /\ <<>> \in Seq(Nat) /\ Len(<<>>) = 0 /\ 0 \in 0 .. 0
    OBVIOUS
  <2> QED
    BY <2>1 DEF MessagesInit, MessagesTypeOK
<1>2. worker \in [Workers -> Sending \cup {Idle}] /\ Busy = {}
  BY DEF RequestsInit, Busy
<1>3. \A w \in Workers : ~ Saving(w)
  BY DEF RequestsInit, Saving
<1>4. ClosedByOne /\ PanicsOnlyAfterTheEnd
  BY DEF MessagesInit, ClosedByOne, PanicsOnlyAfterTheEnd
<1>5. StoreInv
  BY <1>3 DEF MessagesInit, StoreInv, Given, Unshared
<1> QED
  BY <1>1, <1>2, <1>4, <1>5 DEF MessagesInv

\* The tables of the store and the requests that save stay as they are.
LEMMA StoreStays ==
    ASSUME MessagesInv, UNCHANGED storeVars,
           \A w \in Workers : Saving(w)' => Saving(w) /\ worker'[w].got = worker[w].got
    PROVE  StoreInv'
BY DEF MessagesInv, StoreInv, Given, Unshared, storeVars

LEMMA RowReplaced ==
    ASSUME sub \in Seq(SubRows), NEW i \in DOMAIN sub, NEW r \in SubRows,
           sub' = [sub EXCEPT ![i] = r]
    PROVE  /\ sub' \in Seq(SubRows) /\ DOMAIN sub' = DOMAIN sub /\ Len(sub') = Len(sub)
           /\ sub'[i] = r
           /\ \A j \in DOMAIN sub : j # i => sub'[j] = sub[j]
OBVIOUS

LEMMA SentIsRow ==
    ASSUME NEW s \in SubRows, NEW m \in Nat
    PROVE  /\ Sent(s, m) \in SubRows
           /\ Sent(s, m).closed = s.closed /\ Sent(s, m).gone = s.gone
           /\ Sent(s, m).wire = s.wire /\ Sent(s, m).read = s.read
<1>1. CASE Len(s.channel) = Capacity
  BY <1>1 DEF Sent, SubRows
<1>2. CASE Len(s.channel) # Capacity
  <2>1. s.channel \in Seq(Nat)
    BY DEF SubRows
  <2>2. Append(s.channel, m) \in Seq(Nat)
    BY <2>1
  <2>3. Sent(s, m) = [s EXCEPT !.channel = Append(s.channel, m)]
    BY <1>2 DEF Sent
  <2> QED
    BY <2>2, <2>3 DEF SubRows
<1> QED
  BY <1>1, <1>2

\* A goroutine of the subscription i, or its subscriber, makes its row r; who
\* closes the channel leaves it, and who finds it closed brings the process down.
LEMMA SubStepKeeps ==
    ASSUME MessagesInv, NEW i \in DOMAIN sub, NEW r \in SubRows,
           sub' = [sub EXCEPT ![i] = r],
           UNCHANGED <<requestVars, stream, done, storeVars>>, listed' \in {listed, 0},
           r.closed /\ ~ r.gone => sub[i].closed /\ ~ sub[i].gone,
           panicked' \in BOOLEAN,
           panicked' => \/ sub[i].closed /\ ~ sub[i].gone
                        \/ r.gone /\ r.read < stream
    PROVE  MessagesInv'
<1>1. /\ sub' \in Seq(SubRows) /\ DOMAIN sub' = DOMAIN sub /\ Len(sub') = Len(sub)
      /\ sub'[i] = r
      /\ \A j \in DOMAIN sub : j # i => sub'[j] = sub[j]
  BY RowReplaced DEF MessagesInv, MessagesTypeOK
<1>2. 0 \in 0 .. Len(sub)
  BY DEF MessagesInv, MessagesTypeOK
<1>3. MessagesTypeOK'
  BY <1>1, <1>2 DEF MessagesInv, MessagesTypeOK, storeVars
<1>4. ClosedByOne'
  BY <1>1 DEF MessagesInv, ClosedByOne
<1>5. PanicsOnlyAfterTheEnd'
  BY <1>1 DEF MessagesInv, ClosedByOne, PanicsOnlyAfterTheEnd
<1>6. StoreInv'
  BY StoreStays DEF Saving, requestVars
<1> QED
  BY <1>3, <1>4, <1>5, <1>6 DEF MessagesInv, requestVars, Busy

LEMMA SubStepsKeep ==
    ASSUME MessagesInv, ~ panicked, NEW i \in DOMAIN sub, SubStep(i)
    PROVE  MessagesInv'
<1>1. /\ sub \in Seq(SubRows) /\ stream \in Nat /\ sub[i] \in SubRows
      /\ panicked = FALSE
  BY DEF MessagesInv, MessagesTypeOK
<1>2. sub = [sub EXCEPT ![i] = sub[i]]
  BY <1>1
<1>3. CASE Forward(i)
  <2>1. CASE sub[i].closed
    BY <1>1, <1>2, <1>3, <2>1, SubStepKeeps DEF Forward, Forwards
  <2>2. CASE ~ sub[i].closed
    <3>1. sub[i].wire \in Seq(Nat) /\ sub[i].wire # <<>>
      BY <1>1, <1>3 DEF Forward, SubRows
    <3>2. Head(sub[i].wire) \in Nat /\ Tail(sub[i].wire) \in Seq(Nat)
      BY <3>1
    <3> DEFINE sent == Sent(sub[i], Head(sub[i].wire))
               r == [sent EXCEPT !.wire = Tail(sub[i].wire)]
    <3>3. sent \in SubRows /\ ~ sent.closed /\ sent.wire = sub[i].wire
      BY <1>1, <2>2, <3>2, SentIsRow
    <3>4. r \in SubRows /\ ~ r.closed
      BY <3>2, <3>3 DEF SubRows
    <3>5. sub' = [sub EXCEPT ![i] = r] /\ panicked' = FALSE
      BY <1>1, <1>3, <2>2, <3>3 DEF Forward
    <3> QED
      BY <1>3, <3>4, <3>5, SubStepKeeps DEF Forward
  <2> QED
    BY <2>1, <2>2
<1>4. CASE Cancel(i)
  <2> DEFINE r == [sub[i] EXCEPT !.ended = TRUE]
  <2>1. r \in SubRows /\ r.closed = sub[i].closed /\ r.gone = sub[i].gone
    BY <1>1 DEF SubRows
  <2>2. sub' = [sub EXCEPT ![i] = r]
    BY <1>4 DEF Cancel
  <2> QED
    BY <1>1, <1>4, <2>1, <2>2, SubStepKeeps DEF Cancel
<1>5. CASE Leave(i)
  <2> DEFINE r == [sub[i] EXCEPT !.gone = TRUE, !.closed = TRUE]
  <2>1. r \in SubRows /\ r.gone
    BY <1>1 DEF SubRows
  <2>2. sub' = [sub EXCEPT ![i] = r]
    BY <1>1, <1>5 DEF Leave
  <2>3. /\ ~ sub[i].gone /\ panicked' = sub[i].closed /\ listed' = 0
        /\ UNCHANGED <<stream, done, storeVars, requestVars>>
    BY <1>5 DEF Leave
  <2>4. panicked' \in BOOLEAN
    BY <1>1, <2>3 DEF SubRows
  <2> QED
    BY <2>1, <2>2, <2>3, <2>4, SubStepKeeps
<1>6. CASE ReadHistory(i)
  <2>1. CASE sub[i].closed
    BY <1>1, <1>2, <1>6, <2>1, SubStepKeeps DEF ReadHistory
  <2>2. CASE ~ sub[i].closed
    <3>1. sub[i].read + 1 \in Nat
      BY <1>1 DEF SubRows
    <3> DEFINE sent == Sent(sub[i], sub[i].read + 1)
               r == ReadOn(sent)
    <3>2. sent \in SubRows /\ ~ sent.closed
      BY <1>1, <2>2, <3>1, SentIsRow
    <3>3. r \in SubRows /\ ~ r.closed
      <4>1. r = [sent EXCEPT !.read = sent.read + 1]
        BY DEF ReadOn
      <4>2. sent.read + 1 \in Nat
        BY <3>2 DEF SubRows
      <4> HIDE DEF sent, r
      <4> QED
        BY <3>2, <4>1, <4>2 DEF SubRows
    <3>4. sub' = [sub EXCEPT ![i] = r] /\ panicked' = FALSE
      BY <1>1, <1>6, <2>2 DEF ReadHistory
    <3> QED
      BY <1>6, <3>3, <3>4, SubStepKeeps DEF ReadHistory
  <2> QED
    BY <2>1, <2>2
<1>7. CASE Receive(i)
  <2>1. sub[i].channel \in Seq(Nat) /\ sub[i].channel # <<>> /\ sub[i].got \in Seq(Nat)
    BY <1>1, <1>7 DEF Receive, SubRows
  <2>2. Tail(sub[i].channel) \in Seq(Nat) /\ Head(sub[i].channel) \in Nat
    BY <2>1
  <2>3. Append(sub[i].got, Head(sub[i].channel)) \in Seq(Nat)
    BY <2>1, <2>2
  <2> DEFINE r == [sub[i] EXCEPT !.channel = Tail(sub[i].channel),
                                 !.got = Append(sub[i].got, Head(sub[i].channel))]
  <2>4. r \in SubRows /\ r.closed = sub[i].closed /\ r.gone = sub[i].gone
    BY <1>1, <2>2, <2>3 DEF SubRows
  <2>5. sub' = [sub EXCEPT ![i] = r]
    BY <1>1, <1>7 DEF Receive
  <2>6. UNCHANGED <<stream, listed, done, panicked, storeVars, requestVars>>
    BY <1>7 DEF Receive
  <2> HIDE DEF r
  <2> QED
    BY <1>1, <2>4, <2>5, <2>6, SubStepKeeps
<1> QED
  BY <1>3, <1>4, <1>5, <1>6, <1>7 DEF SubStep

-----------------------------------------------------------------------------
(* Messages: requests, and the end of the queue.                           *)

\* A step of the queue whose rows keep what they were for their channels.
LEMMA QueueStep ==
    ASSUME MessagesInv, ~ panicked, MessagesTypeOK', UNCHANGED <<panicked, storeVars>>,
           worker' \in [Workers -> Sending \cup {Idle}],
           \A w \in Busy' : worker'[w].op = "SaveMessage" <=> worker'[w].pc = "Commit",
           \A w \in Workers : Saving(w)' => Saving(w) /\ worker'[w].got = worker[w].got,
           ClosedByOne'
    PROVE  MessagesInv'
<1>1. StoreInv'
  BY StoreStays
<1>2. PanicsOnlyAfterTheEnd'
  BY DEF PanicsOnlyAfterTheEnd
<1> QED
  BY <1>1, <1>2 DEF MessagesInv

LEMMA MessagesStepKeeps ==
    ASSUME MessagesInv, ~ panicked, NEW w \in Workers, MessagesStep(w)
    PROVE  MessagesInv'
<1>1. CASE PublishLive(w)
  <2>1. /\ worker[w].pc = "PublishLive" /\ worker' = [worker EXCEPT ![w] = Idle]
        /\ UNCHANGED <<stream, listed, done, panicked, storeVars>>
        /\ sub' = [i \in DOMAIN sub |->
                      IF Forwards(sub[i])
                      THEN [sub[i] EXCEPT !.wire = Append(@, worker[w].got)]
                      ELSE sub[i]]
    BY <1>1 DEF PublishLive, Ends, Goes, GoesWith, After
  <2>2. worker[w].got \in Nat
    BY <2>1 DEF MessagesInv, Sending, Idle
  <2>3. sub \in Seq(SubRows) /\ \A i \in DOMAIN sub : sub[i] \in SubRows
    BY DEF MessagesInv, MessagesTypeOK
  <2>4. ASSUME NEW i \in DOMAIN sub
        PROVE  /\ sub'[i] \in SubRows
               /\ sub'[i].closed = sub[i].closed /\ sub'[i].gone = sub[i].gone
    <3>1. Append(sub[i].wire, worker[w].got) \in Seq(Nat)
      BY <2>2, <2>3 DEF SubRows
    <3> QED
      BY <2>1, <2>3, <3>1 DEF SubRows
  <2>5. DOMAIN sub' = DOMAIN sub /\ DOMAIN sub = 1 .. Len(sub) /\ Len(sub) \in Nat
    BY <2>1, <2>3
  <2>6. sub' \in Seq(SubRows) /\ Len(sub') = Len(sub)
    <3>1. sub' \in [1 .. Len(sub) -> SubRows]
      BY <2>1, <2>4, <2>5
    <3> QED
      BY <2>5, <3>1
  <2>7. MessagesTypeOK'
    BY <2>1, <2>6 DEF MessagesInv, MessagesTypeOK, storeVars
  <2>8. ClosedByOne'
    BY <2>1, <2>4, <2>5 DEF MessagesInv, ClosedByOne
  <2>9. /\ worker' \in [Workers -> Sending \cup {Idle}]
        /\ worker'[w] = Idle /\ \A v \in Workers \ {w} : worker'[v] = worker[v]
    BY <2>1 DEF MessagesInv
  <2>10. \A v \in Busy' : worker'[v].op = "SaveMessage" <=> worker'[v].pc = "Commit"
    BY <2>9 DEF MessagesInv, Busy
  <2>11. \A v \in Workers : Saving(v)' => Saving(v) /\ worker'[v].got = worker[v].got
    BY <2>9 DEF Saving
  <2> QED
    BY <2>1, <2>7, <2>8, <2>9, <2>10, <2>11, QueueStep
<1>2. CASE CutOff(w) /\ UNCHANGED messages
  <2>1. worker' = [worker EXCEPT ![w] = Idle]
    BY <1>2 DEF CutOff, Logs, After
  <2>2. /\ worker' \in [Workers -> Sending \cup {Idle}]
        /\ worker'[w] = Idle /\ \A v \in Workers \ {w} : worker'[v] = worker[v]
    BY <2>1 DEF MessagesInv
  <2>3. \A v \in Busy' : worker'[v].op = "SaveMessage" <=> worker'[v].pc = "Commit"
    BY <2>2 DEF MessagesInv, Busy
  <2>4. \A v \in Workers : Saving(v)' => Saving(v) /\ worker'[v].got = worker[v].got
    BY <2>2 DEF Saving
  <2>5. MessagesTypeOK' /\ ClosedByOne'
    BY <1>2 DEF messages, queueVars, storeVars, MessagesInv, MessagesTypeOK, ClosedByOne
  <2> QED
    BY <1>2, <2>2, <2>3, <2>4, <2>5, QueueStep DEF messages, queueVars
<1>3. CASE Commit(w)
  <2> DEFINE n == worker[w].got + 1
  <2>1. /\ worker[w].pc = "Commit" /\ record' = Append(record, n) /\ lastMsg' = n
        /\ shared' = shared /\ UNCHANGED queueVars
        /\ worker' = [worker EXCEPT ![w] = Idle]
    BY <1>3 DEF Commit, NextId, Ends, Goes, GoesWith, After
  <2>2. Saving(w) /\ worker[w].got \in Nat
    BY <2>1 DEF MessagesInv, Saving, Sending, Idle
  <2>3. record \in Seq(Nat) /\ n \in Nat
    BY <2>2 DEF MessagesInv, MessagesTypeOK
  <2>4. /\ record' \in Seq(Nat) /\ Len(record') = Len(record) + 1
        /\ DOMAIN record' = DOMAIN record \cup {Len(record) + 1}
        /\ record'[Len(record) + 1] = n
        /\ \A i \in DOMAIN record : record'[i] = record[i]
    BY <2>1, <2>3
  <2>5. /\ worker' \in [Workers -> Sending \cup {Idle}]
        /\ worker'[w] = Idle /\ \A v \in Workers \ {w} : worker'[v] = worker[v]
    BY <2>1 DEF MessagesInv
  <2>6. MessagesTypeOK'
    BY <2>1, <2>3, <2>4 DEF MessagesInv, MessagesTypeOK, queueVars
  <2>7. \A v \in Busy' : worker'[v].op = "SaveMessage" <=> worker'[v].pc = "Commit"
    BY <2>5 DEF MessagesInv, Busy
  <2>8. ClosedByOne' /\ PanicsOnlyAfterTheEnd'
    BY <2>1 DEF MessagesInv, ClosedByOne, PanicsOnlyAfterTheEnd, queueVars
  <2>9. ASSUME NEW m \in Nat, \A id \in 1 .. m : \E j \in DOMAIN record : record[j] = id
        PROVE  \A id \in 1 .. m : \E j \in DOMAIN record' : record'[j] = id
    BY <2>4, <2>9
  <2>10. \A id \in 1 .. n : \E j \in DOMAIN record' : record'[j] = id
    <3>1. \A id \in 1 .. worker[w].got : \E j \in DOMAIN record : record[j] = id
      BY <2>2 DEF MessagesInv, StoreInv, Given
    <3>2. \A id \in 1 .. worker[w].got : \E j \in DOMAIN record' : record'[j] = id
      BY <2>2, <2>9, <3>1
    <3>3. Len(record) + 1 \in DOMAIN record'
      BY <2>4
    <3> QED
      BY <2>2, <2>4, <3>2, <3>3
  <2>11. \A i \in DOMAIN record' : Given(record[i])'
    <3>1. ASSUME NEW i \in DOMAIN record
          PROVE  \A id \in 1 .. record[i] : \E j \in DOMAIN record' : record'[j] = id
      <4>1. record[i] \in Nat
        BY <2>3
      <4>2. \A id \in 1 .. record[i] : \E j \in DOMAIN record : record[j] = id
        BY DEF MessagesInv, StoreInv, Given
      <4> QED
        BY <2>9, <4>1, <4>2
    <3> QED
      BY <2>4, <2>10, <3>1 DEF Given
  <2>12. \A v \in Workers : Saving(v)' => Given(worker[v].got)'
    <3>1. ASSUME NEW v \in Workers \ {w}, Saving(v)
          PROVE  \A id \in 1 .. worker[v].got : \E j \in DOMAIN record' : record'[j] = id
      <4>1. worker[v].got \in Nat
        BY <3>1 DEF MessagesInv, Saving, Sending
      <4>2. \A id \in 1 .. worker[v].got : \E j \in DOMAIN record : record[j] = id
        BY <3>1 DEF MessagesInv, StoreInv, Given
      <4> QED
        BY <2>9, <4>1, <4>2
    <3> QED
      BY <2>5, <3>1 DEF Saving, Given
  <2>13. ASSUME ~ shared'
         PROVE  Unshared'
    <3>1. Unshared
      BY <2>1, <2>13 DEF MessagesInv, StoreInv
    <3>2. worker[w].got = Len(record) /\ \A v \in Workers \ {w} : ~ Saving(v)
      BY <2>2, <3>1 DEF Unshared
    <3>3. \A v \in Workers : ~ Saving(v)'
      BY <2>5, <3>2 DEF Saving
    <3>4. lastMsg' = Len(record') /\ \A i \in DOMAIN record' : record'[i] = i
      BY <2>1, <2>4, <3>1, <3>2 DEF Unshared
    <3> QED
      BY <3>3, <3>4 DEF Unshared
  <2>14. StoreInv'
    BY <2>1, <2>10, <2>11, <2>12, <2>13 DEF StoreInv, Given
  <2> QED
    BY <2>5, <2>6, <2>7, <2>8, <2>14 DEF MessagesInv
<1> QED
  BY <1>1, <1>2, <1>3 DEF MessagesStep

\* What a new request does to the locals.
LEMMA SendingBegins ==
    ASSUME MessagesInv, NEW w \in Workers, NEW l \in Sending, worker[w] = Idle,
           worker' = [worker EXCEPT ![w] = l],
           l.op = "SaveMessage" <=> l.pc = "Commit"
    PROVE  /\ worker' \in [Workers -> Sending \cup {Idle}]
           /\ worker'[w] = l /\ \A v \in Workers \ {w} : worker'[v] = worker[v]
           /\ \A v \in Busy' : worker'[v].op = "SaveMessage" <=> worker'[v].pc = "Commit"
BY DEF MessagesInv, Busy

LEMMA PublishKeeps ==
    ASSUME MessagesInv, ~ panicked, NEW w \in Workers, Publish(w)
    PROVE  MessagesInv'
<1> DEFINE l == [pc |-> "PublishLive", user |-> None, op |-> "Publish", on |-> None,
                 got |-> stream + 1]
<1>1. /\ worker[w] = Idle /\ worker' = [worker EXCEPT ![w] = l]
      /\ stream' = stream + 1 /\ UNCHANGED <<sub, listed, done, panicked, storeVars>>
  BY DEF Publish, Begins, Takes
<1>2. stream + 1 \in Nat
  BY DEF MessagesInv, MessagesTypeOK
<1>3. l \in Sending
  BY <1>2 DEF Sending
<1>4. /\ worker' \in [Workers -> Sending \cup {Idle}]
      /\ worker'[w] = l /\ \A v \in Workers \ {w} : worker'[v] = worker[v]
      /\ \A v \in Busy' : worker'[v].op = "SaveMessage" <=> worker'[v].pc = "Commit"
  BY <1>1, <1>3, SendingBegins
<1>5. \A v \in Workers : Saving(v)' => Saving(v) /\ worker'[v].got = worker[v].got
  BY <1>4 DEF Saving
<1>6. MessagesTypeOK' /\ ClosedByOne'
  BY <1>1, <1>2 DEF MessagesInv, MessagesTypeOK, ClosedByOne, storeVars
<1> QED
  BY <1>1, <1>4, <1>5, <1>6, QueueStep

LEMMA SaveMessageKeeps ==
    ASSUME MessagesInv, ~ panicked, NEW w \in Workers, SaveMessage(w)
    PROVE  MessagesInv'
<1> DEFINE l == [pc |-> "Commit", user |-> None, op |-> "SaveMessage", on |-> None,
                 got |-> lastMsg]
<1>1. /\ worker[w] = Idle /\ worker' = [worker EXCEPT ![w] = l]
      /\ shared' = (shared \/ \E v \in Busy : worker[v].op = "SaveMessage")
      /\ UNCHANGED <<queueVars, record, lastMsg>>
  BY DEF SaveMessage, Begins, Takes
<1>2. l \in Sending
  BY DEF Sending, MessagesInv, MessagesTypeOK
<1>3. /\ worker' \in [Workers -> Sending \cup {Idle}]
      /\ worker'[w] = l /\ \A v \in Workers \ {w} : worker'[v] = worker[v]
      /\ \A v \in Busy' : worker'[v].op = "SaveMessage" <=> worker'[v].pc = "Commit"
  BY <1>1, <1>2, SendingBegins
<1>4. shared' \in BOOLEAN
  BY <1>1 DEF MessagesInv, MessagesTypeOK
<1>5. MessagesTypeOK' /\ ClosedByOne' /\ PanicsOnlyAfterTheEnd'
  BY <1>1, <1>4 DEF MessagesInv, MessagesTypeOK, ClosedByOne, PanicsOnlyAfterTheEnd, queueVars
<1>6. \A v \in Workers : Saving(v)' => worker'[v].got = lastMsg \/ Saving(v)
  BY <1>3 DEF Saving
<1>7. ASSUME ~ shared'
      PROVE  Unshared'
  <2>1. ~ shared /\ \A v \in Workers : ~ Saving(v)
    BY <1>1, <1>7 DEF MessagesInv, Saving, Busy
  <2>2. \A v \in Workers : Saving(v)' => v = w
    BY <1>3, <2>1 DEF Saving
  <2>3. Unshared
    BY <2>1 DEF MessagesInv, StoreInv
  <2> QED
    BY <1>1, <1>3, <2>2, <2>3 DEF Unshared
<1>8. StoreInv'
  <2>1. \A v \in Workers : Saving(v)' => Given(worker[v].got)'
    BY <1>1, <1>3 DEF MessagesInv, StoreInv, Given, Saving
  <2>2. Given(lastMsg)' /\ \A i \in DOMAIN record' : Given(record[i])'
    BY <1>1 DEF MessagesInv, StoreInv, Given
  <2> QED
    BY <1>7, <2>1, <2>2 DEF StoreInv
<1> QED
  BY <1>3, <1>5, <1>8 DEF MessagesInv

LEMMA QueueEndsKeep ==
    ASSUME MessagesInv, ~ panicked, Subscribe \/ Close \/ CloseStreams
    PROVE  MessagesInv'
<1>1. worker' = worker /\ UNCHANGED <<panicked, storeVars>>
  BY DEF Subscribe, Close, CloseStreams, Serves, requestVars
<1>2. sub \in Seq(SubRows)
  BY DEF MessagesInv, MessagesTypeOK
<1>3. MessagesTypeOK' /\ ClosedByOne'
  <2>1. CASE Subscribe
    <3>1. NewSub \in SubRows /\ ~ NewSub.closed
      BY DEF NewSub, SubRows
    <3>2. sub' = Append(sub, NewSub) /\ listed' = Len(sub) + 1 /\ UNCHANGED <<stream, done>>
      BY <2>1 DEF Subscribe
    <3>3. /\ sub' \in Seq(SubRows) /\ Len(sub') = Len(sub) + 1 /\ Len(sub) \in Nat
          /\ DOMAIN sub' = DOMAIN sub \cup {Len(sub) + 1}
          /\ sub'[Len(sub) + 1] = NewSub /\ \A i \in DOMAIN sub : sub'[i] = sub[i]
      BY <1>2, <3>1, <3>2
    <3>4. MessagesTypeOK'
      BY <1>1, <3>2, <3>3 DEF MessagesInv, MessagesTypeOK, storeVars
    <3> QED
      BY <3>1, <3>2, <3>3, <3>4 DEF MessagesInv, ClosedByOne
  <2>2. CASE Close
    <3>1. done = "no" /\ done' = "told" /\ UNCHANGED <<stream, sub, listed>>
      BY <2>2 DEF Close
    <3> QED
      BY <1>1, <3>1 DEF MessagesInv, MessagesTypeOK, ClosedByOne, storeVars
  <2>3. CASE CloseStreams
    <3>1. /\ done' = "closed" /\ listed' = 0 /\ stream' = stream
          /\ sub' = [i \in DOMAIN sub |->
                        IF i = listed THEN [sub[i] EXCEPT !.closed = TRUE] ELSE sub[i]]
      BY <2>3 DEF CloseStreams
    <3>2. \A i \in DOMAIN sub : sub'[i] \in SubRows
      <4>1. \A i \in DOMAIN sub : sub[i] \in SubRows
        BY <1>2
      <4> QED
        BY <3>1, <4>1 DEF SubRows
    <3>3. DOMAIN sub' = DOMAIN sub /\ DOMAIN sub = 1 .. Len(sub) /\ Len(sub) \in Nat
      BY <1>2, <3>1
    <3>4. sub' \in Seq(SubRows) /\ Len(sub') = Len(sub)
      BY <3>1, <3>2, <3>3
    <3>5. MessagesTypeOK'
      BY <1>1, <3>1, <3>3, <3>4 DEF MessagesInv, MessagesTypeOK, storeVars
    <3> QED
      BY <3>1, <3>5 DEF ClosedByOne
  <2> QED
    BY <2>1, <2>2, <2>3
<1>4. \A w \in Workers : Saving(w)' => Saving(w) /\ worker'[w].got = worker[w].got
  BY <1>1 DEF Saving
<1>5. /\ worker' \in [Workers -> Sending \cup {Idle}]
      /\ \A w \in Busy' : worker'[w].op = "SaveMessage" <=> worker'[w].pc = "Commit"
  BY <1>1 DEF MessagesInv, Busy
<1> QED
  BY <1>1, <1>3, <1>4, <1>5, QueueStep

LEMMA CloseAgainKeeps ==
    ASSUME MessagesInv, CloseAgain
    PROVE  MessagesInv'
<1>1. /\ done' = "twice" /\ panicked' = TRUE
      /\ UNCHANGED <<stream, sub, listed, storeVars>> /\ worker' = worker
  BY DEF CloseAgain, requestVars
<1>2. MessagesTypeOK' /\ ClosedByOne' /\ PanicsOnlyAfterTheEnd'
  BY <1>1 DEF MessagesInv, MessagesTypeOK, ClosedByOne, PanicsOnlyAfterTheEnd, storeVars
<1>3. StoreInv'
  BY <1>1, StoreStays DEF Saving
<1> QED
  BY <1>1, <1>2, <1>3 DEF MessagesInv, Busy

LEMMA MessagesNextKeeps == MessagesInv /\ [MessagesNext]_messagesSpecVars => MessagesInv'
<1> SUFFICES ASSUME MessagesInv, [MessagesNext]_messagesSpecVars
             PROVE  MessagesInv'
  OBVIOUS
<1>1. CASE MessagesNext
  BY <1>1, MessagesStepKeeps, PublishKeeps, SaveMessageKeeps, SubStepsKeep, QueueEndsKeep,
     CloseAgainKeeps DEF MessagesNext
<1>2. CASE UNCHANGED messagesSpecVars
  <2>1. MessagesTypeOK' /\ ClosedByOne' /\ PanicsOnlyAfterTheEnd'
    BY <1>2 DEF messagesSpecVars, messages, queueVars, storeVars, MessagesInv,
       MessagesTypeOK, ClosedByOne, PanicsOnlyAfterTheEnd
  <2>2. StoreInv'
    BY <1>2, StoreStays DEF messagesSpecVars, messages, requestVars, Saving
  <2> QED
    BY <1>2, <2>1, <2>2 DEF messagesSpecVars, requestVars, MessagesInv, Busy
<1> QED
  BY <1>1, <1>2

\* A channel that is closed while its goroutine runs was closed by Close, and
\* the numbers of messages have no gaps.
THEOREM MessagesInvariance == MessagesSpec => []MessagesInv
<1>1. RequestsInit /\ MessagesInit => MessagesInv
  BY MessagesInitHolds
<1>2. MessagesInv /\ [MessagesNext]_messagesSpecVars => MessagesInv'
  BY MessagesNextKeeps
<1> QED
  BY <1>1, <1>2, PTL DEF MessagesSpec, messagesSpecVars

\* The process comes down only after Close, or by a reader of the stream that
\* outlives its subscription.
THEOREM PanicsHaveFewCauses == MessagesSpec => []PanicsOnlyAfterTheEnd
<1>1. MessagesInv => PanicsOnlyAfterTheEnd
  BY DEF MessagesInv
<1> QED
  BY <1>1, MessagesInvariance, PTL

\* Messages are numbered without gaps, and once each unless two transactions
\* that save a message overlap.
THEOREM NumbersAreGivenOnce == MessagesSpec => []NumberedOnceUnlessShared
<1>1. MessagesInv => NumberedOnceUnlessShared
  BY DEF MessagesInv, StoreInv, Given, Unshared, NumberedOnceUnlessShared
<1> QED
  BY <1>1, MessagesInvariance, PTL

-----------------------------------------------------------------------------
(* Messages: what a subscription is sent.                                  *)

\* The messages that are in the stream and not yet given to the subscriptions.
Publishing == {worker[w].got : w \in {v \in Workers : worker[v].pc = "PublishLive"}}

PublishedOnce ==
    /\ Publishing \subseteq 1 .. stream
    /\ \A v, w \in Workers :
          /\ worker[v].pc = "PublishLive" /\ worker[w].pc = "PublishLive"
          /\ worker[v].got = worker[w].got
          => v = w

\* Message m is still to be sent to s by the goroutine that forwards.
OnWay(s, new, m) == m \in new \/ \E k \in DOMAIN s.wire : s.wire[k] = m

\* The row s of a subscription while the stream holds n messages and those in
\* new are being published: what a goroutine has yet to send, it has not sent.
KnownRow(s, n, new) ==
    /\ s.read <= n
    /\ \A k \in DOMAIN s.wire :
          /\ s.wire[k] \in (1 .. n) \ new
          /\ \A j \in DOMAIN s.wire : s.wire[j] = s.wire[k] => j = k
    /\ \A m \in Nat \ (1 .. n) : Delivered(s, m) = 0
    /\ \A m \in 1 .. n :
          Delivered(s, m) <= (IF OnWay(s, new, m) THEN 0 ELSE 1)
                             + (IF m <= s.read THEN 1 ELSE 0)
    /\ \A m \in 1 .. s.read : ~ s.full => Delivered(s, m) >= 1

DeliveryInv ==
    /\ PublishedOnce
    /\ \A i \in DOMAIN sub : KnownRow(sub[i], stream, Publishing)

-----------------------------------------------------------------------------
\* The places of m in a sequence, and in the sequence with one element more.
LEMMA CopiesAppend ==
    ASSUME NEW q \in Seq(Nat), NEW x \in Nat, NEW m \in Nat
    PROVE  /\ Copies(q, m) \in Nat
           /\ Copies(Append(q, x), m) = Copies(q, m) + (IF x = m THEN 1 ELSE 0)
<1> DEFINE places(t) == {k \in DOMAIN t : t[k] = m}
           S == places(q)
           n == Len(q)
<1>1. n \in Nat /\ DOMAIN q = 1 .. n
  OBVIOUS
<1>2. /\ DOMAIN Append(q, x) = 1 .. n + 1
      /\ Append(q, x)[n + 1] = x
      /\ \A k \in 1 .. n : Append(q, x)[k] = q[k]
  <2>1. Append(q, x) \in Seq(Nat) /\ Len(Append(q, x)) = n + 1
    BY AppendProperties
  <2> QED
    BY <1>1, <2>1, AppendProperties
<1>3. places(Append(q, x)) = IF x = m THEN S \cup {n + 1} ELSE S
  <2> HIDE DEF n
  <2>1. 1 .. n + 1 = (1 .. n) \cup {n + 1} /\ n + 1 \notin 1 .. n
    BY <1>1
  <2> QED
    BY <1>1, <1>2, <2>1
<1>4. IsFiniteSet(1 .. n)
  BY <1>1, FS_Interval
<1>5. S \subseteq 1 .. n /\ n + 1 \notin S
  <2> HIDE DEF n
  <2>1. S \subseteq 1 .. n
    BY <1>1
  <2>2. n + 1 \notin 1 .. n
    BY <1>1
  <2> QED
    BY <2>1, <2>2
<1> HIDE DEF n, S
<1>6. IsFiniteSet(S)
  BY <1>4, <1>5, FS_Subset
<1>7. Cardinality(S) \in Nat
  BY <1>6, FS_CardinalityType
<1>8. Cardinality(S \cup {n + 1}) = Cardinality(S) + 1
  BY <1>6, <1>5, FS_AddElement
<1>9. Copies(q, m) = Cardinality(S)
  BY DEF Copies, S
<1>10. Copies(Append(q, x), m) = Cardinality(places(Append(q, x)))
  BY DEF Copies
<1> HIDE DEF places
<1> QED
  BY <1>3, <1>7, <1>8, <1>9, <1>10

LEMMA ConcatTwice ==
    ASSUME NEW a \in Seq(Nat), NEW b \in Seq(Nat), NEW c \in Seq(Nat)
    PROVE  (a \o b) \o c = a \o (b \o c)
BY ConcatAssociative

LEMMA DeliveredIsNat ==
    ASSUME NEW s \in SubRows, NEW m \in Nat
    PROVE  Delivered(s, m) \in Nat
<1>1. s.got \o s.channel \in Seq(Nat)
  BY DEF SubRows
<1> QED
  BY <1>1, CopiesAppend DEF Delivered

LEMMA DeliveredSent ==
    ASSUME NEW s \in SubRows, NEW x \in Nat, NEW m \in Nat
    PROVE  /\ Sent(s, x).got = s.got
           /\ Delivered(Sent(s, x), m) =
                 Delivered(s, m) + (IF x = m /\ Len(s.channel) # Capacity THEN 1 ELSE 0)
           /\ Sent(s, x).full = (s.full \/ Len(s.channel) = Capacity)
<1>1. /\ s.got \in Seq(Nat) /\ s.channel \in Seq(Nat) /\ Delivered(s, m) \in Nat
      /\ s.full \in BOOLEAN
  BY DeliveredIsNat DEF SubRows
<1>2. CASE Len(s.channel) = Capacity
  <2>1. Sent(s, x) = [s EXCEPT !.full = TRUE]
    BY <1>2 DEF Sent
  <2>2. Sent(s, x).got = s.got /\ Sent(s, x).channel = s.channel /\ Sent(s, x).full = TRUE
    BY <2>1 DEF SubRows
  <2> QED
    <3>1. Delivered(Sent(s, x), m) = Delivered(s, m)
      BY <2>2 DEF Delivered
    <3> HIDE DEF Delivered, Sent
    <3>2. (s.full \/ Len(s.channel) = Capacity) = TRUE
      BY <1>2
    <3>3. ~ (x = m /\ Len(s.channel) # Capacity)
      BY <1>2
    <3>4. Delivered(s, m) = Delivered(s, m) + (IF x = m /\ Len(s.channel) # Capacity THEN 1 ELSE 0)
      BY <1>1, <3>3
    <3> QED
      BY <2>2, <3>1, <3>2, <3>4, Zenon
<1>3. CASE Len(s.channel) # Capacity
  <2>1. Sent(s, x) = [s EXCEPT !.channel = Append(s.channel, x)]
    BY <1>3 DEF Sent
  <2>2. /\ Sent(s, x).got = s.got /\ Sent(s, x).channel = Append(s.channel, x)
        /\ Sent(s, x).full = s.full
    BY <2>1 DEF SubRows
  <2>3. s.got \o Append(s.channel, x) = Append(s.got \o s.channel, x)
    <3>1. /\ Append(s.channel, x) = s.channel \o <<x>> /\ <<x>> \in Seq(Nat)
          /\ s.got \o s.channel \in Seq(Nat)
      <4>1. <<x>> \in Seq(Nat)
        OBVIOUS
      <4>2. s.got \o s.channel \in Seq(Nat)
        BY <1>1, ConcatProperties
      <4>3. Append(s.channel, x) = s.channel \o <<x>>
        BY <1>1, AppendIsConcat
      <4> QED
        BY <4>1, <4>2, <4>3
    <3>2. (s.got \o s.channel) \o <<x>> = s.got \o (s.channel \o <<x>>)
      BY <1>1, <3>1, ConcatTwice
    <3>3. Append(s.got \o s.channel, x) = (s.got \o s.channel) \o <<x>>
      BY <3>1, AppendIsConcat
    <3> QED
      BY <3>1, <3>2, <3>3
  <2>4. s.got \o s.channel \in Seq(Nat)
    BY <1>1, ConcatProperties
  <2> QED
    <3>1. Delivered(Sent(s, x), m) = Copies(Append(s.got \o s.channel, x), m)
      BY <2>2, <2>3 DEF Delivered
    <3>2. Copies(Append(s.got \o s.channel, x), m)
             = Delivered(s, m) + (IF x = m THEN 1 ELSE 0)
      BY <2>4, CopiesAppend DEF Delivered
    <3>3. s.full = (s.full \/ Len(s.channel) = Capacity)
      BY <1>1, <1>3
    <3> QED
      BY <1>1, <1>3, <2>2, <3>1, <3>2, <3>3
<1> QED
  BY <1>2, <1>3

\* What is received was delivered before.
LEMMA ReceivedStays ==
    ASSUME NEW s \in SubRows, s.channel # <<>>, NEW r \in SubRows,
           r.channel = Tail(s.channel), r.got = Append(s.got, Head(s.channel))
    PROVE  \A m : Delivered(r, m) = Delivered(s, m)
<1> DEFINE x == Head(s.channel)
           rest == Tail(s.channel)
<1>1. s.got \in Seq(Nat) /\ s.channel \in Seq(Nat)
  BY DEF SubRows
<1>2. x \in Nat /\ rest \in Seq(Nat) /\ <<x>> \in Seq(Nat)
  BY <1>1, HeadTailProperties
<1>3. s.channel = <<x>> \o rest
  <2>1. /\ <<x>> \o rest \in Seq(Nat) /\ Len(<<x>> \o rest) = 1 + Len(rest)
        /\ \A i \in 1 .. 1 + Len(rest) :
              (<<x>> \o rest)[i] = IF i <= 1 THEN <<x>>[i] ELSE rest[i - 1]
    BY <1>2, ConcatProperties
  <2>2. /\ Len(rest) = Len(s.channel) - 1 /\ Len(s.channel) \in Nat
        /\ \A i \in 1 .. Len(rest) : rest[i] = s.channel[i + 1]
        /\ x = s.channel[1]
    BY <1>1, HeadTailProperties
  <2>3. \A i \in 1 .. Len(s.channel) : s.channel[i] = (<<x>> \o rest)[i]
    BY <2>1, <2>2
  <2>4. Len(s.channel) = Len(<<x>> \o rest)
    BY <2>1, <2>2
  <2> HIDE DEF x, rest
  <2> QED
    BY <1>1, <2>1, <2>3, <2>4, SeqEqual
<1>4. Append(s.got, x) = s.got \o <<x>>
  BY <1>1, <1>2, AppendIsConcat
<1>5. (s.got \o <<x>>) \o rest = s.got \o (<<x>> \o rest)
  BY <1>1, <1>2, ConcatTwice
<1>6. r.got \o r.channel = s.got \o s.channel
  BY <1>3, <1>4, <1>5
<1> QED
  BY <1>6 DEF Delivered

-----------------------------------------------------------------------------
(* Messages: the rows of the subscriptions.                                *)

LEMMA RowShrinks ==
    ASSUME NEW s \in SubRows, NEW n \in Nat, NEW new, KnownRow(s, n, new),
           NEW old \in SUBSET new
    PROVE  KnownRow(s, n, old)
<1>1. \A m \in 1 .. n : Delivered(s, m) \in Nat
  BY DeliveredIsNat
<1> QED
  BY <1>1 DEF KnownRow, OnWay

LEMMA RowGrows ==
    ASSUME NEW s \in SubRows, NEW n \in Nat, NEW new \in SUBSET (1 .. n), KnownRow(s, n, new)
    PROVE  KnownRow(s, n + 1, new \cup {n + 1})
<1>1. s.read \in Nat /\ s.wire \in Seq(Nat)
  BY DEF SubRows
<1>2. Delivered(s, n + 1) = 0
  BY DEF KnownRow
<1>3. \A m \in 1 .. n : OnWay(s, new \cup {n + 1}, m) <=> OnWay(s, new, m)
  BY DEF OnWay
<1>4. OnWay(s, new \cup {n + 1}, n + 1)
  BY DEF OnWay
<1>5. \A m \in 1 .. n + 1 : m \in 1 .. n \/ m = n + 1
  OBVIOUS
<1>6. \A k \in DOMAIN s.wire : s.wire[k] \in (1 .. n + 1) \ (new \cup {n + 1})
  BY DEF KnownRow
<1>7. \A k, j \in DOMAIN s.wire : s.wire[j] = s.wire[k] => j = k
  BY DEF KnownRow
<1>8. s.read <= n + 1
  BY <1>1 DEF KnownRow
<1>9. \A m \in Nat \ (1 .. n + 1) : Delivered(s, m) = 0
  BY DEF KnownRow
<1>10. ASSUME NEW m \in 1 .. n + 1
       PROVE  Delivered(s, m) <= (IF OnWay(s, new \cup {n + 1}, m) THEN 0 ELSE 1)
                                 + (IF m <= s.read THEN 1 ELSE 0)
  <2>1. CASE m \in 1 .. n
    BY <1>3, <2>1 DEF KnownRow
  <2>2. CASE m = n + 1
    <3>1. ~ (m <= s.read)
      BY <1>1, <2>2 DEF KnownRow
    <3> QED
      BY <1>2, <1>4, <2>2, <3>1
  <2> QED
    BY <1>5, <2>1, <2>2
<1>11. \A m \in 1 .. s.read : ~ s.full => Delivered(s, m) >= 1
  BY DEF KnownRow
<1> QED
  BY <1>6, <1>7, <1>8, <1>9, <1>10, <1>11 DEF KnownRow

\* A message is published to the subscription.
LEMMA RowWired ==
    ASSUME NEW s \in SubRows, NEW n \in Nat, NEW new \in SUBSET (1 .. n), KnownRow(s, n, new),
           NEW m \in new, NEW r \in SubRows, r = [s EXCEPT !.wire = Append(s.wire, m)]
    PROVE  KnownRow(r, n, new \ {m})
<1>1. s.wire \in Seq(Nat) /\ m \in 1 .. n
  BY DEF SubRows
<1>2. /\ r.wire = Append(s.wire, m) /\ r.read = s.read /\ r.full = s.full
      /\ r.got = s.got /\ r.channel = s.channel
  BY DEF SubRows
<1>3. /\ DOMAIN r.wire = DOMAIN s.wire \cup {Len(s.wire) + 1}
      /\ Len(s.wire) + 1 \notin DOMAIN s.wire
      /\ r.wire[Len(s.wire) + 1] = m
      /\ \A k \in DOMAIN s.wire : r.wire[k] = s.wire[k]
  BY <1>1, <1>2
<1>4. \A x : OnWay(r, new \ {m}, x) <=> OnWay(s, new, x)
  BY <1>3 DEF OnWay
<1>5. \A x : Delivered(r, x) = Delivered(s, x)
  BY <1>2 DEF Delivered
<1>6. \A k \in DOMAIN r.wire : /\ r.wire[k] \in (1 .. n) \ (new \ {m})
                               /\ \A j \in DOMAIN r.wire : r.wire[j] = r.wire[k] => j = k
  BY <1>1, <1>3 DEF KnownRow
<1> QED
  BY <1>2, <1>4, <1>5, <1>6 DEF KnownRow

\* The first message of the wire is sent.
LEMMA RowForwards ==
    ASSUME NEW s \in SubRows, NEW n \in Nat, NEW new, KnownRow(s, n, new),
           s.wire # <<>>, NEW r \in SubRows,
           r = [Sent(s, Head(s.wire)) EXCEPT !.wire = Tail(s.wire)]
    PROVE  KnownRow(r, n, new)
<1> DEFINE x == Head(s.wire)
<1>1. /\ s.wire \in Seq(Nat) /\ x \in Nat /\ x = s.wire[1] /\ 1 \in DOMAIN s.wire
      /\ s.read \in Nat
  BY DEF SubRows
<1>2. /\ Sent(s, x) \in SubRows /\ Sent(s, x).read = s.read
      /\ Sent(s, x).got = s.got
  BY <1>1, SentIsRow, DeliveredSent
<1>3. /\ r.wire = Tail(s.wire) /\ r.read = s.read /\ r.full = Sent(s, x).full
      /\ r.got = Sent(s, x).got /\ r.channel = Sent(s, x).channel
  BY <1>2 DEF SubRows
<1>4. \A m \in Nat : /\ Delivered(s, m) \in Nat
                     /\ Delivered(r, m) >= Delivered(s, m)
                     /\ Delivered(r, m) <= Delivered(s, m) + (IF x = m THEN 1 ELSE 0)
  <2> SUFFICES ASSUME NEW m \in Nat
               PROVE  /\ Delivered(s, m) \in Nat
                      /\ Delivered(r, m) >= Delivered(s, m)
                      /\ Delivered(r, m) <= Delivered(s, m) + (IF x = m THEN 1 ELSE 0)
    OBVIOUS
  <2>1. Delivered(r, m) = Delivered(Sent(s, x), m)
    BY <1>3 DEF Delivered
  <2>2. Delivered(s, m) \in Nat
    BY DeliveredIsNat
  <2> HIDE DEF x
  <2>3. Delivered(Sent(s, x), m) =
           Delivered(s, m) + (IF x = m /\ Len(s.channel) # Capacity THEN 1 ELSE 0)
    BY <1>1, DeliveredSent
  <2> QED
    BY <2>1, <2>2, <2>3
<1>5. /\ Len(s.wire) \in Nat /\ DOMAIN s.wire = 1 .. Len(s.wire)
      /\ DOMAIN r.wire = 1 .. Len(s.wire) - 1
      /\ \A k \in DOMAIN r.wire : r.wire[k] = s.wire[k + 1] /\ k + 1 \in DOMAIN s.wire
  BY <1>1, <1>3
<1>6. \A k \in DOMAIN r.wire : /\ r.wire[k] \in (1 .. n) \ new
                               /\ r.wire[k] # x
                               /\ \A j \in DOMAIN r.wire : r.wire[j] = r.wire[k] => j = k
  <2>1. ASSUME NEW k \in DOMAIN r.wire
        PROVE  r.wire[k] \in (1 .. n) \ new /\ r.wire[k] # x
    <3>1. k + 1 # 1
      BY <1>5
    <3> QED
      BY <1>1, <1>5, <3>1 DEF KnownRow
  <2>2. ASSUME NEW k \in DOMAIN r.wire, NEW j \in DOMAIN r.wire, r.wire[j] = r.wire[k]
        PROVE  j = k
    <3>1. j + 1 = k + 1
      BY <1>5, <2>2 DEF KnownRow
    <3> QED
      BY <1>5, <3>1
  <2> QED
    BY <2>1, <2>2
<1>7. x \in 1 .. n /\ ~ OnWay(r, new, x) /\ OnWay(s, new, x)
  BY <1>1, <1>6 DEF OnWay, KnownRow
<1>8. \A m : m # x => (OnWay(r, new, m) <=> OnWay(s, new, m))
  <2> SUFFICES ASSUME NEW m, m # x
               PROVE  OnWay(r, new, m) <=> OnWay(s, new, m)
    OBVIOUS
  <2>1. ASSUME NEW k \in DOMAIN s.wire, s.wire[k] = m
        PROVE  \E j \in DOMAIN r.wire : r.wire[j] = m
    <3>1. k - 1 \in DOMAIN r.wire /\ (k - 1) + 1 = k
      BY <1>1, <1>5, <2>1
    <3> QED
      BY <1>5, <2>1, <3>1
  <2>2. ASSUME NEW j \in DOMAIN r.wire, r.wire[j] = m
        PROVE  \E k \in DOMAIN s.wire : s.wire[k] = m
    BY <1>5, <2>2
  <2> QED
    BY <2>1, <2>2 DEF OnWay
<1>9. r.full = FALSE => s.full = FALSE
  <2> HIDE DEF x
  <2>1. Sent(s, x).full = (s.full \/ Len(s.channel) = Capacity)
    BY <1>1, DeliveredSent
  <2> QED
    BY <1>3, <2>1 DEF SubRows
<1> HIDE DEF x
<1>10. \A m \in Nat \ (1 .. n) : Delivered(r, m) = 0
  <2> SUFFICES ASSUME NEW m \in Nat \ (1 .. n)
               PROVE  Delivered(r, m) = 0
    OBVIOUS
  <2>1. Delivered(s, m) = 0 /\ x # m
    BY <1>7 DEF KnownRow
  <2>2. Delivered(r, m) <= 0 /\ Delivered(r, m) >= 0
    <3>1. Delivered(r, m) \in Nat
      BY DeliveredIsNat
    <3>2. Delivered(r, m) <= Delivered(s, m) + (IF x = m THEN 1 ELSE 0)
      BY <1>4
    <3> QED
      BY <2>1, <3>1, <3>2
  <2>3. Delivered(r, m) \in Nat
    BY DeliveredIsNat
  <2> QED
    BY <2>2, <2>3
<1>11. \A m \in 1 .. n :
          Delivered(r, m) <= (IF OnWay(r, new, m) THEN 0 ELSE 1)
                             + (IF m <= r.read THEN 1 ELSE 0)
  <2>1. ASSUME NEW m \in 1 .. n
        PROVE  Delivered(r, m) <= (IF OnWay(r, new, m) THEN 0 ELSE 1)
                                  + (IF m <= r.read THEN 1 ELSE 0)
    <3>1. Delivered(s, m) <= (IF OnWay(s, new, m) THEN 0 ELSE 1)
                             + (IF m <= s.read THEN 1 ELSE 0)
      BY DEF KnownRow
    <3>2. Delivered(r, m) \in Nat
      BY DeliveredIsNat
    <3>5. m \in Nat
      OBVIOUS
    <3>3. Delivered(s, m) \in Nat
      BY <3>5, DeliveredIsNat
    <3>4. Delivered(r, m) <= Delivered(s, m) + (IF x = m THEN 1 ELSE 0)
      BY <1>4, <3>5
    <3>7. CASE x = m
      BY <1>3, <1>7, <3>1, <3>2, <3>3, <3>4, <3>7
    <3>6. CASE x # m
      <4>1. OnWay(r, new, m) <=> OnWay(s, new, m)
        BY <1>8, <3>6
      <4>2. r.read = s.read
        BY <1>3
      <4>3. Delivered(r, m) <= Delivered(s, m)
        BY <3>2, <3>3, <3>4, <3>6
      <4> QED
        BY <4>1, <4>2, <4>3, <3>1, <3>2, <3>3
    <3> QED
      BY <3>7, <3>6
  <2> QED
    BY <2>1
<1>12. \A m \in 1 .. r.read : ~ r.full => Delivered(r, m) >= 1
  <2>1. ASSUME NEW m \in 1 .. r.read, ~ r.full
        PROVE  Delivered(r, m) >= 1
    <3>1. Delivered(s, m) >= 1 /\ m \in Nat
      BY <1>1, <1>3, <1>9, <2>1 DEF KnownRow, SubRows
    <3> QED
      BY <1>4, <3>1, DeliveredIsNat, SMTT(30)
  <2> QED
    BY <2>1
<1> QED
  BY <1>3, <1>6, <1>10, <1>11, <1>12 DEF KnownRow

\* The next message of the stream is sent.
LEMMA RowReads ==
    ASSUME NEW s \in SubRows, NEW n \in Nat, NEW new, KnownRow(s, n, new),
           s.read < n, NEW r \in SubRows, r = ReadOn(Sent(s, s.read + 1))
    PROVE  KnownRow(r, n, new)
<1> DEFINE x == s.read + 1
<1>1. s.read \in Nat /\ x \in 1 .. n
  BY DEF SubRows
<1>2. /\ Sent(s, x) \in SubRows /\ Sent(s, x).read = s.read
      /\ Sent(s, x).wire = s.wire /\ Sent(s, x).got = s.got
  <2>1. x \in Nat /\ 0 \in Nat
    BY <1>1
  <2> HIDE DEF x
  <2>2. Sent(s, x) \in SubRows /\ Sent(s, x).read = s.read /\ Sent(s, x).wire = s.wire
    BY <2>1, SentIsRow
  <2>3. Sent(s, x).got = s.got
    BY <2>1, DeliveredSent
  <2> QED
    BY <2>2, <2>3
<1>3. /\ r.wire = s.wire /\ r.read = x /\ r.full = Sent(s, x).full
      /\ r.got = Sent(s, x).got /\ r.channel = Sent(s, x).channel
  BY <1>2 DEF SubRows, ReadOn
<1>4. \A m \in Nat :
         /\ Delivered(s, m) \in Nat
         /\ Delivered(r, m) = Delivered(s, m)
                              + (IF x = m /\ Len(s.channel) # Capacity THEN 1 ELSE 0)
  <2> SUFFICES ASSUME NEW m \in Nat
               PROVE  /\ Delivered(s, m) \in Nat
                      /\ Delivered(r, m) = Delivered(s, m)
                            + (IF x = m /\ Len(s.channel) # Capacity THEN 1 ELSE 0)
    OBVIOUS
  <2>1. Delivered(r, m) = Delivered(Sent(s, x), m)
    BY <1>3 DEF Delivered
  <2>2. Delivered(s, m) \in Nat
    BY DeliveredIsNat
  <2>3. x \in Nat
    BY <1>1
  <2> HIDE DEF x
  <2>4. Delivered(Sent(s, x), m) =
           Delivered(s, m) + (IF x = m /\ Len(s.channel) # Capacity THEN 1 ELSE 0)
    BY <2>3, DeliveredSent
  <2> QED
    BY <2>1, <2>2, <2>4
<1>5. r.full = (s.full \/ Len(s.channel) = Capacity)
  <2>1. x \in Nat
    BY <1>1
  <2> HIDE DEF x
  <2> QED
    BY <1>3, <2>1, DeliveredSent
<1>6. \A m : OnWay(r, new, m) <=> OnWay(s, new, m)
  BY <1>3 DEF OnWay
<1>7. \A m \in Nat \ (1 .. n) : Delivered(r, m) = 0
  <2> SUFFICES ASSUME NEW m \in Nat \ (1 .. n)
               PROVE  Delivered(r, m) = 0
    OBVIOUS
  <2>1. Delivered(s, m) = 0 /\ x # m
    BY <1>1 DEF KnownRow
  <2> HIDE DEF x
  <2> QED
    BY <1>4, <2>1
<1>8. \A m \in 1 .. n :
          Delivered(r, m) <= (IF OnWay(r, new, m) THEN 0 ELSE 1)
                             + (IF m <= r.read THEN 1 ELSE 0)
  <2>1. ASSUME NEW m \in 1 .. n
        PROVE  Delivered(r, m) <= (IF OnWay(r, new, m) THEN 0 ELSE 1)
                                  + (IF m <= r.read THEN 1 ELSE 0)
    <3>1. Delivered(s, m) <= (IF OnWay(s, new, m) THEN 0 ELSE 1)
                             + (IF m <= s.read THEN 1 ELSE 0)
      BY DEF KnownRow
    <3>2. /\ m \in Nat /\ Delivered(s, m) \in Nat
          /\ Delivered(r, m) = Delivered(s, m)
                + (IF x = m /\ Len(s.channel) # Capacity THEN 1 ELSE 0)
      BY <1>4
    <3>3. m = x => ~ (m <= s.read)
      BY <1>1
    <3>4. m # x => (m <= r.read <=> m <= s.read)
      BY <1>1, <1>3
    <3>5. m = x => m <= r.read
      BY <1>1, <1>3
    <3> HIDE DEF x
    <3>6. CASE m = x
      BY <1>6, <3>1, <3>2, <3>3, <3>5, <3>6
    <3>7. CASE m # x
      BY <1>6, <3>1, <3>2, <3>4, <3>7
    <3> QED
      BY <3>6, <3>7
  <2> QED
    BY <2>1
<1>9. \A m \in 1 .. r.read : ~ r.full => Delivered(r, m) >= 1
  <2>1. ASSUME NEW m \in 1 .. r.read, ~ r.full
        PROVE  Delivered(r, m) >= 1
    <3>1. ~ s.full /\ Len(s.channel) # Capacity
      BY <1>5, <2>1
    <3>2. m = x \/ m \in 1 .. s.read
      BY <1>1, <1>3
    <3>3. m \in 1 .. s.read => Delivered(s, m) >= 1
      BY <3>1 DEF KnownRow
    <3>4. m \in Nat
      BY <1>1, <1>3
    <3>5. /\ Delivered(s, m) \in Nat
          /\ Delivered(r, m) = Delivered(s, m) + (IF x = m THEN 1 ELSE 0)
      <4> HIDE DEF x
      <4> QED
        BY <1>4, <3>1, <3>4
    <3> HIDE DEF x
    <3> QED
      BY <3>2, <3>3, <3>5
  <2> QED
    BY <2>1
<1> QED
  BY <1>1, <1>3, <1>7, <1>8, <1>9 DEF KnownRow

\* Only what is neither sent nor read changes.
LEMMA RowStays ==
    ASSUME NEW s \in SubRows, NEW n \in Nat, NEW new, KnownRow(s, n, new),
           NEW r \in SubRows, r.wire = s.wire, r.read = s.read, r.full = s.full,
           \A m : Delivered(r, m) = Delivered(s, m)
    PROVE  KnownRow(r, n, new)
BY DEF KnownRow, OnWay

-----------------------------------------------------------------------------
(* Messages: the steps.                                                    *)

\* The messages being published when a request that does not publish goes on.
LEMMA PublishingShrinks ==
    ASSUME PublishedOnce, UNCHANGED stream,
           \A v \in Workers : worker'[v] = worker[v] \/ worker'[v].pc # "PublishLive"
    PROVE  PublishedOnce' /\ Publishing' \subseteq Publishing
<1>1. \A v \in Workers : worker'[v].pc = "PublishLive" => worker'[v] = worker[v]
  OBVIOUS
<1>2. Publishing' \subseteq Publishing
  BY <1>1 DEF Publishing
<1> QED
  BY <1>1, <1>2 DEF PublishedOnce

\* The rows do not change, and nothing more is published.
LEMMA DeliveryStays ==
    ASSUME MessagesInv, DeliveryInv, UNCHANGED <<stream, sub>>,
           \A v \in Workers : worker'[v] = worker[v] \/ worker'[v].pc # "PublishLive"
    PROVE  DeliveryInv'
<1>1. PublishedOnce' /\ Publishing' \subseteq Publishing
  BY PublishingShrinks DEF DeliveryInv
<1>2. \A i \in DOMAIN sub : sub[i] \in SubRows /\ stream \in Nat
  BY DEF MessagesInv, MessagesTypeOK
<1>3. ASSUME NEW i \in DOMAIN sub
      PROVE  KnownRow(sub[i], stream, Publishing')
  <2>1. KnownRow(sub[i], stream, Publishing)
    BY DEF DeliveryInv
  <2> QED
    BY <1>1, <1>2, <2>1, RowShrinks
<1> QED
  BY <1>1, <1>3 DEF DeliveryInv

\* One row changes, the messages being published do not.
LEMMA DeliveryOfRow ==
    ASSUME MessagesInv, DeliveryInv, UNCHANGED <<stream, requestVars>>,
           NEW i \in DOMAIN sub, NEW r, sub' = [sub EXCEPT ![i] = r],
           KnownRow(r, stream, Publishing)
    PROVE  DeliveryInv'
<1>1. worker' = worker
  BY DEF requestVars
<1>2. Publishing' = Publishing /\ PublishedOnce'
  BY <1>1 DEF Publishing, DeliveryInv, PublishedOnce
<1>3. /\ DOMAIN sub' = DOMAIN sub /\ sub'[i] = r
      /\ \A j \in DOMAIN sub \ {i} : sub'[j] = sub[j]
  BY DEF MessagesInv, MessagesTypeOK
<1>4. \A j \in DOMAIN sub' : KnownRow(sub'[j], stream, Publishing)
  BY <1>3 DEF DeliveryInv
<1> QED
  BY <1>2, <1>4 DEF DeliveryInv

LEMMA DeliveryOfSubStep ==
    ASSUME MessagesInv, MessagesInv', DeliveryInv, NEW i \in DOMAIN sub, SubStep(i)
    PROVE  DeliveryInv'
<1> DEFINE s == sub[i]
<1>1. /\ sub \in Seq(SubRows) /\ sub' \in Seq(SubRows) /\ stream \in Nat /\ s \in SubRows
      /\ UNCHANGED <<stream, requestVars>>
  BY DEF MessagesInv, MessagesTypeOK, SubStep, Forward, Cancel, Leave, ReadHistory, Receive
<1>2. KnownRow(s, stream, Publishing)
  BY DEF DeliveryInv
<1>3. ASSUME NEW r, sub' = [sub EXCEPT ![i] = r]
      PROVE  r \in SubRows
  <2>1. sub'[i] = r /\ DOMAIN sub' = DOMAIN sub
    BY <1>1, <1>3
  <2> QED
    BY <1>1, <2>1
<1>4. CASE sub' = sub
  BY <1>1, <1>4, DeliveryStays DEF requestVars
<1>5. CASE Forward(i) /\ sub' # sub
  <2> DEFINE r == [Sent(s, Head(s.wire)) EXCEPT !.wire = Tail(s.wire)]
  <2>1. s.wire # <<>> /\ ~ s.closed
    BY <1>5 DEF Forward
  <2>2. Sent(s, Head(s.wire)).wire = s.wire
    <3> HIDE DEF s, r
    <3>1. s.wire \in Seq(Nat) /\ s.wire # <<>>
      BY <1>1, <2>1 DEF SubRows
    <3>2. Head(s.wire) \in Nat
      BY <3>1
    <3> QED
      BY <1>1, <3>2, SentIsRow
  <2>3. sub' = [sub EXCEPT ![i] = r]
    BY <1>5, <2>1, <2>2 DEF Forward
  <2>4. r \in SubRows
    BY <1>3, <2>3
  <2>5. KnownRow(r, stream, Publishing)
    BY <1>1, <1>2, <2>1, <2>4, RowForwards
  <2> QED
    BY <1>1, <2>3, <2>5, DeliveryOfRow
<1>6. CASE Cancel(i)
  <2> DEFINE r == [s EXCEPT !.ended = TRUE]
  <2>1. sub' = [sub EXCEPT ![i] = r]
    BY <1>6 DEF Cancel
  <2>2. r \in SubRows
    BY <1>3, <2>1
  <2>3. /\ r.wire = s.wire /\ r.read = s.read /\ r.full = s.full
        /\ r.got = s.got /\ r.channel = s.channel
    BY <1>1 DEF SubRows
  <2>4. \A m : Delivered(r, m) = Delivered(s, m)
    BY <2>3 DEF Delivered
  <2>5. KnownRow(r, stream, Publishing)
    BY <1>1, <1>2, <2>2, <2>3, <2>4, RowStays
  <2> QED
    BY <1>1, <2>1, <2>5, DeliveryOfRow
<1>7. CASE Leave(i)
  <2> DEFINE r == [s EXCEPT !.gone = TRUE, !.closed = TRUE]
  <2>1. sub' = [sub EXCEPT ![i] = r]
    BY <1>1, <1>7 DEF Leave
  <2>2. r \in SubRows
    BY <1>3, <2>1
  <2>3. /\ r.wire = s.wire /\ r.read = s.read /\ r.full = s.full
        /\ r.got = s.got /\ r.channel = s.channel
    BY <1>1 DEF SubRows
  <2>4. \A m : Delivered(r, m) = Delivered(s, m)
    BY <2>3 DEF Delivered
  <2>5. KnownRow(r, stream, Publishing)
    BY <1>1, <1>2, <2>2, <2>3, <2>4, RowStays
  <2> QED
    BY <1>1, <2>1, <2>5, DeliveryOfRow
<1>8. CASE ReadHistory(i) /\ sub' # sub
  <2> DEFINE r == ReadOn(Sent(s, s.read + 1))
  <2>1. s.read < stream /\ sub' = [sub EXCEPT ![i] = r]
    BY <1>8 DEF ReadHistory
  <2>2. r \in SubRows
    BY <1>3, <2>1
  <2>3. KnownRow(r, stream, Publishing)
    BY <1>1, <1>2, <2>1, <2>2, RowReads
  <2> QED
    BY <1>1, <2>1, <2>3, DeliveryOfRow
<1>9. CASE Receive(i)
  <2> DEFINE r == [s EXCEPT !.channel = Tail(s.channel),
                            !.got = Append(s.got, Head(s.channel))]
  <2>1. s.channel # <<>> /\ sub' = [sub EXCEPT ![i] = r]
    BY <1>1, <1>9 DEF Receive
  <2>2. r \in SubRows
    BY <1>3, <2>1
  <2>3. /\ r.wire = s.wire /\ r.read = s.read /\ r.full = s.full
        /\ r.got = Append(s.got, Head(s.channel)) /\ r.channel = Tail(s.channel)
    BY <1>1 DEF SubRows
  <2>4. \A m : Delivered(r, m) = Delivered(s, m)
    <3> HIDE DEF s, r
    <3> QED
      BY <1>1, <2>1, <2>2, <2>3, ReceivedStays
  <2>5. KnownRow(r, stream, Publishing)
    BY <1>1, <1>2, <2>2, <2>3, <2>4, RowStays
  <2> QED
    BY <1>1, <2>1, <2>5, DeliveryOfRow
<1> QED
  BY <1>4, <1>5, <1>6, <1>7, <1>8, <1>9 DEF SubStep

LEMMA DeliveryOfPublish ==
    ASSUME MessagesInv, DeliveryInv, NEW w \in Workers, Publish(w)
    PROVE  DeliveryInv'
<1>1. /\ worker[w] = Idle /\ stream' = stream + 1 /\ sub' = sub /\ stream \in Nat
      /\ worker' \in [Workers -> Sending \cup {Idle}]
      /\ worker'[w].pc = "PublishLive" /\ worker'[w].got = stream + 1
      /\ \A v \in Workers \ {w} : worker'[v] = worker[v]
  <2> DEFINE l == [pc |-> "PublishLive", user |-> None, op |-> "Publish", on |-> None,
                   got |-> stream + 1]
  <2>1. /\ worker[w] = Idle /\ worker' = [worker EXCEPT ![w] = l]
        /\ stream' = stream + 1 /\ sub' = sub
    BY DEF Publish, Begins, Takes
  <2>2. stream \in Nat
    BY DEF MessagesInv, MessagesTypeOK
  <2>3. l \in Sending
    BY <2>2 DEF Sending
  <2> QED
    BY <2>1, <2>2, <2>3 DEF MessagesInv
<1>2. worker[w].pc # "PublishLive"
  BY <1>1 DEF Idle
<1>3. Publishing' = Publishing \cup {stream + 1}
  BY <1>1, <1>2 DEF Publishing
<1>4. Publishing \subseteq 1 .. stream
  BY DEF DeliveryInv, PublishedOnce
<1>5. PublishedOnce'
  <2>1. Publishing' \subseteq 1 .. stream'
    BY <1>1, <1>3, <1>4
  <2>2. \A v \in Workers \ {w} : worker[v].pc = "PublishLive" => worker[v].got # stream + 1
    <3> SUFFICES ASSUME NEW v \in Workers \ {w}, worker[v].pc = "PublishLive",
                        worker[v].got = stream + 1
                 PROVE  FALSE
      OBVIOUS
    <3>1. stream + 1 \in Publishing
      BY DEF Publishing
    <3> QED
      BY <1>1, <1>4, <3>1
  <2> QED
    BY <1>1, <2>1, <2>2 DEF PublishedOnce, DeliveryInv
<1>6. ASSUME NEW i \in DOMAIN sub
      PROVE  KnownRow(sub[i], stream + 1, Publishing \cup {stream + 1})
  <2>1. sub[i] \in SubRows /\ KnownRow(sub[i], stream, Publishing)
    BY DEF DeliveryInv, MessagesInv, MessagesTypeOK
  <2> QED
    BY <1>1, <1>4, <2>1, RowGrows
<1> QED
  BY <1>1, <1>3, <1>5, <1>6 DEF DeliveryInv

LEMMA DeliveryOfPublishLive ==
    ASSUME MessagesInv, MessagesInv', DeliveryInv, NEW w \in Workers, PublishLive(w)
    PROVE  DeliveryInv'
<1> DEFINE m == worker[w].got
           rest == Publishing \ {m}
<1>1. /\ worker[w].pc = "PublishLive" /\ worker' = [worker EXCEPT ![w] = Idle]
      /\ stream' = stream /\ stream \in Nat
      /\ sub' = [i \in DOMAIN sub |->
                    IF Forwards(sub[i]) THEN [sub[i] EXCEPT !.wire = Append(@, m)]
                    ELSE sub[i]]
      /\ sub \in Seq(SubRows) /\ sub' \in Seq(SubRows)
  BY DEF PublishLive, Ends, Goes, GoesWith, After, MessagesInv, MessagesTypeOK
<1>2. worker'[w] = Idle /\ \A v \in Workers \ {w} : worker'[v] = worker[v]
  BY <1>1 DEF MessagesInv
<1>3. Idle.pc # "PublishLive"
  BY DEF Idle
<1>4. m \in Publishing /\ Publishing \subseteq 1 .. stream
  BY <1>1 DEF Publishing, DeliveryInv, PublishedOnce
<1>5. Publishing' = rest
  <2>1. \A v \in Workers \ {w} : worker[v].pc = "PublishLive" => worker[v].got # m
    BY <1>1 DEF DeliveryInv, PublishedOnce
  <2>2. \A v \in Workers : worker'[v].pc = "PublishLive" => v # w
    BY <1>2, <1>3
  <2>3. Publishing' \subseteq rest
    BY <1>2, <2>1, <2>2 DEF Publishing
  <2>4. rest \subseteq Publishing'
    BY <1>2 DEF Publishing
  <2> QED
    BY <2>3, <2>4
<1>6. PublishedOnce'
  BY <1>1, <1>2, <1>3, PublishingShrinks DEF DeliveryInv
<1>7. ASSUME NEW i \in DOMAIN sub
      PROVE  KnownRow(sub'[i], stream, rest)
  <2> HIDE DEF m
  <2>5. DOMAIN sub' = DOMAIN sub
    BY <1>1
  <2>6. sub[i] \in SubRows /\ sub'[i] \in SubRows
    <3>1. sub \in Seq(SubRows) /\ sub' \in Seq(SubRows)
      BY <1>1
    <3> QED
      BY ONLY <3>1, <2>5, i \in DOMAIN sub
  <2>7. KnownRow(sub[i], stream, Publishing)
    BY DEF DeliveryInv
  <2>1. /\ sub[i] \in SubRows /\ KnownRow(sub[i], stream, Publishing)
        /\ sub'[i] \in SubRows /\ i \in DOMAIN sub'
    BY <2>5, <2>6, <2>7
  <2>2. CASE Forwards(sub[i])
    <3>1. sub'[i] = [sub[i] EXCEPT !.wire = Append(sub[i].wire, m)]
      BY <1>1, <2>2
    <3> HIDE DEF m
    <3> QED
      BY <1>1, <1>4, <2>1, <3>1, RowWired
  <2>3. CASE ~ Forwards(sub[i])
    <3>1. sub'[i] = sub[i]
      BY <1>1, <2>3
    <3> QED
      BY <1>1, <2>1, <3>1, RowShrinks
  <2> QED
    BY <2>2, <2>3
<1>8. DOMAIN sub' = DOMAIN sub
  BY <1>1
<1> QED
  BY <1>1, <1>5, <1>6, <1>7, <1>8 DEF DeliveryInv

LEMMA NewRowIsKnown ==
    ASSUME NEW n \in Nat, NEW new
    PROVE  KnownRow(NewSub, n, new)
<1>1. NewSub.got \o NewSub.channel = <<>> /\ NewSub.wire = <<>> /\ NewSub.read = 0
  BY DEF NewSub
<1>2. \A m : Delivered(NewSub, m) = 0
  BY <1>1, FS_EmptySet DEF Delivered, Copies
<1> QED
  BY <1>1, <1>2 DEF KnownRow

LEMMA DeliveryOfQueue ==
    ASSUME MessagesInv, DeliveryInv, Subscribe \/ Close \/ CloseStreams \/ CloseAgain
    PROVE  DeliveryInv'
<1>1. worker' = worker /\ stream' = stream /\ stream \in Nat /\ sub \in Seq(SubRows)
  BY DEF Subscribe, Close, CloseStreams, CloseAgain, Serves, requestVars, MessagesInv, MessagesTypeOK
<1>2. Publishing' = Publishing /\ PublishedOnce'
  BY <1>1 DEF Publishing, DeliveryInv, PublishedOnce
<1>3. CASE Subscribe
  <2>1. sub' = Append(sub, NewSub)
    BY <1>3 DEF Subscribe
  <2>2. /\ DOMAIN sub' = DOMAIN sub \cup {Len(sub) + 1}
        /\ sub'[Len(sub) + 1] = NewSub /\ \A i \in DOMAIN sub : sub'[i] = sub[i]
    BY <1>1, <2>1
  <2>3. KnownRow(NewSub, stream, Publishing)
    BY <1>1, NewRowIsKnown
  <2> QED
    BY <1>1, <1>2, <2>2, <2>3 DEF DeliveryInv
<1>4. CASE Close \/ CloseAgain
  BY <1>1, <1>2, <1>4 DEF Close, CloseAgain, DeliveryInv
<1>5. CASE CloseStreams
  <2>1. sub' = [i \in DOMAIN sub |->
                   IF i = listed THEN [sub[i] EXCEPT !.closed = TRUE] ELSE sub[i]]
    BY <1>5 DEF CloseStreams
  <2>2. ASSUME NEW i \in DOMAIN sub
        PROVE  KnownRow(sub'[i], stream, Publishing)
    <3>1. sub[i] \in SubRows /\ KnownRow(sub[i], stream, Publishing)
      BY <1>1 DEF DeliveryInv
    <3>2. sub'[i] \in SubRows
      BY <2>1, <3>1 DEF SubRows
    <3>3. /\ sub'[i].wire = sub[i].wire /\ sub'[i].read = sub[i].read
          /\ sub'[i].full = sub[i].full /\ sub'[i].got = sub[i].got
          /\ sub'[i].channel = sub[i].channel
      BY <2>1, <3>1 DEF SubRows
    <3>4. \A m : Delivered(sub'[i], m) = Delivered(sub[i], m)
      BY <3>3 DEF Delivered
    <3> QED
      BY <1>1, <3>1, <3>2, <3>3, <3>4, RowStays
  <2> QED
    BY <1>1, <1>2, <2>1, <2>2 DEF DeliveryInv
<1> QED
  BY <1>3, <1>4, <1>5

LEMMA DeliveryKeeps ==
    MessagesInv /\ MessagesInv' /\ DeliveryInv /\ [MessagesNext]_messagesSpecVars
       => DeliveryInv'
<1> SUFFICES ASSUME MessagesInv, MessagesInv', DeliveryInv, [MessagesNext]_messagesSpecVars
             PROVE  DeliveryInv'
  OBVIOUS
<1>1. Idle.pc # "PublishLive"
  BY DEF Idle
<1>2. ASSUME NEW w \in Workers, Commit(w) \/ (CutOff(w) /\ UNCHANGED messages)
      PROVE  DeliveryInv'
  <2>1. UNCHANGED <<stream, sub>> /\ worker' = [worker EXCEPT ![w] = Idle]
    BY <1>2 DEF Commit, CutOff, Logs, Ends, Goes, GoesWith, After, messages, queueVars
  <2>2. \A v \in Workers : worker'[v] = worker[v] \/ worker'[v] = Idle
    BY <2>1 DEF MessagesInv
  <2> QED
    BY <1>1, <2>1, <2>2, DeliveryStays
<1>3. ASSUME NEW w \in Workers, SaveMessage(w)
      PROVE  DeliveryInv'
  <2> DEFINE l == [pc |-> "Commit", user |-> None, op |-> "SaveMessage", on |-> None,
                   got |-> lastMsg]
  <2>1. UNCHANGED <<stream, sub>> /\ worker' = [worker EXCEPT ![w] = l]
    BY <1>3 DEF SaveMessage, Begins, Takes, queueVars
  <2>2. \A v \in Workers : worker'[v] = worker[v] \/ worker'[v] = l
    BY <2>1 DEF MessagesInv
  <2>3. l.pc # "PublishLive"
    OBVIOUS
  <2> HIDE DEF l
  <2> QED
    BY <2>1, <2>2, <2>3, DeliveryStays
<1>4. CASE MessagesNext
  <2>1. \A w \in Workers : MessagesStep(w) => DeliveryInv'
    <3> SUFFICES ASSUME NEW w \in Workers, MessagesStep(w)
                 PROVE  DeliveryInv'
      OBVIOUS
    <3>1. PublishLive(w) \/ Commit(w) \/ (CutOff(w) /\ UNCHANGED messages)
      BY DEF MessagesStep
    <3>2. Commit(w) \/ (CutOff(w) /\ UNCHANGED messages) => DeliveryInv'
      BY <1>2
    <3>3. PublishLive(w) => DeliveryInv'
      BY DeliveryOfPublishLive
    <3> QED
      BY <3>1, <3>2, <3>3
  <2>2. \A w \in Workers : Publish(w) => DeliveryInv'
    BY DeliveryOfPublish
  <2>3. \A i \in DOMAIN sub : SubStep(i) => DeliveryInv'
    BY DeliveryOfSubStep
  <2>4. Subscribe \/ Close \/ CloseStreams \/ CloseAgain => DeliveryInv'
    BY DeliveryOfQueue
  <2> QED
    BY <1>3, <1>4, <2>1, <2>2, <2>3, <2>4 DEF MessagesNext
<1>5. CASE UNCHANGED messagesSpecVars
  BY <1>5, DeliveryStays DEF messagesSpecVars, requestVars, messages, queueVars
<1> QED
  BY <1>4, <1>5

\* A subscription is sent a message twice at most, and at least once when its
\* reader has read it and its channel was never full: what is on its way to a
\* subscription has not been sent by the goroutine it is on its way to.
THEOREM MessagesAreSentTwiceAtMost == MessagesSpec => []DeliveredTwiceAtMost
<1>1. RequestsInit /\ MessagesInit => DeliveryInv
  <2> SUFFICES ASSUME RequestsInit, MessagesInit
               PROVE  DeliveryInv
    OBVIOUS
  <2>1. \A w \in Workers : worker[w].pc # "PublishLive"
    BY DEF RequestsInit, Idle
  <2> QED
    BY <2>1 DEF DeliveryInv, PublishedOnce, Publishing, MessagesInit
<1>2. MessagesInv /\ MessagesInv' /\ DeliveryInv /\ [MessagesNext]_messagesSpecVars
         => DeliveryInv'
  BY DeliveryKeeps
<1>3. MessagesInv /\ DeliveryInv => DeliveredTwiceAtMost
  <2> SUFFICES ASSUME MessagesInv, DeliveryInv, NEW i \in DOMAIN sub, NEW m \in 1 .. stream
               PROVE  /\ Delivered(sub[i], m) <= 2
                      /\ m <= sub[i].read /\ ~ sub[i].full => Delivered(sub[i], m) >= 1
    BY DEF DeliveredTwiceAtMost
  <2>1. KnownRow(sub[i], stream, Publishing)
    BY DEF DeliveryInv
  <2>2. sub[i] \in SubRows /\ m \in Nat /\ m >= 1
    BY DEF MessagesInv, MessagesTypeOK
  <2>3. Delivered(sub[i], m) \in Nat /\ sub[i].read \in Nat
    BY <2>2, DeliveredIsNat DEF SubRows
  <2>4. Delivered(sub[i], m) <= 2
    BY <2>1, <2>3 DEF KnownRow
  <2>5. m <= sub[i].read => m \in 1 .. sub[i].read
    BY <2>2, <2>3
  <2> QED
    BY <2>1, <2>4, <2>5 DEF KnownRow
<1> QED
  BY <1>1, <1>2, <1>3, MessagesInvariance, PTL DEF MessagesSpec, messagesSpecVars

-----------------------------------------------------------------------------
listingsSpecVars == <<requestVars, listings>>

-----------------------------------------------------------------------------
(* Listings: the places of the rows.                                        *)

TableRow == [id : Nat, is : Kinds]

\* A table of as many rows as it has ids.
IsTable(table) ==
    /\ table \in Seq(TableRow)
    /\ \A i \in DOMAIN table : table[i].id \in 1 .. Len(table)
    /\ \A i, j \in DOMAIN table : table[i].id = table[j].id => i = j

\* Row i is shown, as id.
Shows(table, i, id) == i \in DOMAIN table /\ IsShown(table[i]) /\ table[i].id = id

LEMMA TableIs ==
    ASSUME NEW table, IsTable(table)
    PROVE  /\ DOMAIN table = 1 .. Len(table) /\ Len(table) \in Nat
           /\ \A i \in DOMAIN table :
                  /\ i \in Nat /\ i >= 1
                  /\ table[i].id \in 1 .. Len(table) /\ table[i] \in TableRow
                  /\ IsShown(table[i]) => Shows(table, i, table[i].id)
<1>1. table \in Seq(TableRow)
  BY DEF IsTable
<1>2. DOMAIN table = 1 .. Len(table) /\ Len(table) \in Nat
  BY <1>1
<1>3. \A i \in DOMAIN table : table[i] \in TableRow
  BY <1>1, <1>2
<1>4. \A i \in DOMAIN table : i \in Nat /\ i >= 1
  BY <1>2
<1> QED
  BY <1>2, <1>3, <1>4 DEF IsTable, Shows

LEMMA UpToIs ==
    ASSUME NEW table, IsTable(table), NEW i \in DOMAIN table
    PROVE  /\ \A id : id \in UpTo(table, i) <=> \E j \in 1 .. i : Shows(table, j, id)
           /\ UpTo(table, i) \subseteq 1 .. Len(table)
           /\ IsFiniteSet(UpTo(table, i)) /\ Rank(table, i) \in Nat
<1>1. DOMAIN table = 1 .. Len(table) /\ Len(table) \in Nat /\ 1 .. i \subseteq DOMAIN table
  BY DEF IsTable
<1>2. UpTo(table, i) = {r.id : r \in {table[j] : j \in {k \in 1 .. i : IsShown(table[k])}}}
  BY DEF UpTo, Ids
<1>3. \A id : id \in UpTo(table, i) <=> \E j \in 1 .. i : IsShown(table[j]) /\ table[j].id = id
  BY <1>2
<1>4. \A id : id \in UpTo(table, i) <=> \E j \in 1 .. i : Shows(table, j, id)
  BY <1>1, <1>3 DEF Shows
<1>5. UpTo(table, i) \subseteq 1 .. Len(table)
  BY <1>4 DEF Shows, IsTable
<1>6. IsFiniteSet(1 .. Len(table))
  BY <1>1, FS_Interval
<1>7. IsFiniteSet(UpTo(table, i)) /\ Cardinality(UpTo(table, i)) \in Nat
  BY <1>5, <1>6, FS_Subset, FS_CardinalityType
<1> QED
  BY <1>4, <1>5, <1>7 DEF Rank

\* The places of the rows that are shown grow, from 1.
LEMMA RankGrows ==
    ASSUME NEW table, IsTable(table),
           NEW i \in DOMAIN table, NEW j \in DOMAIN table, i < j, IsShown(table[j])
    PROVE  Rank(table, i) < Rank(table, j) /\ UpTo(table, i) \subseteq UpTo(table, j)
<1>1. i \in Nat /\ j \in Nat
  BY DEF IsTable
<1>2. UpTo(table, i) \subseteq UpTo(table, j)
  BY <1>1, UpToIs
<1>3. table[j].id \in UpTo(table, j)
  <2>1. j \in 1 .. j /\ Shows(table, j, table[j].id)
    BY TableIs
  <2> QED
    BY <2>1, UpToIs
<1>4. table[j].id \notin UpTo(table, i)
  <2>1. \A k \in 1 .. i : ~ Shows(table, k, table[j].id)
    BY <1>1 DEF Shows, IsTable
  <2> QED
    BY <2>1, UpToIs
<1>5. /\ Cardinality(UpTo(table, i)) <= Cardinality(UpTo(table, j))
      /\ Cardinality(UpTo(table, i)) # Cardinality(UpTo(table, j))
  BY <1>2, <1>3, <1>4, UpToIs, FS_Subset
<1> QED
  BY <1>2, <1>5, UpToIs DEF Rank

LEMMA RankIsPositive ==
    ASSUME NEW table, IsTable(table), NEW i \in DOMAIN table, IsShown(table[i])
    PROVE  Rank(table, i) \in Nat /\ Rank(table, i) >= 1
<1>1. table[i].id \in UpTo(table, i)
  <2>1. i \in 1 .. i /\ Shows(table, i, table[i].id)
    BY TableIs
  <2> QED
    BY <2>1, UpToIs
<1>2. Cardinality(UpTo(table, i)) # 0
  BY <1>1, UpToIs, FS_EmptySet
<1> QED
  BY <1>2, UpToIs DEF Rank

\* Two rows of a place are one.
LEMMA RankIsOfOne ==
    ASSUME NEW table, IsTable(table), NEW i \in DOMAIN table, NEW j \in DOMAIN table,
           IsShown(table[i]), IsShown(table[j]), Rank(table, i) = Rank(table, j)
    PROVE  i = j
<1>1. i \in Nat /\ j \in Nat
  BY DEF IsTable
<1>2. ~ (i < j) /\ ~ (j < i)
  BY RankGrows, UpToIs
<1> QED
  BY <1>1, <1>2

\* The ids at the places after n, up to n + size.
Between(table, n, size) ==
    {id \in 1 .. Len(table) : \E i \in DOMAIN table :
        Shows(table, i, id) /\ Rank(table, i) > n /\ Rank(table, i) <= n + size}

\* There are no more of them than places.
LEMMA PlacesBound ==
    ASSUME NEW table, IsTable(table), NEW n \in Nat, NEW size \in Nat
    PROVE  /\ IsFiniteSet(Between(table, n, size))
           /\ Cardinality(Between(table, n, size)) \in Nat
           /\ Cardinality(Between(table, n, size)) <= size
<1> DEFINE S == Between(table, n, size)
           at(id) == CHOOSE i \in DOMAIN table : Shows(table, i, id)
           f == [id \in S |-> Rank(table, at(id)) - n]
<1>1. ASSUME NEW id \in S
      PROVE  /\ Shows(table, at(id), id) /\ at(id) \in DOMAIN table
             /\ Rank(table, at(id)) \in Nat
             /\ Rank(table, at(id)) > n /\ Rank(table, at(id)) <= n + size
  <2>1. PICK i \in DOMAIN table : /\ Shows(table, i, id)
                                  /\ Rank(table, i) > n /\ Rank(table, i) <= n + size
    BY DEF Between
  <2>2. Shows(table, at(id), id) /\ at(id) \in DOMAIN table
    BY <2>1
  <2>3. at(id) = i
    BY <2>1, <2>2 DEF Shows, IsTable
  <2> QED
    BY <2>1, <2>2, <2>3, UpToIs
<1> HIDE DEF at
<1>2. f \in [S -> 1 .. size]
  BY <1>1
<1>3. ASSUME NEW a \in S, NEW b \in S, f[a] = f[b]
      PROVE  a = b
  <2>1. Rank(table, at(a)) = Rank(table, at(b))
    BY <1>1, <1>3
  <2>2. at(a) = at(b)
    BY <1>1, <2>1, RankIsOfOne DEF Shows
  <2> QED
    BY <1>1, <2>2 DEF Shows
<1>4. f \in Injection(S, 1 .. size)
  BY <1>2, <1>3 DEF Injection, IsInjective
<1> HIDE DEF f, S
<1>5. IsFiniteSet(1 .. size) /\ Cardinality(1 .. size) = size
  BY FS_Interval
<1>6. IsFiniteSet(S) /\ Cardinality(S) <= Cardinality(1 .. size)
  BY <1>4, <1>5, FS_Injection
<1> QED
  BY <1>5, <1>6, FS_CardinalityType DEF S

\* If a row is at a place after n, one is at n + 1.
LEMMA PlacesAreFilled ==
    ASSUME NEW table, IsTable(table), NEW n \in Nat,
           NEW i \in DOMAIN table, IsShown(table[i]), Rank(table, i) > n
    PROVE  \E j \in DOMAIN table : IsShown(table[j]) /\ Rank(table, j) = n + 1
<1> DEFINE S == {j \in DOMAIN table : IsShown(table[j]) /\ Rank(table, j) > n}
<1>1. S \subseteq Nat /\ S # {}
  BY DEF IsTable
<1>2. PICK j \in S : \A other \in S : j <= other
  BY <1>1, SomeIsLowest
<1>3. j \in DOMAIN table /\ IsShown(table[j]) /\ Rank(table, j) > n /\ j \in Nat
  BY <1>1
<1>4. UpTo(table, j) \ {table[j].id} \subseteq Between(table, 0, n)
  <2> SUFFICES ASSUME NEW id \in UpTo(table, j), id # table[j].id
               PROVE  id \in Between(table, 0, n)
    OBVIOUS
  <2>1. PICK k \in 1 .. j : Shows(table, k, id)
    BY <1>3, UpToIs
  <2>2. k \in DOMAIN table /\ IsShown(table[k]) /\ k < j /\ k \in Nat
    BY <1>3, <2>1 DEF Shows
  <2>3. ~ (Rank(table, k) > n)
    BY <1>2, <1>3, <2>2
  <2>4. Rank(table, k) \in Nat /\ Rank(table, k) >= 1
    BY <2>2, RankIsPositive
  <2> QED
    <3>1. id \in 1 .. Len(table) /\ Rank(table, k) > 0 /\ Rank(table, k) <= 0 + n
      BY <1>3, <2>3, <2>4, UpToIs
    <3> QED
      BY <2>1, <2>2, <3>1 DEF Between
<1>5. Cardinality(UpTo(table, j) \ {table[j].id}) <= n
  <2>1. IsFiniteSet(Between(table, 0, n)) /\ Cardinality(Between(table, 0, n)) <= n
        /\ Cardinality(Between(table, 0, n)) \in Nat
    BY PlacesBound
  <2>2. /\ IsFiniteSet(UpTo(table, j) \ {table[j].id})
        /\ Cardinality(UpTo(table, j) \ {table[j].id}) <= Cardinality(Between(table, 0, n))
    BY <1>4, <2>1, FS_Subset
  <2>3. Cardinality(UpTo(table, j) \ {table[j].id}) \in Nat
    BY <2>2, FS_CardinalityType
  <2> QED
    BY <2>1, <2>2, <2>3
<1>6. table[j].id \in UpTo(table, j)
  <2>1. j \in 1 .. j /\ Shows(table, j, table[j].id)
    BY <1>3, TableIs
  <2> QED
    BY <1>3, <2>1, UpToIs
<1>7. Cardinality(UpTo(table, j) \ {table[j].id}) = Cardinality(UpTo(table, j)) - 1
  <2>1. IsFiniteSet(UpTo(table, j))
    BY <1>3, UpToIs
  <2> QED
    BY <1>6, <2>1, FS_RemoveElement
<1>8. Rank(table, j) <= n + 1
  BY <1>3, <1>5, <1>7, UpToIs DEF Rank
<1> QED
  BY <1>3, <1>8, UpToIs

\* All that differs between the tables is where the row m is.
AllBut(t, u, m) ==
    \A k \in DOMAIN u : u[k].id # m =>
        \E i \in DOMAIN t : t[i] = u[k] /\ UpTo(t, i) \ {m} = UpTo(u, k) \ {m}

\* The rows at the first n places of t that are behind them in u.
Crosses(t, u, m, n) ==
    {id \in Nat \ {m} : \E i \in DOMAIN t, k \in DOMAIN u :
        /\ Shows(t, i, id) /\ Shows(u, k, id) /\ UpTo(t, i) \ {m} = UpTo(u, k) \ {m}
        /\ Rank(t, i) <= n /\ Rank(u, k) > n}

\* In u, and not in t, the row m is at one of the first n places, before others.
ComesIn(t, u, m, n) ==
    /\ \E j, k \in DOMAIN u :
          j < k /\ IsShown(u[k]) /\ Shows(u, j, m) /\ Rank(u, j) <= n
    /\ \A i \in DOMAIN t : Shows(t, i, m) => Rank(t, i) > n

\* At most one row is pushed out of the first n places: the last one, by m.
LEMMA OneCrosses ==
    ASSUME NEW t, NEW u, IsTable(t), IsTable(u), NEW m, NEW n \in Nat
    PROVE  /\ IsFiniteSet(Crosses(t, u, m, n)) /\ Cardinality(Crosses(t, u, m, n)) \in 0 .. 1
           /\ Crosses(t, u, m, n) # {} => ComesIn(t, u, m, n)
<1>1. ASSUME NEW i \in DOMAIN t, NEW k \in DOMAIN u, NEW id, id # m,
             Shows(t, i, id), Shows(u, k, id), UpTo(t, i) \ {m} = UpTo(u, k) \ {m},
             Rank(t, i) <= n, Rank(u, k) > n
      PROVE  Rank(u, k) = n + 1 /\ ComesIn(t, u, m, n)
  <2> DEFINE A == UpTo(t, i)
             B == UpTo(u, k)
  <2>1. /\ IsFiniteSet(A) /\ IsFiniteSet(B)
        /\ Rank(t, i) = Cardinality(A) /\ Rank(u, k) = Cardinality(B)
        /\ Rank(t, i) \in Nat /\ Rank(u, k) \in Nat
    BY UpToIs DEF Rank
  <2> HIDE DEF A, B
  <2>2. A \ {m} = B \ {m}
    BY <1>1 DEF A, B
  <2>3. /\ Cardinality(A \ {m}) = IF m \in A THEN Cardinality(A) - 1 ELSE Cardinality(A)
        /\ Cardinality(B \ {m}) = IF m \in B THEN Cardinality(B) - 1 ELSE Cardinality(B)
    BY <2>1, FS_RemoveElement
  <2>4. m \in B /\ m \notin A /\ Rank(u, k) = n + 1
    BY <1>1, <2>1, <2>2, <2>3
  <2>5. PICK j \in 1 .. k : Shows(u, j, m)
    BY <2>4, UpToIs DEF B
  <2>6. j \in DOMAIN u /\ j < k /\ j \in Nat /\ k \in Nat
    BY <1>1, <2>5, TableIs DEF Shows
  <2>7. Rank(u, j) \in Nat /\ Rank(u, j) <= n
    BY <1>1, <2>1, <2>4, <2>6, RankGrows, UpToIs DEF Shows
  <2>8. ASSUME NEW h \in DOMAIN t, Shows(t, h, m)
        PROVE  Rank(t, h) > n
    <3>1. ~ (h \in 1 .. i)
      BY <2>4, <2>8, UpToIs DEF A
    <3>2. i < h
      BY <3>1, TableIs
    <3>3. UpTo(t, i) \subseteq UpTo(t, h) /\ m \in UpTo(t, h)
      <4>1. h \in 1 .. h
        BY TableIs
      <4> QED
        BY <2>8, <3>2, <4>1, RankGrows, UpToIs DEF Shows
    <3>4. IsFiniteSet(UpTo(t, h)) /\ A \cup {m} \subseteq UpTo(t, h)
      BY <3>3, UpToIs DEF A
    <3>5. /\ IsFiniteSet(A \cup {m})
          /\ Cardinality(A \cup {m}) = Cardinality(A) + 1
      BY <2>1, <2>4, FS_AddElement
    <3>6. Cardinality(A \cup {m}) <= Cardinality(UpTo(t, h))
      BY <3>4, FS_Subset
    <3>7. Cardinality(A) = n
      BY <1>1, <2>1, <2>2, <2>3, <2>4
    <3>8. Rank(t, h) = Cardinality(UpTo(t, h)) /\ Rank(t, h) \in Nat
      BY UpToIs DEF Rank
    <3> QED
      BY <3>5, <3>6, <3>7, <3>8
  <2> QED
    BY <1>1, <2>4, <2>5, <2>6, <2>7, <2>8 DEF ComesIn, Shows
<1>2. ASSUME NEW a \in Crosses(t, u, m, n), NEW b \in Crosses(t, u, m, n)
      PROVE  a = b
  <2>1. PICK i \in DOMAIN t, k \in DOMAIN u :
            /\ Shows(t, i, a) /\ Shows(u, k, a) /\ UpTo(t, i) \ {m} = UpTo(u, k) \ {m}
            /\ Rank(t, i) <= n /\ Rank(u, k) > n
    BY DEF Crosses
  <2>2. PICK j \in DOMAIN t, h \in DOMAIN u :
            /\ Shows(t, j, b) /\ Shows(u, h, b) /\ UpTo(t, j) \ {m} = UpTo(u, h) \ {m}
            /\ Rank(t, j) <= n /\ Rank(u, h) > n
    BY DEF Crosses
  <2>3. a # m /\ b # m
    BY DEF Crosses
  <2>4. Rank(u, k) = n + 1
    BY <1>1, <2>1, <2>3
  <2>5. Rank(u, h) = n + 1
    BY <1>1, <2>2, <2>3
  <2>6. k = h
    BY <2>1, <2>2, <2>4, <2>5, RankIsOfOne DEF Shows
  <2> QED
    BY <2>1, <2>2, <2>6 DEF Shows
<1>3. Crosses(t, u, m, n) # {} => ComesIn(t, u, m, n)
  BY <1>1 DEF Crosses
<1>4. CASE Crosses(t, u, m, n) = {}
  BY <1>3, <1>4, FS_EmptySet
<1>5. CASE Crosses(t, u, m, n) # {}
  <2>1. PICK a \in Crosses(t, u, m, n) : TRUE
    BY <1>5
  <2>2. Crosses(t, u, m, n) = {a}
    BY <1>2, <2>1
  <2>3. IsFiniteSet({a}) /\ Cardinality({a}) = 1
    BY FS_Singleton
  <2> QED
    BY <1>3, <2>2, <2>3
<1> QED
  BY <1>4, <1>5

-----------------------------------------------------------------------------
(* Listings: the walk of the pages.                                        *)

\* The handlers, as the walk tells them apart.
LEMMA HandlersAre ==
    ASSUME NEW l \in Handlers
    PROVE  /\ l.loses => l.query.skip = "offset" /\ l.answers = "none"
           /\ l.answers = "sum" /\ l.query.skip = "offset" => l.drops = {} \/ l.drops = Kinds
<1> USE DEF Asks, Lists, AlwaysFirst, Query, Never
<1>1. CASE l \in {GetStoryboards, GetUserCreatedStoryboards,
                  GetUserWatchStoryActiveStoryBoards, GetUserWatchRoleActiveStoryBoards,
                  GetUnPublishStoryboard, GetStoryRoles, GetStoryBoardRoles,
                  GetStoryRoleStoryboards, GetUserCreatedRoles}
  BY <1>1 DEF GetStoryboards, GetUserCreatedStoryboards,
     GetUserWatchStoryActiveStoryBoards, GetUserWatchRoleActiveStoryBoards,
     GetUnPublishStoryboard, GetStoryRoles, GetStoryBoardRoles, GetStoryRoleStoryboards,
     GetUserCreatedRoles, GetStoryboardsByStoryMultiPage,
     GetStoryBoardsByRoleID, GetStoryBoardsByStoryIds, GetStoryBoardsByRolesID,
     GetUnPublishedStoryBoardsByUserId, GetUserCreatedStoryboardsWithStoryId,
     GetUserCreatedRolesWithStoryId, GetStoryRoleRows
<1>2. CASE l \in {GetUserWithRoleChatList, GetStoryContributors,
                  SearchStories, SearchRoles, GetStoryRoleList, TrendingStory,
                  TrendingStoryRole, GetUserGroup, GetUserFollowingGroup, UserWatching,
                  GetGroupActives}
  BY <1>2 DEF GetUserWithRoleChatList, GetStoryContributors,
     SearchStories, SearchRoles, GetStoryRoleList, TrendingStory, TrendingStoryRole,
     GetUserGroup, GetUserFollowingGroup, UserWatching, GetGroupActives,
     GetChatContextByUserID, StoryContributorRows, GetStoriesByName,
     GetStoryRolesByName, GetTrendingStories, GetTrendingStoryRoles, GetUserGroups,
     GetUserJoinedGroups, GetUserWatchingProjects, GetActiveByGroupID
<1>3. CASE l \in {FetchGroupMembers, FetchGroupProjects, SearchGroup, FetchGroupStorys,
                  GetStoryComments, GetStoryCommentReplies, GetStoryBoardComments,
                  GetStoryBoardCommentReplies, GetProjectList}
  BY <1>3 DEF FetchGroupMembers, FetchGroupProjects, SearchGroup, FetchGroupStorys,
     GetStoryComments, GetStoryCommentReplies, GetStoryBoardComments,
     GetStoryBoardCommentReplies, GetProjectList, GetGroupMemberInfoList, GetGroupProjects,
     GetGroupByName, GetStoryByGroupID, GetCommentByStory, StoryCommentReplyRows,
     GetCommentListByStoryBoard, StoryBoardCommentReplyRows
<1>4. CASE l \in {SearchGroupProject, SearchProject, GetUserOrders, GetOrders}
  BY <1>4 DEF SearchGroupProject, SearchProject, GetUserOrders, GetOrders, GetGroupProjects,
     GetAllProjects, UserOrderRows
<1>5. CASE l = GetUserChatMessages
  BY <1>5 DEF GetUserChatMessages
<1>6. CASE l \in {GetProjectItems, GetGroupItems, GetUserItems}
  BY <1>6 DEF GetProjectItems, GetGroupItems, GetUserItems, GetStoryItemByProject,
     GetStoryItemByGroup
<1>7. CASE l \in FetchActives \cup ExploreProjects
  BY <1>7 DEF FetchActives, ExploreProjects, FetchGroupActives, FetchStoryActives,
     FetchRoleActives, GetGroupProjects, GetAllProjects, GetActiveByFollowingGroupID,
     GetActiveByFollowingStoryID, GetActiveByFollowingStoryRoleID
<1>8. CASE l \in GetNextStoryboard
  BY <1>8 DEF GetNextStoryboard, GetStoryBoardByStoryAndPrevId
<1>9. CASE l \in PaymentLists \cup {QueryPaymentStatus, RefundPayment}
  BY <1>9 DEF PaymentLists, QueryPaymentStatus, RefundPayment, GetUserOrdersByStatus,
     GetUserPaymentRecords, GetUserPaymentRecordsByStatus, GetUserPaymentRecordsByMethod,
     GetPaymentRecordsByOrderID, GetUserSubscriptions
<1> QED
  BY <1>1, <1>2, <1>3, <1>4, <1>5, <1>6, <1>7, <1>8, <1>9 DEF Handlers

\* How the client numbers the pages.
Walks ==
    /\ listing \in Handlers /\ client \in Clients /\ (Fits \/ Repeats)
    /\ cursor \in Nat /\ (client = "fromOne" => cursor >= 1)

\* No number skips more than a page.
LEMMA PassedGrows ==
    ASSUME Walks, NEW n \in Nat, n <= PageSize \/ ~ (Fits /\ client = "answer"),
           cursor' = NextNumber(n), UNCHANGED <<listing, client>>
    PROVE  /\ Walks'
           /\ Passed \in Nat /\ Passed' \in Nat /\ Passed' <= Passed + PageSize
           /\ Fits => \/ Passed' = Passed + PageSize
                      \/ /\ listing.query.skip = "offset" /\ listing.answers = "sum"
                         /\ Passed' = Passed + n
           /\ listing.query.skip \in {"all", "first"} => Passed = 0 /\ Passed' = 0
<1> DEFINE skip == listing.query.skip
<1>1. PageSize \in Nat
  BY ListingsAssumption
<1>2. Walks'
  <2>1. cursor \in Nat
    BY DEF Walks
  <2>2. cursor' \in Nat
    BY <1>1, <2>1 DEF NextNumber
  <2>3. client = "fromOne" => cursor' >= 1
    <3>1. SUFFICES ASSUME client = "fromOne"
                   PROVE  cursor' >= 1
      OBVIOUS
    <3>2. client # "rows" /\ client # "answer"
      BY <3>1
    <3>3. NextNumber(n) = cursor + 1
      BY <3>2 DEF NextNumber
    <3> QED
      BY <2>1, <3>3
  <2>4. (Fits \/ Repeats)' <=> (Fits \/ Repeats)
    BY DEF Fits, Repeats
  <2> QED
    BY <2>2, <2>3, <2>4 DEF Walks
<1>3. Passed = Skip(skip, cursor) /\ Passed' = Skip(skip, cursor')
  BY DEF Passed
<1>4. CASE Fits /\ skip = "page"
  <2>1. cursor' = cursor + 1
    BY <1>4 DEF Fits, NextNumber
  <2>2. Passed = cursor * PageSize /\ Passed' = (cursor + 1) * PageSize
    BY <1>3, <1>4, <2>1 DEF Skip
  <2>3. cursor \in Nat
    BY DEF Walks
  <2>4. /\ (cursor + 1) * PageSize = cursor * PageSize + PageSize
        /\ cursor * PageSize \in Nat /\ (cursor + 1) * PageSize \in Nat
    BY <1>1, <2>3
  <2> QED
    BY <1>1, <1>2, <1>4, <2>2, <2>4
<1>5. CASE Fits /\ skip = "before"
  <2>1. cursor' = cursor + 1 /\ cursor >= 1 /\ cursor \in Nat
    BY <1>5 DEF Fits, NextNumber, Walks
  <2>2. Passed = (cursor - 1) * PageSize /\ Passed' = cursor * PageSize
    BY <1>3, <1>5, <2>1 DEF Skip
  <2>3. cursor * PageSize = (cursor - 1) * PageSize + PageSize
        /\ (cursor - 1) * PageSize \in Nat /\ cursor * PageSize \in Nat
    BY <1>1, <2>1
  <2> QED
    BY <1>1, <1>2, <1>5, <2>2, <2>3
<1>6. CASE Fits /\ skip = "offset"
  <2>1. Passed = cursor /\ Passed' = cursor'
    BY <1>3, <1>6 DEF Skip
  <2>2. \/ client = "rows" /\ cursor' = cursor + PageSize
        \/ client = "answer" /\ listing.answers = "sum" /\ cursor' = cursor + n
    BY <1>6 DEF Fits, NextNumber
  <2>3. cursor \in Nat /\ cursor' \in Nat
    BY <1>2 DEF Walks
  <2>4. CASE client = "rows" /\ cursor' = cursor + PageSize
    BY <1>1, <1>2, <1>6, <2>1, <2>3, <2>4
  <2>5. CASE client = "answer" /\ listing.answers = "sum" /\ cursor' = cursor + n
    <3>1. n <= PageSize
      BY <1>6, <2>5
    <3> QED
      BY <1>1, <1>2, <1>6, <2>1, <2>3, <2>5, <3>1
  <2> QED
    BY <2>2, <2>4, <2>5
<1>7. CASE ~ Fits
  <2>1. client = "fromNought" /\ skip \in {"before", "all", "first"}
    BY <1>7 DEF Walks, Repeats
  <2>2. cursor' = cursor + 1
    BY <2>1 DEF NextNumber
  <2>3. CASE skip = "before"
    <3>2. cursor \in Nat
      BY DEF Walks
    <3>1. /\ cursor > 0 => Passed = (cursor - 1) * PageSize
          /\ ~ (cursor > 0) => Passed = 0
          /\ Passed' = cursor * PageSize
      <4>1. skip # "page" /\ skip # "offset"
        BY <2>3
      <4>2. cursor > 0 => Passed = (cursor - 1) * PageSize
        BY <1>3, <2>3 DEF Skip
      <4>3. ~ (cursor > 0) => Passed = 0
        BY <1>3, <4>1 DEF Skip
      <4>4. cursor' > 0 /\ cursor' - 1 = cursor
        BY <2>2, <3>2
      <4>5. Passed' = (cursor' - 1) * PageSize
        BY <1>3, <2>3, <4>4 DEF Skip
      <4> QED
        BY <4>2, <4>3, <4>4, <4>5
    <3>3. CASE cursor > 0
      <4>1. cursor * PageSize = (cursor - 1) * PageSize + PageSize
            /\ (cursor - 1) * PageSize \in Nat /\ cursor * PageSize \in Nat
        BY <1>1, <3>2, <3>3
      <4> QED
        BY <1>1, <1>2, <1>7, <2>3, <3>1, <3>3, <4>1
    <3>4. CASE cursor = 0
      BY <1>1, <1>2, <1>7, <2>3, <3>1, <3>4
    <3> QED
      BY <3>2, <3>3, <3>4
  <2>4. CASE skip \in {"all", "first"}
    BY <1>1, <1>2, <1>3, <1>7, <2>4 DEF Skip
  <2> QED
    BY <2>1, <2>3, <2>4
<1> QED
  BY <1>4, <1>5, <1>6, <1>7 DEF Fits

\* Row i is on the page that is read next.
OnPage(i) ==
    /\ i \in DOMAIN rows /\ IsShown(rows[i]) /\ Rank(rows, i) > Passed
    /\ listing.query.skip = "all" \/ Rank(rows, i) <= Passed + PageSize

LEMMA PageIs ==
    ASSUME NEW r
    PROVE  r \in Page <=> \E i \in DOMAIN rows : OnPage(i) /\ rows[i] = r
<1> DEFINE entry(i) == [row |-> rows[i], place |-> Rank(rows, i)]
<1>1. \A e : e \in Listed(rows) <=> \E i \in DOMAIN rows : IsShown(rows[i]) /\ e = entry(i)
  BY Zenon DEF Listed
<1>2. \A i : entry(i).row = rows[i] /\ entry(i).place = Rank(rows, i)
  OBVIOUS
<1>3. r \in Page <=> \E e \in Listed(rows) :
          /\ e.row = r /\ e.place > Passed
          /\ listing.query.skip = "all" \/ e.place <= Passed + PageSize
  BY Zenon DEF Page
<1> HIDE DEF entry
<1> QED
  BY <1>1, <1>2, <1>3 DEF OnPage

\* The ids that a page answers.
AnsweredNow(lost) == Ids({r \in Page : r.is \notin listing.drops}) \ lost

LEMMA SentIs ==
    ASSUME NEW lost, NEW id
    PROVE  id \in AnsweredNow(lost) <=>
               /\ id \notin lost
               /\ \E i \in DOMAIN rows :
                     OnPage(i) /\ rows[i].id = id /\ rows[i].is \notin listing.drops
BY PageIs DEF AnsweredNow, Ids

\* The rows that were answered and may be answered again, and the rows that
\* were there all the time, were not answered and are behind the client.
Repeatable ==
    {id \in seen \ moves.changed : \E i \in DOMAIN rows :
        Shows(rows, i, id) /\ Rank(rows, i) > Passed}

Skipped ==
    {id \in Steady \ seen : \E i \in DOMAIN rows :
        Shows(rows, i, id) /\ Rank(rows, i) <= Passed}

CountedMoves(moved) ==
    moved \in [left : Nat, front : Nat, changed : SUBSET Nat, lost : Nat, blank : BOOLEAN]

ListingsBase ==
    /\ Walks /\ IsTable(rows) /\ CountedMoves(moves)
    /\ pages \in 0 .. MaxPages /\ ended \in BOOLEAN
    /\ again \subseteq seen
    /\ seen \cup start \subseteq {rows[i].id : i \in DOMAIN rows}

\* What was skipped left the pages of before, or was lost.  What was answered
\* and is to be answered again was pushed back.
ListingsInv ==
    /\ ListingsBase
    /\ Cardinality(Skipped) <= moves.left + moves.lost
    /\ Fits => Cardinality((again \ moves.changed) \cup Repeatable) <= moves.front
    /\ NothingMissedUnlessLeft

LEMMA SteadyIs ==
    ASSUME NEW id
    PROVE  id \in Steady <=>
               /\ id \in start \ moves.changed
               /\ \E i \in DOMAIN rows : Shows(rows, i, id) /\ rows[i].is \notin listing.drops
BY DEF Steady, Shows

LEMMA SeenIsFinite ==
    ASSUME ListingsBase
    PROVE  /\ seen \subseteq 1 .. Len(rows) /\ start \subseteq 1 .. Len(rows)
           /\ \A S : S \subseteq 1 .. Len(rows) => IsFiniteSet(S) /\ Cardinality(S) \in Nat
           /\ IsFiniteSet(Skipped) /\ IsFiniteSet((again \ moves.changed) \cup Repeatable)
           /\ Cardinality(Skipped) \in Nat
           /\ Cardinality((again \ moves.changed) \cup Repeatable) \in Nat
<1>1. seen \subseteq 1 .. Len(rows) /\ start \subseteq 1 .. Len(rows)
  BY TableIs DEF ListingsBase
<1>2. IsFiniteSet(1 .. Len(rows))
  BY TableIs, FS_Interval DEF ListingsBase
<1>3. \A S : S \subseteq 1 .. Len(rows) => IsFiniteSet(S) /\ Cardinality(S) \in Nat
  BY <1>2, FS_Subset, FS_CardinalityType
<1>4. Skipped \subseteq 1 .. Len(rows)
  BY <1>1, SteadyIs DEF Skipped
<1>5. (again \ moves.changed) \cup Repeatable \subseteq 1 .. Len(rows)
  BY <1>1 DEF Repeatable, ListingsBase
<1> QED
  BY <1>1, <1>3, <1>4, <1>5

LEMMA PassedIsNat ==
    ASSUME ListingsBase
    PROVE  Passed \in Nat
<1>1. Walks /\ PageSize \in Nat
  BY ListingsAssumption DEF ListingsBase
<1>2. cursor * PageSize \in Nat /\ (cursor > 0 => (cursor - 1) * PageSize \in Nat)
  BY <1>1 DEF Walks
<1> QED
  BY <1>1, <1>2 DEF Walks, Passed, Skip

\* What a page answers lies behind the client afterwards; it is a page at most.
LEMMA SentIsPassed ==
    ASSUME ListingsBase, NEW lost, lost # {} => listing.loses
    PROVE  /\ AnsweredNow(lost) \subseteq 1 .. Len(rows)
           /\ listing.query.skip # "all" => Cardinality(AnsweredNow(lost)) <= PageSize
           /\ Fits /\ listing.query.skip = "offset" /\ listing.answers = "sum" =>
                 \A i \in DOMAIN rows : IsShown(rows[i]) /\ rows[i].id \in AnsweredNow(lost) =>
                     Rank(rows, i) <= Passed + Cardinality(AnsweredNow(lost))
<1> DEFINE sent == AnsweredNow(lost)
<1>1. IsTable(rows) /\ Passed \in Nat /\ PageSize \in Nat /\ listing \in Handlers
  BY PassedIsNat, ListingsAssumption DEF ListingsBase, Walks
<1>2. ASSUME NEW id \in sent
      PROVE  \E i \in DOMAIN rows : OnPage(i) /\ Shows(rows, i, id)
  BY SentIs DEF OnPage, Shows
<1>3. sent \subseteq 1 .. Len(rows)
  BY <1>1, <1>2, TableIs DEF Shows
<1>4. IsFiniteSet(sent) /\ Cardinality(sent) \in Nat
  BY <1>3, SeenIsFinite
<1>5. ASSUME listing.query.skip # "all"
      PROVE  Cardinality(sent) <= PageSize
  <2>1. sent \subseteq Between(rows, Passed, PageSize)
    BY <1>2, <1>3, <1>5 DEF Between, OnPage
  <2>2. /\ IsFiniteSet(Between(rows, Passed, PageSize))
        /\ Cardinality(Between(rows, Passed, PageSize)) \in Nat
        /\ Cardinality(Between(rows, Passed, PageSize)) <= PageSize
    BY <1>1, PlacesBound
  <2>3. Cardinality(sent) <= Cardinality(Between(rows, Passed, PageSize))
    BY <2>1, <2>2, FS_Subset
  <2> QED
    BY <1>1, <1>4, <2>2, <2>3
<1>6. ASSUME Fits, listing.query.skip = "offset", listing.answers = "sum",
             NEW i \in DOMAIN rows, IsShown(rows[i]), rows[i].id \in sent
      PROVE  Rank(rows, i) <= Passed + Cardinality(sent)
  <2>1. lost = {} /\ listing.drops = {}
    <3>1. lost = {} /\ (listing.drops = {} \/ listing.drops = Kinds)
      BY <1>1, <1>6, HandlersAre
    <3>2. PICK j \in DOMAIN rows : rows[j].id = rows[i].id /\ rows[j].is \notin listing.drops
      BY <1>6, SentIs
    <3>3. rows[j].is \in Kinds
      BY <1>1, TableIs DEF TableRow
    <3> QED
      BY <3>1, <3>2, <3>3
  <2>2. OnPage(i)
    <3>1. PICK j \in DOMAIN rows : OnPage(j) /\ Shows(rows, j, rows[i].id)
      BY <1>2, <1>6
    <3>2. j = i
      BY <1>1, <3>1 DEF Shows, IsTable
    <3> QED
      BY <3>1, <3>2
  <2>3. UpTo(rows, i) \subseteq Between(rows, 0, Passed) \cup sent
    <3> SUFFICES ASSUME NEW id \in UpTo(rows, i), id \notin Between(rows, 0, Passed)
                 PROVE  id \in sent
      OBVIOUS
    <3>1. PICK j \in 1 .. i : Shows(rows, j, id)
      BY <1>1, UpToIs
    <3>2. j \in DOMAIN rows /\ IsShown(rows[j]) /\ rows[j].id = id /\ j \in Nat /\ i \in Nat
      BY <1>1, <3>1, TableIs DEF Shows
    <3>3. Rank(rows, j) \in Nat /\ Rank(rows, j) >= 1 /\ id \in 1 .. Len(rows)
      BY <1>1, <3>2, RankIsPositive, TableIs
    <3>4. ~ (Rank(rows, j) <= Passed)
      BY <1>1, <3>1, <3>2, <3>3 DEF Between
    <3>5. Rank(rows, j) <= Rank(rows, i) /\ Rank(rows, i) \in Nat
      <4>1. CASE j = i
        BY <3>3, <4>1
      <4>2. CASE j < i
        BY <1>1, <1>6, <3>2, <3>3, <4>2, RankGrows, UpToIs
      <4> QED
        BY <3>1, <3>2, <4>1, <4>2
    <3>6. OnPage(j)
      BY <1>1, <1>6, <2>2, <3>2, <3>3, <3>4, <3>5 DEF OnPage
    <3> QED
      BY <2>1, <3>2, <3>6, SentIs
  <2>4. /\ IsFiniteSet(Between(rows, 0, Passed)) /\ Cardinality(Between(rows, 0, Passed)) \in Nat
        /\ Cardinality(Between(rows, 0, Passed)) <= Passed
    BY <1>1, PlacesBound
  <2>5. /\ IsFiniteSet(Between(rows, 0, Passed) \cup sent)
        /\ Cardinality(Between(rows, 0, Passed) \cup sent) <= Passed + Cardinality(sent)
        /\ Cardinality(Between(rows, 0, Passed) \cup sent) \in Nat
    <3>1. /\ IsFiniteSet(Between(rows, 0, Passed) \cup sent)
          /\ Cardinality(Between(rows, 0, Passed) \cup sent)
                = Cardinality(Between(rows, 0, Passed)) + Cardinality(sent)
                  - Cardinality(Between(rows, 0, Passed) \cap sent)
      BY <1>4, <2>4, FS_Union
    <3>2. Cardinality(Between(rows, 0, Passed) \cap sent) \in Nat
      BY <1>4, FS_Intersection, FS_CardinalityType
    <3> QED
      BY <1>1, <1>4, <2>4, <3>1, <3>2, FS_CardinalityType
  <2>6. Cardinality(UpTo(rows, i)) <= Cardinality(Between(rows, 0, Passed) \cup sent)
    BY <2>3, <2>5, FS_Subset
  <2> QED
    BY <1>1, <1>4, <2>5, <2>6, UpToIs DEF Rank
<1> QED
  BY <1>3, <1>5, <1>6

LEMMA PageIsAnswered ==
    ASSUME ListingsInv, NEW lost, IsFiniteSet(lost), lost # {} => listing.loses, Answers(lost)
    PROVE  ListingsInv'
<1> DEFINE sent == AnsweredNow(lost)
<1>1. /\ ~ ended /\ pages < MaxPages /\ pages' = pages + 1
      /\ cursor' = NextNumber(Cardinality(sent))
      /\ seen' = seen \cup sent /\ again' = again \cup (seen \cap sent)
      /\ ended' = (sent = {})
      /\ moves' = [moves EXCEPT !.lost = @ + Cardinality(lost),
                               !.blank = @ \/ (sent = {} /\ Page # {})]
      /\ UNCHANGED <<listing, client, rows, start>>
  BY DEF Answers, AnsweredNow
<1>2. ListingsBase /\ Walks /\ IsTable(rows) /\ CountedMoves(moves) /\ MaxPages \in Nat
      /\ PageSize \in Nat \ {0}
  BY ListingsAssumption DEF ListingsInv, ListingsBase
<1>3. /\ sent \subseteq 1 .. Len(rows) /\ IsFiniteSet(sent) /\ Cardinality(sent) \in Nat
      /\ listing.query.skip # "all" => Cardinality(sent) <= PageSize
  BY <1>2, SentIsPassed, SeenIsFinite
<1>4. /\ Walks'
      /\ Passed \in Nat /\ Passed' \in Nat /\ Passed' <= Passed + PageSize
      /\ Fits => \/ Passed' = Passed + PageSize
                 \/ /\ listing.query.skip = "offset" /\ listing.answers = "sum"
                    /\ Passed' = Passed + Cardinality(sent)
      /\ listing.query.skip \in {"all", "first"} => Passed = 0 /\ Passed' = 0
  <2>1. Fits /\ client = "answer" => listing.query.skip # "all"
    BY DEF Fits
  <2> QED
    BY <1>1, <1>2, <1>3, <2>1, PassedGrows
<1>5. /\ Cardinality(lost) \in Nat
      /\ CountedMoves(moves')
      /\ moves'.left = moves.left /\ moves'.front = moves.front
      /\ moves'.changed = moves.changed
      /\ moves'.lost = moves.lost + Cardinality(lost)
      /\ moves'.blank = (moves.blank \/ (sent = {} /\ Page # {}))
  <2>1. Cardinality(lost) \in Nat
    BY FS_CardinalityType
  <2> DEFINE gone == sent = {} /\ Page # {}
  <2>2. moves \in [left : Nat, front : Nat, changed : SUBSET Nat, lost : Nat, blank : BOOLEAN]
    BY <1>2 DEF CountedMoves
  <2>3. moves' = [moves EXCEPT !.lost = @ + Cardinality(lost), !.blank = @ \/ gone]
    BY <1>1
  <2>4. gone \in BOOLEAN
    OBVIOUS
  <2> HIDE DEF gone
  <2>5. /\ moves'.left = moves.left /\ moves'.front = moves.front
        /\ moves'.changed = moves.changed
        /\ moves'.lost = moves.lost + Cardinality(lost)
    BY <2>2, <2>3
  <2>6. moves'.blank = (moves.blank \/ gone)
    BY <2>2, <2>3, <2>4
  <2>7. CountedMoves(moves')
    <3>1. PICK n \in Nat, b \in BOOLEAN : moves' = [moves EXCEPT !.lost = n, !.blank = b]
      <4>1. moves.lost + Cardinality(lost) \in Nat /\ (moves.blank \/ gone) \in BOOLEAN
        BY <2>1, <2>2
      <4> QED
        BY <2>3, <4>1
    <3> QED
      BY <2>2, <3>1 DEF CountedMoves
  <2> QED
    BY <2>1, <2>5, <2>6, <2>7 DEF gone
<1>6. sent \subseteq {rows[i].id : i \in DOMAIN rows}
  BY SentIs
<1> HIDE DEF sent
<1>7. ListingsBase'
  BY <1>1, <1>2, <1>4, <1>5, <1>6 DEF ListingsBase, IsTable
<1>8. /\ \A i : IsShown(rows[i])' <=> IsShown(rows[i])
      /\ \A i : Rank(rows, i)' = Rank(rows, i)
      /\ \A i, id : Shows(rows, i, id)' <=> Shows(rows, i, id)
      /\ Fits' <=> Fits
  BY <1>1 DEF IsShown, Rank, UpTo, Ids, Shows, Fits
<1>9. Steady' = Steady
  BY <1>1, <1>5, <1>8 DEF Steady
<1>10. ASSUME NEW id \in Steady, NEW i \in DOMAIN rows, OnPage(i), Shows(rows, i, id)
       PROVE  id \in sent \cup lost
  <2>1. PICK j \in DOMAIN rows : Shows(rows, j, id) /\ rows[j].is \notin listing.drops
    BY SteadyIs
  <2>2. i = j
    BY <1>2, <1>10, <2>1 DEF Shows, IsTable
  <2> QED
    BY <1>10, <2>1, <2>2, SentIs DEF Shows, sent
<1>11. Skipped' \subseteq Skipped \cup lost
  <2> SUFFICES ASSUME NEW id \in Skipped', id \notin Skipped
               PROVE  id \in lost
    OBVIOUS
  <2>1. id \in Steady /\ id \notin seen /\ id \notin sent
    BY <1>1, <1>9 DEF Skipped
  <2>2. PICK i \in DOMAIN rows : Shows(rows, i, id) /\ Rank(rows, i) <= Passed'
    BY <1>1, <1>8 DEF Skipped
  <2>3. ~ (Rank(rows, i) <= Passed) /\ Rank(rows, i) \in Nat /\ Rank(rows, i) >= 1
    BY <1>2, <2>1, <2>2, RankIsPositive DEF Skipped, Shows
  <2>4. OnPage(i)
    BY <1>2, <1>4, <2>2, <2>3 DEF OnPage, Shows
  <2> QED
    BY <1>10, <2>1, <2>2, <2>4
<1>12. Cardinality(Skipped') <= moves'.left + moves'.lost
  <2>1. IsFiniteSet(Skipped) /\ Cardinality(Skipped) \in Nat
        /\ Cardinality(Skipped) <= moves.left + moves.lost
    BY <1>2, SeenIsFinite DEF ListingsInv
  <2>2. /\ IsFiniteSet(Skipped \cup lost)
        /\ Cardinality(Skipped \cup lost)
              = Cardinality(Skipped) + Cardinality(lost) - Cardinality(Skipped \cap lost)
        /\ Cardinality(Skipped \cap lost) \in Nat
    BY <2>1, FS_Union, FS_Intersection, FS_CardinalityType
  <2>3. IsFiniteSet(Skipped') /\ Cardinality(Skipped') <= Cardinality(Skipped \cup lost)
    BY <1>11, <2>2, FS_Subset
  <2>4. Cardinality(Skipped') \in Nat /\ moves.left \in Nat /\ moves.lost \in Nat
    BY <1>2, <2>3, FS_CardinalityType DEF CountedMoves
  <2> QED
    BY <1>5, <2>1, <2>2, <2>3, <2>4
<1>13. ASSUME Fits
       PROVE  Cardinality((again \ moves.changed) \cup Repeatable)' <= moves'.front
  <2>1. ASSUME NEW i \in DOMAIN rows, IsShown(rows[i]), rows[i].id \in sent
        PROVE  Rank(rows, i) > Passed /\ Rank(rows, i) <= Passed'
    <3>1. PICK j \in DOMAIN rows : OnPage(j) /\ rows[j].id = rows[i].id
      BY <2>1, SentIs DEF sent
    <3>2. OnPage(i)
      BY <1>2, <3>1 DEF IsTable
    <3>3. Rank(rows, i) > Passed /\ Rank(rows, i) \in Nat
      BY <1>2, <3>2, UpToIs DEF OnPage
    <3>4. CASE Passed' = Passed + PageSize
      <4>1. listing.query.skip # "all"
        BY <1>13 DEF Fits
      <4> QED
        BY <3>2, <3>3, <3>4, <4>1 DEF OnPage
    <3>5. CASE /\ listing.query.skip = "offset" /\ listing.answers = "sum"
               /\ Passed' = Passed + Cardinality(sent)
      BY <1>2, <1>13, <2>1, <3>3, <3>5, SentIsPassed DEF sent
    <3> QED
      BY <1>4, <1>13, <3>4, <3>5
  <2>2. ASSUME NEW id \in sent
        PROVE  \E i \in DOMAIN rows : Shows(rows, i, id)
    BY SentIs DEF sent, OnPage, Shows
  <2>3. (again \ moves.changed)' \subseteq (again \ moves.changed) \cup Repeatable
    <3> SUFFICES ASSUME NEW id \in seen \cap sent, id \notin moves.changed
                 PROVE  id \in Repeatable
      BY <1>1, <1>5
    <3>1. PICK i \in DOMAIN rows : Shows(rows, i, id)
      BY <2>2
    <3>2. Rank(rows, i) > Passed
      BY <2>1, <3>1 DEF Shows
    <3> QED
      BY <3>1, <3>2 DEF Repeatable
  <2>4. Repeatable' \subseteq Repeatable
    <3> SUFFICES ASSUME NEW id \in Repeatable'
                 PROVE  id \in Repeatable
      OBVIOUS
    <3>1. id \in seen \cup sent /\ id \notin moves.changed
      BY <1>1, <1>5 DEF Repeatable
    <3>2. PICK i \in DOMAIN rows : Shows(rows, i, id) /\ Rank(rows, i) > Passed'
      BY <1>1, <1>8 DEF Repeatable
    <3>3. Rank(rows, i) \in Nat
      BY <1>2, UpToIs
    <3>4. id \notin sent
      BY <1>4, <2>1, <3>2, <3>3 DEF Shows
    <3>5. Passed <= Passed'
      BY <1>2, <1>3, <1>4, <1>13
    <3>6. Rank(rows, i) > Passed
      BY <1>4, <3>2, <3>3, <3>5
    <3> QED
      BY <3>1, <3>2, <3>4, <3>6 DEF Repeatable
  <2>5. ((again \ moves.changed) \cup Repeatable)' \subseteq (again \ moves.changed) \cup Repeatable
    BY <2>3, <2>4
  <2>6. /\ IsFiniteSet((again \ moves.changed) \cup Repeatable)
        /\ Cardinality((again \ moves.changed) \cup Repeatable) \in Nat
        /\ Cardinality((again \ moves.changed) \cup Repeatable) <= moves.front
    BY <1>2, <1>13, SeenIsFinite DEF ListingsInv
  <2>7. /\ IsFiniteSet(((again \ moves.changed) \cup Repeatable)')
        /\ Cardinality(((again \ moves.changed) \cup Repeatable)')
              <= Cardinality((again \ moves.changed) \cup Repeatable)
    BY <2>5, <2>6, FS_Subset
  <2>8. moves.front \in Nat /\ Cardinality(((again \ moves.changed) \cup Repeatable)') \in Nat
    BY <1>2, <2>7, FS_CardinalityType DEF CountedMoves
  <2> QED
    BY <1>5, <2>6, <2>7, <2>8
<1>14. NothingMissedUnlessLeft'
  <2>1. ASSUME sent = {}, Page = {}, listing.query.skip # "first"
        PROVE  Cardinality(Steady' \ seen') <= moves'.left + moves'.lost
    <3>1. ASSUME NEW id \in Steady \ seen
          PROVE  id \in Skipped
      <4>1. PICK i \in DOMAIN rows : Shows(rows, i, id)
        BY SteadyIs
      <4>2. Rank(rows, i) \in Nat /\ Rank(rows, i) >= 1 /\ IsShown(rows[i])
        BY <1>2, <4>1, RankIsPositive DEF Shows
      <4>3. ~ (Rank(rows, i) > Passed)
        <5> SUFFICES ASSUME Rank(rows, i) > Passed
                     PROVE  FALSE
          OBVIOUS
        <5>1. PICK j \in DOMAIN rows : IsShown(rows[j]) /\ Rank(rows, j) = Passed + 1
          BY <1>2, <1>4, <4>2, PlacesAreFilled
        <5>2. OnPage(j)
          BY <1>2, <1>4, <5>1 DEF OnPage
        <5> QED
          BY <2>1, <5>2, PageIs
      <4> QED
        BY <1>4, <4>1, <4>2, <4>3 DEF Skipped
    <3>2. Steady \ seen \subseteq Skipped
      BY <3>1
    <3>3. Steady' \ seen' = Steady \ seen
      BY <1>1, <1>9, <2>1
    <3>4. IsFiniteSet(Skipped) /\ Cardinality(Skipped) \in Nat
          /\ Cardinality(Skipped) <= moves.left + moves.lost
      BY <1>2, SeenIsFinite DEF ListingsInv
    <3>5. /\ IsFiniteSet(Steady \ seen) /\ Cardinality(Steady \ seen) <= Cardinality(Skipped)
          /\ Cardinality(Steady \ seen) \in Nat
      BY <3>2, <3>4, FS_Subset, FS_CardinalityType
    <3>6. moves.left \in Nat /\ moves.lost \in Nat
      BY <1>2 DEF CountedMoves
    <3> QED
      BY <1>5, <3>3, <3>4, <3>5, <3>6
  <2>2. ASSUME listing.query.skip = "all"
        PROVE  Steady' \subseteq seen'
    <3> SUFFICES ASSUME NEW id \in Steady
                 PROVE  id \in sent
      BY <1>1, <1>9
    <3>1. PICK i \in DOMAIN rows : Shows(rows, i, id)
      BY SteadyIs
    <3>2. Rank(rows, i) \in Nat /\ Rank(rows, i) >= 1 /\ IsShown(rows[i])
      BY <1>2, <3>1, RankIsPositive DEF Shows
    <3>3. OnPage(i)
      BY <1>4, <2>2, <3>2 DEF OnPage
    <3>4. lost = {}
      BY <1>2, <2>2, HandlersAre DEF Walks
    <3> QED
      BY <1>10, <3>1, <3>3, <3>4
  <2>3. ended' /\ ~ moves'.blank => sent = {} /\ Page = {}
    BY <1>1, <1>5
  <2> QED
    BY <1>1, <2>1, <2>2, <2>3 DEF NothingMissedUnlessLeft
<1> QED
  BY <1>7, <1>8, <1>12, <1>13, <1>14 DEF ListingsInv

\* The set grows by one at most, and only if it is counted.
LEMMA OneMore ==
    ASSUME NEW S, NEW T, NEW C, IsFiniteSet(S), IsFiniteSet(C), T \subseteq S \cup C,
           Cardinality(C) \in 0 .. 1, NEW n \in Nat, Cardinality(S) <= n,
           NEW counted \in BOOLEAN, C # {} => counted
    PROVE  Cardinality(T) <= n + (IF counted THEN 1 ELSE 0)
<1>1. /\ IsFiniteSet(S \cup C) /\ Cardinality(S \cap C) \in Nat
      /\ Cardinality(S \cup C) = Cardinality(S) + Cardinality(C) - Cardinality(S \cap C)
      /\ Cardinality(S) \in Nat
  BY FS_Union, FS_Intersection, FS_CardinalityType
<1>2. /\ Cardinality(T) <= Cardinality(S \cup C) /\ Cardinality(T) \in Nat
      /\ Cardinality(S \cup C) \in Nat
  BY <1>1, FS_Subset, FS_CardinalityType
<1>3. C = {} => Cardinality(C) = 0
  BY FS_EmptySet
<1> QED
  BY <1>1, <1>2, <1>3

LEMMA RowsMove ==
    ASSUME ListingsInv, NEW table, NEW id \in Nat, NEW leaves \in BOOLEAN, NEW enters \in BOOLEAN,
           Moves(table, id, leaves, enters), IsTable(table), AllBut(rows, table, id),
           {rows[i].id : i \in DOMAIN rows} \subseteq {table[k].id : k \in DOMAIN table},
           ComesIn(rows, table, id, Passed) => enters, ComesIn(table, rows, id, Passed) => leaves
    PROVE  ListingsInv'
<1>1. /\ ~ ended /\ rows' = table
      /\ moves' = [moves EXCEPT !.left = @ + (IF leaves THEN 1 ELSE 0),
                               !.front = @ + (IF enters THEN 1 ELSE 0),
                               !.changed = @ \cup {id}]
      /\ UNCHANGED <<listing, client, pages, cursor, start, seen, again, ended>>
  BY DEF Moves
<1>2. ListingsBase /\ Walks /\ IsTable(rows) /\ CountedMoves(moves)
  BY DEF ListingsInv, ListingsBase
<1>3. /\ CountedMoves(moves')
      /\ moves'.left = moves.left + (IF leaves THEN 1 ELSE 0)
      /\ moves'.front = moves.front + (IF enters THEN 1 ELSE 0)
      /\ moves'.lost = moves.lost /\ moves'.changed = moves.changed \cup {id}
  <2>1. moves \in [left : Nat, front : Nat, changed : SUBSET Nat, lost : Nat, blank : BOOLEAN]
    BY <1>2 DEF CountedMoves
  <2>2. PICK m \in Nat, n \in Nat, changed \in SUBSET Nat :
            /\ m = moves.left + (IF leaves THEN 1 ELSE 0)
            /\ n = moves.front + (IF enters THEN 1 ELSE 0)
            /\ changed = moves.changed \cup {id}
    <3>1. moves.left \in Nat /\ moves.front \in Nat /\ moves.changed \subseteq Nat
      BY <2>1
    <3>2. /\ moves.left + (IF leaves THEN 1 ELSE 0) \in Nat
          /\ moves.front + (IF enters THEN 1 ELSE 0) \in Nat
      BY <3>1
    <3>3. moves.changed \cup {id} \in SUBSET Nat
      BY <3>1
    <3> QED
      BY <3>2, <3>3
  <2>3. moves' = [moves EXCEPT !.left = m, !.front = n, !.changed = changed]
    BY <1>1, <2>2
  <2>4. CountedMoves(moves')
    BY <2>1, <2>3 DEF CountedMoves
  <2> QED
    BY <2>1, <2>2, <2>3, <2>4
<1>4. Passed \in Nat /\ Passed' = Passed
  BY <1>1, <1>2, PassedIsNat DEF Passed
<1>5. ListingsBase'
  <2>1. Walks'
    BY <1>1, <1>2 DEF Walks, Fits, Repeats
  <2>2. IsTable(rows)'
    BY <1>1 DEF IsTable
  <2>3. (seen \cup start \subseteq {rows[i].id : i \in DOMAIN rows})'
    BY <1>1, <1>2 DEF ListingsBase
  <2> QED
    BY <1>1, <1>2, <1>3, <2>1, <2>2, <2>3 DEF ListingsBase
<1>6. /\ \A i : IsShown(rows[i])' <=> IsShown(table[i])
      /\ \A i : Rank(rows, i)' = Rank(table, i)
      /\ \A i, x : Shows(rows, i, x)' <=> Shows(table, i, x)
      /\ Fits' <=> Fits
  BY <1>1 DEF IsShown, Rank, UpTo, Ids, Shows, Fits
<1>7. ASSUME NEW k \in DOMAIN table, NEW x, x # id, Shows(table, k, x)
      PROVE  \E i \in DOMAIN rows :
                 /\ rows[i] = table[k] /\ Shows(rows, i, x)
                 /\ UpTo(rows, i) \ {id} = UpTo(table, k) \ {id}
  BY <1>7 DEF AllBut, Shows
<1>8. Steady' \subseteq Steady
  <2> SUFFICES ASSUME NEW x \in Steady'
               PROVE  x \in Steady
    OBVIOUS
  <2>1. x \in start /\ x \notin moves.changed /\ x # id
    BY <1>1, <1>3 DEF Steady
  <2>2. PICK k \in DOMAIN table : Shows(table, k, x) /\ table[k].is \notin listing.drops
    BY <1>1, <1>6 DEF Steady, Shows
  <2>3. PICK i \in DOMAIN rows : rows[i] = table[k] /\ Shows(rows, i, x)
    BY <1>7, <2>1, <2>2
  <2> QED
    BY <2>1, <2>2, <2>3, SteadyIs
<1>9. Skipped' \subseteq Skipped \cup Crosses(table, rows, id, Passed)
  <2> SUFFICES ASSUME NEW x \in Skipped', x \notin Skipped
               PROVE  x \in Crosses(table, rows, id, Passed)
    OBVIOUS
  <2>1. x \in Steady /\ x \notin seen /\ x # id
    BY <1>1, <1>3, <1>8 DEF Skipped, Steady
  <2>2. PICK k \in DOMAIN table : Shows(table, k, x) /\ Rank(table, k) <= Passed
    BY <1>1, <1>4, <1>6 DEF Skipped
  <2>3. PICK i \in DOMAIN rows : /\ rows[i] = table[k] /\ Shows(rows, i, x)
                                /\ UpTo(rows, i) \ {id} = UpTo(table, k) \ {id}
    BY <1>7, <2>1, <2>2
  <2>4. Rank(rows, i) > Passed /\ x \in Nat
    BY <1>2, <1>4, <2>1, <2>3, UpToIs, TableIs DEF Skipped, Shows
  <2> QED
    BY <2>1, <2>2, <2>3, <2>4 DEF Crosses
<1>10. ((again \ moves.changed) \cup Repeatable)'
          \subseteq ((again \ moves.changed) \cup Repeatable) \cup Crosses(rows, table, id, Passed)
  <2> SUFFICES ASSUME NEW x \in Repeatable', x \notin Repeatable
               PROVE  x \in Crosses(rows, table, id, Passed)
    BY <1>1, <1>3
  <2>1. x \in seen /\ x \notin moves.changed /\ x # id
    BY <1>1, <1>3 DEF Repeatable
  <2>2. PICK k \in DOMAIN table : Shows(table, k, x) /\ Rank(table, k) > Passed
    BY <1>1, <1>4, <1>6 DEF Repeatable
  <2>3. PICK i \in DOMAIN rows : /\ rows[i] = table[k] /\ Shows(rows, i, x)
                                /\ UpTo(rows, i) \ {id} = UpTo(table, k) \ {id}
    BY <1>7, <2>1, <2>2
  <2>4. Rank(rows, i) <= Passed /\ x \in Nat
    BY <1>2, <1>4, <2>1, <2>3, UpToIs, TableIs DEF Repeatable, Shows
  <2> QED
    BY <2>1, <2>2, <2>3, <2>4 DEF Crosses
<1>11. Cardinality(Skipped') <= moves'.left + moves'.lost
  <2>1. /\ IsFiniteSet(Skipped) /\ Cardinality(Skipped) <= moves.left + moves.lost
        /\ moves.left \in Nat /\ moves.lost \in Nat
    BY <1>2, SeenIsFinite DEF ListingsInv, CountedMoves
  <2>2. /\ IsFiniteSet(Crosses(table, rows, id, Passed))
        /\ Cardinality(Crosses(table, rows, id, Passed)) \in 0 .. 1
        /\ Crosses(table, rows, id, Passed) # {} => leaves
    BY <1>2, <1>4, OneCrosses
  <2>3. moves.left + moves.lost \in Nat
    BY <2>1
  <2>4. Cardinality(Skipped') <= moves.left + moves.lost + (IF leaves THEN 1 ELSE 0)
    BY <1>9, <2>1, <2>2, <2>3, OneMore
  <2> QED
    BY <1>3, <2>1, <2>4
<1>12. ASSUME Fits
       PROVE  Cardinality((again \ moves.changed) \cup Repeatable)' <= moves'.front
  <2>1. /\ IsFiniteSet((again \ moves.changed) \cup Repeatable)
        /\ Cardinality((again \ moves.changed) \cup Repeatable) <= moves.front
        /\ moves.front \in Nat
    BY <1>2, <1>12, SeenIsFinite DEF ListingsInv, CountedMoves
  <2>2. /\ IsFiniteSet(Crosses(rows, table, id, Passed))
        /\ Cardinality(Crosses(rows, table, id, Passed)) \in 0 .. 1
        /\ Crosses(rows, table, id, Passed) # {} => enters
    BY <1>2, <1>4, OneCrosses
  <2> QED
    BY <1>3, <1>10, <2>1, <2>2, OneMore
<1>13. NothingMissedUnlessLeft'
  <2>1. pages > 0 /\ listing.query.skip = "all" => Steady \subseteq seen
    BY DEF ListingsInv, NothingMissedUnlessLeft
  <2> QED
    BY <1>1, <1>8, <2>1 DEF NothingMissedUnlessLeft
<1> QED
  BY <1>5, <1>6, <1>11, <1>12, <1>13 DEF ListingsInv

LEMMA SameUpTo ==
    ASSUME NEW t, NEW u, IsTable(t), IsTable(u), NEW i \in DOMAIN t, NEW k \in DOMAIN u, NEW m,
           \A x : x # m =>
               ((\E j \in 1 .. i : Shows(t, j, x)) <=> (\E j \in 1 .. k : Shows(u, j, x)))
    PROVE  UpTo(t, i) \ {m} = UpTo(u, k) \ {m}
BY UpToIs

LEMMA PutInFront ==
    ASSUME NEW R, NEW s \in Seq(R), NEW r \in R
    PROVE  /\ <<r>> \o s \in Seq(R) /\ Len(<<r>> \o s) = Len(s) + 1
           /\ DOMAIN (<<r>> \o s) = 1 .. Len(s) + 1 /\ (<<r>> \o s)[1] = r
           /\ \A i \in 1 .. Len(s) : (<<r>> \o s)[i + 1] = s[i]
OBVIOUS

LEMMA PutBehind ==
    ASSUME NEW R, NEW s \in Seq(R), NEW r \in R
    PROVE  /\ Append(s, r) \in Seq(R) /\ Len(Append(s, r)) = Len(s) + 1
           /\ DOMAIN Append(s, r) = 1 .. Len(s) + 1 /\ Append(s, r)[Len(s) + 1] = r
           /\ \A i \in 1 .. Len(s) : Append(s, r)[i] = s[i]
OBVIOUS

LEMMA RowIsAdded ==
    ASSUME ListingsInv, NEW kind \in Public, AddRow(kind)
    PROVE  ListingsInv'
<1> DEFINE r == [id |-> Len(rows) + 1, is |-> kind]
           m == Len(rows) + 1
           inFront == listing.query.order \in {"newest", "touchedFirst"}
           table == IF inFront THEN <<r>> \o rows ELSE Append(rows, r)
           enters == inFront /\ IsShown(r) /\ Passed > 0
<1>1. IsTable(rows) /\ rows \in Seq(TableRow) /\ Len(rows) \in Nat
      /\ DOMAIN rows = 1 .. Len(rows) /\ r \in TableRow /\ m \in Nat
  <2>1. IsTable(rows) /\ rows \in Seq(TableRow) /\ Len(rows) \in Nat
        /\ DOMAIN rows = 1 .. Len(rows)
    BY TableIs DEF ListingsInv, ListingsBase, IsTable
  <2> QED
    BY <2>1 DEF TableRow, Public, Kinds
<1>2. Moves(table, m, FALSE, enters)
  BY DEF AddRow
<1>3. enters \in BOOLEAN
  OBVIOUS
<1>4. CASE inFront
  <2>1. table = <<r>> \o rows
    BY <1>4
  <2>2. /\ table \in Seq(TableRow) /\ Len(table) = Len(rows) + 1
        /\ DOMAIN table = 1 .. Len(rows) + 1 /\ table[1] = r
        /\ \A i \in 1 .. Len(rows) : table[i + 1] = rows[i]
    <3> HIDE DEF r
    <3> QED
      BY <1>1, <2>1, PutInFront
  <2> HIDE DEF table, enters
  <2>3. \A k \in DOMAIN table \ {1} : k - 1 \in 1 .. Len(rows) /\ table[k] = rows[k - 1]
    <3> SUFFICES ASSUME NEW k \in DOMAIN table, k # 1
                 PROVE  k - 1 \in 1 .. Len(rows) /\ table[k] = rows[k - 1]
      OBVIOUS
    <3>1. k - 1 \in 1 .. Len(rows) /\ (k - 1) + 1 = k
      BY <1>1, <2>2
    <3> QED
      BY <2>2, <3>1
  <2>4. \A i \in DOMAIN rows : rows[i].id \in 1 .. Len(rows) /\ rows[i].id # m
    BY <1>1, TableIs
  <2>5. IsTable(table)
    <3>1. \A k \in DOMAIN table : table[k].id \in 1 .. Len(table)
      <4> SUFFICES ASSUME NEW k \in DOMAIN table
                   PROVE  table[k].id \in 1 .. Len(rows) + 1
        BY <2>2
      <4>1. CASE k = 1
        BY <1>1, <2>2, <4>1
      <4>2. CASE k # 1
        <5>1. table[k].id \in 1 .. Len(rows)
          BY <1>1, <2>3, <2>4, <4>2
        <5> QED
          BY <1>1, <5>1
      <4> QED
        BY <4>1, <4>2
    <3>2. \A j, k \in DOMAIN table : table[j].id = table[k].id => j = k
      <4> SUFFICES ASSUME NEW j \in DOMAIN table, NEW k \in DOMAIN table,
                          table[j].id = table[k].id
                   PROVE  j = k
        OBVIOUS
      <4>1. table[1].id = m
        BY <2>2
      <4>2. CASE j = 1 \/ k = 1
        BY <1>1, <2>3, <2>4, <4>1, <4>2
      <4>3. CASE j # 1 /\ k # 1
        <5>1. j - 1 = k - 1
          BY <1>1, <2>3, <4>3 DEF IsTable
        <5> QED
          BY <1>1, <2>2, <5>1
      <4> QED
        BY <4>2, <4>3
    <3> QED
      BY <2>2, <3>1, <3>2 DEF IsTable
  <2>6. \A k \in DOMAIN table : \A x : x # m =>
            (Shows(table, k, x) <=> k # 1 /\ Shows(rows, k - 1, x))
    <3> SUFFICES ASSUME NEW k \in DOMAIN table, NEW x, x # m
                 PROVE  Shows(table, k, x) <=> k # 1 /\ Shows(rows, k - 1, x)
      OBVIOUS
    <3>1. k = 1 => table[k].id = m
      BY <2>2
    <3> QED
      BY <1>1, <2>3, <3>1 DEF Shows
  <2>7. AllBut(rows, table, m)
    <3> SUFFICES ASSUME NEW k \in DOMAIN table, table[k].id # m
                 PROVE  /\ k - 1 \in DOMAIN rows /\ rows[k - 1] = table[k]
                        /\ UpTo(rows, k - 1) \ {m} = UpTo(table, k) \ {m}
      BY DEF AllBut
    <3>1. k # 1
      BY <2>2
    <3>2. k - 1 \in DOMAIN rows /\ rows[k - 1] = table[k] /\ k \in 1 .. Len(rows) + 1
      BY <1>1, <2>2, <2>3, <3>1
    <3>3. ASSUME NEW x, x # m
          PROVE  (\E j \in 1 .. k - 1 : Shows(rows, j, x)) <=>
                 (\E j \in 1 .. k : Shows(table, j, x))
      <4>1. ASSUME NEW j \in 1 .. k - 1, Shows(rows, j, x)
            PROVE  j + 1 \in 1 .. k /\ Shows(table, j + 1, x)
        <5>1. j + 1 \in 1 .. k /\ j + 1 \in DOMAIN table /\ j + 1 # 1 /\ (j + 1) - 1 = j
          BY <2>2, <3>2
        <5> QED
          BY <2>6, <3>3, <4>1, <5>1
      <4>2. ASSUME NEW j \in 1 .. k, Shows(table, j, x)
            PROVE  j - 1 \in 1 .. k - 1 /\ Shows(rows, j - 1, x)
        <5>1. j \in DOMAIN table
          BY <4>2 DEF Shows
        <5>2. j # 1 /\ Shows(rows, j - 1, x)
          BY <2>6, <3>3, <4>2, <5>1
        <5> QED
          BY <3>2, <5>2
      <4> QED
        BY <4>1, <4>2
    <3>4. PICK i \in DOMAIN rows : i = k - 1
      BY <3>2
    <3>5. \A x : x # m => ((\E j \in 1 .. i : Shows(rows, j, x))
                            <=> (\E j \in 1 .. k : Shows(table, j, x)))
      BY <3>3, <3>4
    <3>6. IsTable(rows)
      BY <1>1
    <3> HIDE DEF m
    <3>7. UpTo(rows, i) \ {m} = UpTo(table, k) \ {m}
      BY <2>5, <3>5, <3>6, SameUpTo
    <3> QED
      BY <3>2, <3>4, <3>7
  <2>8. {rows[i].id : i \in DOMAIN rows} \subseteq {table[k].id : k \in DOMAIN table}
    <3> SUFFICES ASSUME NEW i \in DOMAIN rows
                 PROVE  \E k \in DOMAIN table : table[k].id = rows[i].id
      OBVIOUS
    <3>1. i + 1 \in DOMAIN table /\ table[i + 1] = rows[i]
      BY <1>1, <2>2
    <3> QED
      BY <3>1
  <2>9. ASSUME ComesIn(rows, table, m, Passed)
        PROVE  enters
    <3>1. PICK j \in DOMAIN table : Shows(table, j, m) /\ Rank(table, j) <= Passed
      BY <2>9 DEF ComesIn
    <3>2. j = 1
      BY <1>1, <2>3, <2>4, <3>1 DEF Shows
    <3>3. IsShown(r) /\ Rank(table, j) \in Nat /\ Rank(table, j) >= 1
      BY <2>2, <2>5, <3>1, <3>2, RankIsPositive DEF Shows
    <3>4. Passed \in Nat
      BY PassedIsNat DEF ListingsInv
    <3> QED
      BY <1>4, <3>1, <3>3, <3>4 DEF enters
  <2>10. ~ ComesIn(table, rows, m, Passed)
    BY <2>4 DEF ComesIn, Shows
  <2> QED
    BY <1>1, <1>2, <1>3, <2>5, <2>7, <2>8, <2>9, <2>10, RowsMove
<1>5. CASE ~ inFront
  <2>1. table = Append(rows, r) /\ enters = FALSE
    BY <1>5
  <2>2. /\ table \in Seq(TableRow) /\ Len(table) = Len(rows) + 1
        /\ DOMAIN table = 1 .. Len(rows) + 1 /\ table[Len(rows) + 1] = r
        /\ \A i \in 1 .. Len(rows) : table[i] = rows[i]
    <3> HIDE DEF r
    <3> QED
      BY <1>1, <2>1, PutBehind, SMTT(30)
  <2> HIDE DEF table, enters
  <2>4. \A i \in DOMAIN rows : rows[i].id \in 1 .. Len(rows) /\ rows[i].id # m
    BY <1>1, TableIs
  <2>3. \A k \in DOMAIN table \ {m} : k \in DOMAIN rows /\ table[k] = rows[k] /\ k < m
    BY <1>1, <2>2
  <2>5. IsTable(table)
    <3>1. table[m].id = m
      BY <2>2
    <3>2. \A k \in DOMAIN table : table[k].id \in 1 .. Len(table)
      BY <1>1, <2>2, <2>3, <2>4, <3>1
    <3>3. \A j, k \in DOMAIN table : table[j].id = table[k].id => j = k
      <4> SUFFICES ASSUME NEW j \in DOMAIN table, NEW k \in DOMAIN table,
                          table[j].id = table[k].id
                   PROVE  j = k
        OBVIOUS
      <4>1. CASE j = m \/ k = m
        BY <2>3, <2>4, <3>1, <4>1
      <4>2. CASE j # m /\ k # m
        BY <1>1, <2>3, <4>2 DEF IsTable
      <4> QED
        BY <4>1, <4>2
    <3> QED
      BY <2>2, <3>2, <3>3 DEF IsTable
  <2>6. ASSUME NEW k \in DOMAIN table \ {m}
        PROVE  /\ k \in DOMAIN rows /\ rows[k] = table[k]
               /\ UpTo(rows, k) \ {m} = UpTo(table, k) \ {m}
    <3>1. k \in 1 .. Len(rows)
      BY <1>1, <2>3
    <3>2. \A j \in 1 .. k : j \in DOMAIN rows /\ j \in DOMAIN table /\ table[j] = rows[j]
      BY <1>1, <2>2, <3>1
    <3>3. \A j \in 1 .. k : \A x : Shows(rows, j, x) <=> Shows(table, j, x)
      BY <3>2 DEF Shows
    <3>4. /\ IsTable(rows) /\ k \in DOMAIN rows /\ rows[k] = table[k] /\ k \in DOMAIN table
          /\ \A x : x # m => ((\E j \in 1 .. k : Shows(rows, j, x))
                              <=> (\E j \in 1 .. k : Shows(table, j, x)))
      BY <1>1, <2>3, <3>3
    <3> HIDE DEF m
    <3> QED
      BY <2>5, <3>4, SameUpTo
  <2>7. AllBut(rows, table, m)
    <3>1. table[m].id = m
      BY <2>2
    <3> QED
      BY <2>6, <3>1 DEF AllBut
  <2>8. {rows[i].id : i \in DOMAIN rows} \subseteq {table[k].id : k \in DOMAIN table}
    BY <1>1, <2>2
  <2>9. ~ ComesIn(rows, table, m, Passed)
    <3>1. \A j \in DOMAIN table : Shows(table, j, m) => j = m
      BY <2>3, <2>4 DEF Shows
    <3>2. \A j, k \in DOMAIN table : Shows(table, j, m) => ~ (j < k)
      BY <1>1, <2>2, <3>1
    <3> QED
      BY <3>2 DEF ComesIn
  <2>10. ~ ComesIn(table, rows, m, Passed)
    BY <2>4 DEF ComesIn, Shows
  <2> QED
    BY <1>1, <1>2, <1>3, <2>5, <2>7, <2>8, <2>9, <2>10, RowsMove
<1> QED
  BY <1>4, <1>5

LEMMA RowIsTurned ==
    ASSUME ListingsInv, NEW i \in DOMAIN rows, NEW kind \in Kinds, TurnRow(i, kind)
    PROVE  ListingsInv'
<1> DEFINE table == [rows EXCEPT ![i].is = kind]
           is == [rows[i] EXCEPT !.is = kind]
           leaves == IsShown(rows[i]) /\ ~ IsShown(is) /\ Rank(rows, i) <= Passed
           enters == ~ IsShown(rows[i]) /\ IsShown(is) /\ Rank(table, i) <= Passed
           m == rows[i].id
<1>1. IsTable(rows) /\ rows \in Seq(TableRow) /\ rows[i] \in TableRow /\ m \in Nat
      /\ DOMAIN rows = 1 .. Len(rows) /\ Len(rows) \in Nat /\ i \in Nat
  <2>1. IsTable(rows)
    BY DEF ListingsInv, ListingsBase
  <2>2. rows[i] \in TableRow /\ DOMAIN rows = 1 .. Len(rows) /\ Len(rows) \in Nat /\ i \in Nat
    BY <2>1, TableIs
  <2> QED
    BY <2>1, <2>2 DEF IsTable, TableRow
<1>2. is \in TableRow /\ is.id = m
  BY <1>1 DEF TableRow
<1>3. Moves(table, m, leaves, enters)
  BY <1>2 DEF TurnRow
<1>4. leaves \in BOOLEAN /\ enters \in BOOLEAN
  OBVIOUS
<1>5. /\ table \in Seq(TableRow) /\ DOMAIN table = DOMAIN rows /\ Len(table) = Len(rows)
      /\ table[i] = is /\ \A k \in DOMAIN rows \ {i} : table[k] = rows[k]
  <2>1. table = [rows EXCEPT ![i] = is]
    OBVIOUS
  <2> HIDE DEF table, is
  <2> QED
    BY <1>1, <1>2, <2>1
<1> HIDE DEF table, is
<1>6. \A k \in DOMAIN rows : table[k].id = rows[k].id
  BY <1>2, <1>5
<1>7. IsTable(table)
  BY <1>1, <1>5, <1>6 DEF IsTable
<1>8. \A k, x : x # m => (Shows(table, k, x) <=> Shows(rows, k, x))
  BY <1>2, <1>5 DEF Shows
<1>9. \A k \in DOMAIN rows : UpTo(rows, k) \ {m} = UpTo(table, k) \ {m}
  <2> SUFFICES ASSUME NEW k \in DOMAIN rows
               PROVE  UpTo(rows, k) \ {m} = UpTo(table, k) \ {m}
    OBVIOUS
  <2>1. \A x : x # m => ((\E h \in 1 .. k : Shows(rows, h, x)) <=>
                        (\E h \in 1 .. k : Shows(table, h, x)))
    BY <1>8
  <2>2. IsTable(rows) /\ IsTable(table) /\ k \in DOMAIN rows /\ k \in DOMAIN table
    BY <1>1, <1>5, <1>7
  <2> HIDE DEF m
  <2>3. \A x : x # m => (x \in UpTo(rows, k) <=> x \in UpTo(table, k))
    BY <2>1, <2>2, UpToIs
  <2> QED
    BY <2>3
<1>10. AllBut(rows, table, m)
  BY <1>2, <1>5, <1>9 DEF AllBut
<1>11. {rows[k].id : k \in DOMAIN rows} \subseteq {table[k].id : k \in DOMAIN table}
  BY <1>5, <1>6
<1>12. \A k : /\ Shows(rows, k, m) => k = i
              /\ Shows(table, k, m) => k = i
  BY <1>1, <1>5, <1>6 DEF Shows, IsTable
<1>13. ASSUME IsShown(rows[i]), IsShown(is)
       PROVE  Rank(table, i) = Rank(rows, i)
  <2>1. \A k, x : Shows(table, k, x) <=> Shows(rows, k, x)
    BY <1>5, <1>6, <1>8, <1>13 DEF Shows
  <2>2. UpTo(table, i) = UpTo(rows, i)
    <3>1. \A x : x \in UpTo(table, i) <=> x \in UpTo(rows, i)
      BY <1>1, <1>5, <1>7, <2>1, UpToIs
    <3> QED
      BY <3>1
  <2> QED
    BY <2>2 DEF Rank
<1>14. Passed \in Nat /\ Rank(rows, i) \in Nat /\ Rank(table, i) \in Nat
  BY <1>1, <1>5, <1>7, PassedIsNat, UpToIs DEF ListingsInv
<1>15. ASSUME ComesIn(rows, table, m, Passed)
       PROVE  enters
  <2>1. IsShown(is) /\ Rank(table, i) <= Passed
    BY <1>5, <1>12, <1>15 DEF ComesIn, Shows
  <2>2. IsShown(rows[i]) => Rank(rows, i) > Passed
    BY <1>15 DEF ComesIn, Shows
  <2> QED
    BY <1>13, <1>14, <2>1, <2>2
<1>16. ASSUME ComesIn(table, rows, m, Passed)
       PROVE  leaves
  <2>1. IsShown(rows[i]) /\ Rank(rows, i) <= Passed
    BY <1>12, <1>16 DEF ComesIn, Shows
  <2>2. IsShown(is) => Rank(table, i) > Passed
    BY <1>5, <1>6, <1>16 DEF ComesIn, Shows
  <2> QED
    BY <1>13, <1>14, <2>1, <2>2
<1> HIDE DEF m, leaves, enters
<1> QED
  BY <1>1, <1>3, <1>4, <1>7, <1>10, <1>11, <1>15, <1>16, RowsMove

\* The row that Moved(i, j) puts at k.
Origin(i, j, k) ==
    IF k = j THEN i
    ELSE IF j < k /\ k <= i THEN k - 1
    ELSE IF i <= k /\ k < j THEN k + 1
    ELSE k

LEMMA MovedIs ==
    ASSUME IsTable(rows), NEW i \in DOMAIN rows, NEW j \in DOMAIN rows, i # j
    PROVE  /\ IsTable(Moved(i, j)) /\ DOMAIN Moved(i, j) = DOMAIN rows
           /\ \A k \in DOMAIN rows :
                  Origin(i, j, k) \in DOMAIN rows /\ Moved(i, j)[k] = rows[Origin(i, j, k)]
<1>1. /\ DOMAIN rows = 1 .. Len(rows) /\ Len(rows) \in Nat /\ rows \in Seq(TableRow)
      /\ i \in 1 .. Len(rows) /\ j \in 1 .. Len(rows)
  BY TableIs DEF IsTable
<1>2. \A k \in 1 .. Len(rows) : Origin(i, j, k) \in 1 .. Len(rows)
  BY <1>1 DEF Origin
<1>3. ASSUME NEW k \in DOMAIN rows
      PROVE  Moved(i, j)[k] = rows[Origin(i, j, k)]
  <2>1. k \in Nat /\ i \in Nat /\ j \in Nat
    BY <1>1
  <2>2. CASE k = j
    BY <2>1, <2>2 DEF Moved, Origin
  <2>3. CASE k # j /\ j < k /\ k <= i
    BY <2>1, <2>3 DEF Moved, Origin
  <2>4. CASE k # j /\ i <= k /\ k < j
    BY <2>1, <2>4 DEF Moved, Origin
  <2>5. CASE k # j /\ ~ (j < k /\ k <= i) /\ ~ (i <= k /\ k < j)
    BY <2>1, <2>5 DEF Moved, Origin
  <2> QED
    BY <2>2, <2>3, <2>4, <2>5
<1>4. DOMAIN Moved(i, j) = DOMAIN rows
  BY DEF Moved
<1>5. Moved(i, j) \in Seq(TableRow) /\ Len(Moved(i, j)) = Len(rows)
  <2>1. \A k \in 1 .. Len(rows) : Moved(i, j)[k] \in TableRow
    BY <1>1, <1>2, <1>3, SMTT(30)
  <2>2. Moved(i, j) = [k \in 1 .. Len(rows) |-> Moved(i, j)[k]]
    BY <1>1 DEF Moved
  <2> QED
    BY <1>1, <2>1, <2>2
<1>6. \A k, h \in 1 .. Len(rows) : Origin(i, j, k) = Origin(i, j, h) => k = h
  BY <1>1 DEF Origin
<1>7. IsTable(Moved(i, j))
  <2> DEFINE table == Moved(i, j)
  <2>1. \A k \in 1 .. Len(rows) : table[k].id = rows[Origin(i, j, k)].id
    BY <1>1, <1>3
  <2>2. \A k \in 1 .. Len(rows) : table[k].id \in 1 .. Len(rows)
    BY <1>1, <1>2, <2>1, TableIs
  <2>3. \A k, h \in 1 .. Len(rows) : table[k].id = table[h].id => k = h
    <3> SUFFICES ASSUME NEW k \in 1 .. Len(rows), NEW h \in 1 .. Len(rows),
                        table[k].id = table[h].id
                 PROVE  k = h
      OBVIOUS
    <3>1. Origin(i, j, k) \in DOMAIN rows /\ Origin(i, j, h) \in DOMAIN rows
      BY <1>1, <1>2
    <3>2. rows[Origin(i, j, k)].id = rows[Origin(i, j, h)].id
      BY <2>1
    <3>3. Origin(i, j, k) = Origin(i, j, h)
      BY <3>1, <3>2 DEF IsTable
    <3> QED
      BY <1>6, <3>3
  <2> HIDE DEF table
  <2>4. table \in Seq(TableRow) /\ Len(table) = Len(rows) /\ DOMAIN table = 1 .. Len(rows)
    BY <1>1, <1>4, <1>5 DEF table
  <2> QED
    BY <2>2, <2>3, <2>4 DEF IsTable, table
<1> QED
  BY <1>1, <1>2, <1>3, <1>4, <1>7

LEMMA RowIsTouched ==
    ASSUME ListingsInv, NEW i \in DOMAIN rows, TouchRow(i)
    PROVE  ListingsInv'
<1>1. IsTable(rows) /\ DOMAIN rows = 1 .. Len(rows) /\ Len(rows) \in Nat /\ i \in Nat
  BY TableIs DEF ListingsInv, ListingsBase
<1>2. PICK j \in MovedTo(i) :
          Moves(Moved(i, j), rows[i].id,
                IsShown(rows[i]) /\ Rank(rows, i) <= Passed /\ ~ (Rank(Moved(i, j), j) <= Passed),
                IsShown(rows[i]) /\ ~ (Rank(rows, i) <= Passed) /\ Rank(Moved(i, j), j) <= Passed)
  BY DEF TouchRow
<1>3. j \in DOMAIN rows /\ i # j
  BY <1>1, <1>2 DEF MovedTo
<1> DEFINE table == Moved(i, j)
           m == rows[i].id
           leaves == IsShown(rows[i]) /\ Rank(rows, i) <= Passed /\ ~ (Rank(table, j) <= Passed)
           enters == IsShown(rows[i]) /\ ~ (Rank(rows, i) <= Passed) /\ Rank(table, j) <= Passed
           origin(k) == Origin(i, j, k)
<1>4. Moves(table, m, leaves, enters)
  BY <1>2
<1>5. leaves \in BOOLEAN /\ enters \in BOOLEAN
  OBVIOUS
<1>6. /\ IsTable(table) /\ DOMAIN table = DOMAIN rows
      /\ \A k \in DOMAIN rows : origin(k) \in DOMAIN rows /\ table[k] = rows[origin(k)]
  BY <1>1, <1>3, MovedIs
<1>7. origin(j) = i /\ table[j] = rows[i]
  BY <1>3, <1>6 DEF Origin
<1> HIDE DEF table
<1>8. m \in Nat /\ (\A k : Shows(rows, k, m) => k = i) /\ (\A k : Shows(table, k, m) => k = j)
  <2>1. m \in Nat
    BY <1>1, TableIs
  <2> QED
    BY <1>1, <1>3, <1>6, <1>7, <2>1 DEF Shows, IsTable
<1>9. ASSUME NEW k \in DOMAIN rows, NEW x
      PROVE  Shows(table, k, x) <=> Shows(rows, origin(k), x)
  BY <1>6 DEF Shows
<1>10. ASSUME NEW k \in DOMAIN table, k # j
       PROVE  UpTo(rows, origin(k)) \ {m} = UpTo(table, k) \ {m}
  <2>1. PICK g \in DOMAIN rows : g = origin(k)
    BY <1>6
  <2>2. ASSUME NEW x, x # m, NEW h \in 1 .. g, Shows(rows, h, x)
        PROVE  \E b \in 1 .. k : Shows(table, b, x)
    <3>1. h \in DOMAIN rows /\ h # i
      BY <2>2 DEF Shows
    <3>2. PICK b \in 1 .. k : b \in DOMAIN rows /\ origin(b) = h
      <4>1. CASE i < h /\ h <= j
        <5>1. h - 1 \in 1 .. k /\ h - 1 \in DOMAIN rows /\ origin(h - 1) = h
          BY <1>1, <1>3, <1>6, <1>10, <2>1, <3>1, <4>1 DEF Origin
        <5> QED
          BY <5>1
      <4>2. CASE j <= h /\ h < i
        <5>1. h + 1 \in 1 .. k /\ h + 1 \in DOMAIN rows /\ origin(h + 1) = h
          BY <1>1, <1>3, <1>6, <1>10, <2>1, <3>1, <4>2 DEF Origin
        <5> QED
          BY <5>1
      <4>3. CASE ~ (i < h /\ h <= j) /\ ~ (j <= h /\ h < i)
        <5>1. h \in 1 .. k /\ origin(h) = h
          BY <1>1, <1>3, <1>6, <1>10, <2>1, <3>1, <4>3 DEF Origin
        <5> QED
          BY <3>1, <5>1
      <4> QED
        BY <4>1, <4>2, <4>3
    <3> QED
      BY <1>9, <2>2, <3>2
  <2>3. ASSUME NEW x, x # m, NEW b \in 1 .. k, Shows(table, b, x)
        PROVE  \E h \in 1 .. g : Shows(rows, h, x)
    <3>1. b \in DOMAIN rows /\ b # j
      BY <1>6, <1>7, <2>3 DEF Shows
    <3>2. origin(b) \in 1 .. g
      BY <1>1, <1>3, <1>6, <1>10, <2>1, <3>1 DEF Origin
    <3> QED
      BY <1>9, <2>3, <3>1, <3>2
  <2>4. \A x : x # m => ((\E h \in 1 .. g : Shows(rows, h, x)) <=>
                        (\E b \in 1 .. k : Shows(table, b, x)))
    BY <2>2, <2>3
  <2>5. UpTo(rows, g) \ {m} = UpTo(table, k) \ {m}
    <3>1. IsTable(rows) /\ IsTable(table) /\ g \in DOMAIN rows /\ k \in DOMAIN table
      BY <1>1, <1>6
    <3> HIDE DEF m
    <3>2. \A x : x # m => (x \in UpTo(rows, g) <=> x \in UpTo(table, k))
      BY <2>4, <3>1, UpToIs
    <3> QED
      BY <3>2
  <2> QED
    BY <2>1, <2>5
<1>11. AllBut(rows, table, m)
  <2>1. \A k \in DOMAIN table : table[k].id # m => k # j
    BY <1>7
  <2> QED
    BY <1>6, <1>10, <2>1 DEF AllBut
<1>12. {rows[k].id : k \in DOMAIN rows} \subseteq {table[k].id : k \in DOMAIN table}
  <2> SUFFICES ASSUME NEW h \in DOMAIN rows
               PROVE  \E k \in DOMAIN rows : origin(k) = h
    BY <1>6
  <2>1. CASE h = i
    BY <1>3, <1>7, <2>1
  <2>2. CASE i < h /\ h <= j
    <3>1. h - 1 \in DOMAIN rows /\ origin(h - 1) = h
      BY <1>1, <1>3, <2>2 DEF Origin
    <3> QED
      BY <3>1
  <2>3. CASE j <= h /\ h < i
    <3>1. h + 1 \in DOMAIN rows /\ origin(h + 1) = h
      BY <1>1, <1>3, <2>3 DEF Origin
    <3> QED
      BY <3>1
  <2>4. CASE h # i /\ ~ (i < h /\ h <= j) /\ ~ (j <= h /\ h < i)
    <3>1. origin(h) = h
      BY <1>1, <1>3, <2>4 DEF Origin
    <3> QED
      BY <3>1
  <2> QED
    BY <2>1, <2>2, <2>3, <2>4
<1>13. Passed \in Nat /\ Rank(rows, i) \in Nat /\ Rank(table, j) \in Nat
  BY <1>1, <1>3, <1>6, PassedIsNat, UpToIs DEF ListingsInv
<1>14. ComesIn(rows, table, m, Passed) => enters
  BY <1>7, <1>8, <1>13 DEF ComesIn, Shows
<1>15. ComesIn(table, rows, m, Passed) => leaves
  BY <1>3, <1>6, <1>7, <1>8, <1>13 DEF ComesIn, Shows
<1> HIDE DEF m, leaves, enters
<1> QED
  BY <1>4, <1>5, <1>6, <1>8, <1>11, <1>12, <1>14, <1>15, RowsMove

-----------------------------------------------------------------------------
LEMMA ListingsInitHolds == RequestsInit /\ ListingsInit => ListingsInv
<1> SUFFICES ASSUME ListingsInit
             PROVE  ListingsInv
  OBVIOUS
<1>1. ListedRows \in Nat /\ MaxPages \in Nat
  BY ListingsAssumption
<1>2. Walks
  BY DEF ListingsInit, Walks, Fits, Repeats
<1>3. /\ \A i \in 1 .. ListedRows : rows[i].id = i /\ rows[i] \in TableRow
      /\ DOMAIN rows = 1 .. ListedRows
  BY <1>1 DEF ListingsInit, TableRow, Kinds
<1>4. rows \in Seq(TableRow) /\ Len(rows) = ListedRows
  <2>1. rows = [i \in 1 .. ListedRows |-> rows[i]]
    BY DEF ListingsInit
  <2> QED
    BY <1>1, <1>3, <2>1
<1>5. IsTable(rows)
  BY <1>3, <1>4 DEF IsTable
<1>6. CountedMoves(moves) /\ moves.left = 0 /\ moves.front = 0 /\ moves.lost = 0
  BY DEF ListingsInit, Still, CountedMoves
<1>7. ListingsBase
  <2>1. start \subseteq {rows[i].id : i \in DOMAIN rows}
    BY DEF ListingsInit
  <2>2. seen = {} /\ again = {} /\ ended = FALSE /\ pages \in 0 .. MaxPages
    BY <1>1 DEF ListingsInit
  <2> QED
    BY <1>2, <1>5, <1>6, <2>1, <2>2 DEF ListingsBase
<1>8. Passed = 0
  <2>1. PageSize \in Nat
    BY ListingsAssumption
  <2>2. cursor = IF client = "fromOne" THEN 1 ELSE 0
    BY DEF ListingsInit
  <2>3. client = "fromOne" => listing.query.skip = "before"
    BY DEF ListingsInit, Fits, Repeats
  <2>4. CASE client = "fromOne"
    BY <2>1, <2>2, <2>3, <2>4 DEF Passed, Skip
  <2>5. CASE client # "fromOne"
    <3>1. cursor = 0
      BY <2>2, <2>5
    <3> QED
      BY <2>1, <3>1 DEF Passed, Skip
  <2> QED
    BY <2>4, <2>5
<1>9. Skipped = {}
  BY <1>5, <1>8, RankIsPositive DEF Skipped, Shows
<1>10. (again \ moves.changed) \cup Repeatable = {}
  BY DEF ListingsInit, Repeatable
<1>11. NothingMissedUnlessLeft
  BY DEF ListingsInit, NothingMissedUnlessLeft
<1>12. moves.front = 0 /\ Cardinality({}) = 0
  BY FS_EmptySet DEF ListingsInit, Still
<1>13. /\ Cardinality(Skipped) = 0
       /\ Cardinality((again \ moves.changed) \cup Repeatable) = 0
  BY <1>9, <1>10, <1>12
<1> QED
  BY <1>6, <1>7, <1>11, <1>12, <1>13 DEF ListingsInv

LEMMA ListingsNextKeeps == ListingsInv /\ [ListingsNext]_listingsSpecVars => ListingsInv'
<1> SUFFICES ASSUME ListingsInv, [ListingsNext]_listingsSpecVars
             PROVE  ListingsInv'
  OBVIOUS
<1>1. CASE TurnPage
  <2>1. Answers({}) /\ IsFiniteSet({})
    BY <1>1, FS_EmptySet DEF TurnPage
  <2> QED
    BY <2>1, PageIsAnswered
<1>2. CASE LoseRow
  <2>1. PICK id \in Ids(Page) : Answers({id})
    BY <1>2 DEF LoseRow
  <2>2. IsFiniteSet({id}) /\ listing.loses
    BY <1>2, FS_Singleton DEF LoseRow
  <2> QED
    BY <2>1, <2>2, PageIsAnswered
<1>3. ASSUME NEW kind \in Public, AddRow(kind)
      PROVE  ListingsInv'
  BY <1>3, RowIsAdded
<1>4. ASSUME NEW i \in DOMAIN rows, TouchRow(i)
      PROVE  ListingsInv'
  BY <1>4, RowIsTouched
<1>5. ASSUME NEW i \in DOMAIN rows, NEW kind \in Kinds, TurnRow(i, kind)
      PROVE  ListingsInv'
  BY <1>5, RowIsTurned
<1>6. CASE UNCHANGED listingsSpecVars
  BY <1>6 DEF listingsSpecVars, listings, ListingsInv, ListingsBase, Walks, Fits, Repeats,
      IsTable, CountedMoves,
      Skipped, Repeatable, Steady, Shows, Rank, UpTo, Ids, IsShown, Passed, Skip,
      NothingMissedUnlessLeft
<1> QED
  BY <1>1, <1>2, <1>3, <1>4, <1>5, <1>6 DEF ListingsNext

\* The invariant of the listings holds in every state.
THEOREM ListingsInvariance == ListingsSpec => []ListingsInv
BY ListingsInitHolds, ListingsNextKeeps, PTL DEF ListingsSpec, listingsSpecVars

\* The walk, its rows and its counts have their types.
THEOREM ListingsAreTyped == ListingsSpec => []ListingsTypeOK
<1>1. ListingsInv => ListingsTypeOK
  BY TableIs DEF ListingsInv, ListingsBase, Walks, ListingsTypeOK, TableRow
<1> QED
  BY <1>1, ListingsInvariance, PTL

\* However the rows move between two pages, a walk to the end misses at most
\* one row that was there all the time for each row that left the pages before
\* or was lost (GetStoryboards and the other listings).
THEOREM FewAreMissed == ListingsSpec => []NothingMissedUnlessLeft
<1>1. ListingsInv => NothingMissedUnlessLeft
  BY DEF ListingsInv
<1> QED
  BY <1>1, ListingsInvariance, PTL

\* And a walk that numbers the pages as the query does is answered at most one
\* row twice for each row that came in front.
THEOREM FewAreAnsweredTwice == ListingsSpec => []NothingTwiceUnlessInFront
<1>1. ListingsInv => NothingTwiceUnlessInFront
  <2> SUFFICES ASSUME ListingsInv, Fits
               PROVE  Cardinality(again \ moves.changed) <= moves.front
    BY DEF NothingTwiceUnlessInFront
  <2>1. /\ IsFiniteSet((again \ moves.changed) \cup Repeatable)
        /\ Cardinality((again \ moves.changed) \cup Repeatable) \in Nat
        /\ Cardinality((again \ moves.changed) \cup Repeatable) <= moves.front
        /\ moves.front \in Nat
    BY SeenIsFinite DEF ListingsInv, ListingsBase, CountedMoves
  <2>2. /\ Cardinality(again \ moves.changed) \in Nat
        /\ Cardinality(again \ moves.changed)
              <= Cardinality((again \ moves.changed) \cup Repeatable)
    BY <2>1, FS_Subset, FS_CardinalityType
  <2> QED
    BY <2>1, <2>2
<1> QED
  BY <1>1, ListingsInvariance, PTL

=============================================================================
