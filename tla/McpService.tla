----------------------------- MODULE McpService -----------------------------
(***************************************************************************)
(* The story store of the MCP server (service/mcps), its maps and the       *)
(* reader-writer lock over them.  Tools and prompts call a handler; a       *)
(* message of the websocket comes through HandleRequest, which takes the    *)
(* lock before it calls the handler, and the handler takes it again.        *)
(*                                                                          *)
(* The lock is Go's: not reentrant, and a writer that waits turns new       *)
(* readers away.                                                            *)
(***************************************************************************)
EXTENDS Requests, Sequences

VARIABLES
    table,    \* the rows of each map, in the order of their creation
    readers,  \* how often each request holds the lock for reading
    writer    \* the request that holds the lock for writing, or waits for the
              \* readers that are left

mcpVars == <<table, readers, writer>>

-----------------------------------------------------------------------------
Tables == {"resources", "prompts", "tools", "roots", "transports", "stories",
           "characters", "versions", "points", "users"}

\* Every operation is a kind of change of one map; "rewrite" replaces text or a
\* flag of a row.  Nothing creates a user.
StoryFollows     == {"follow", "unfollow"} \X {"stories"}
CharacterFollows == {"follow", "unfollow"} \X {"characters"}
UserFollows      == {"follow", "unfollow"} \X {"users"}
StoryLikes       == {"like", "unlike"} \X {"stories"}
VersionLikes     == {"like", "unlike"} \X {"versions"}
VersionWrites    == {"create", "rewrite"} \X {"versions"}
PointWrites      == {"create", "rewrite"} \X {"points"}
CharacterWrites  == {<<"rewrite", "characters">>}
CharacterReads   == {<<"analyze", "characters">>}
Memberships      == {<<"rewrite", "users">>}
OwnPrompts       == {"get", "create"} \X {"resources", "prompts"}
OwnTools         == {"get", "create"} \X {"tools", "roots", "transports"}

\* What HandleRequest knows.
RequestOps ==
    UNION {StoryFollows, CharacterFollows, UserFollows, StoryLikes, VersionLikes,
           VersionWrites, PointWrites, CharacterWrites, CharacterReads,
           Memberships, OwnPrompts, OwnTools}

Contents == {"get", "create"} \X {"stories", "characters"}

\* The tools, and the prompts that create a story or a character.
ToolOps == UNION {Contents, CharacterFollows, StoryLikes}

McpInit ==
    /\ table = [t \in Tables |-> <<>>]
    /\ readers = [w \in Workers |-> 0]
    /\ writer = None

\* likes and followers of a story, a version or a character.
NewItem == [likes |-> 0, followers |-> {}]

-----------------------------------------------------------------------------
(* What a handler does once it has the lock.                               *)

\* Versions and points need a story; a character is made without one as well.
Made(t) ==
    IF t \in {"versions", "points"} /\ table["stories"] = <<>> THEN table
    ELSE [table EXCEPT ![t] = Append(@, NewItem)]

Changed(kind, item, u) ==
    CASE kind = "like"     -> [item EXCEPT !.likes = @ + 1]
      [] kind = "unlike"   -> [item EXCEPT !.likes = IF @ > 0 THEN @ - 1 ELSE 0]
      [] kind = "follow"   -> [item EXCEPT !.followers = @ \cup {u}]
      [] kind = "unfollow" -> [item EXCEPT !.followers = @ \ {u}]
      [] kind = "rewrite"  -> item

Reads(op) == op[1] \in {"get", "analyze"}

\* A row that is not found is an error.
Effect(op, u) ==
    LET t == op[2]
    IN  IF Reads(op) \/ (op[1] # "create" /\ table[t] = <<>>) THEN UNCHANGED table
        ELSE IF op[1] = "create" THEN table' = Made(t)
        ELSE \E i \in DOMAIN table[t] :
                table' = [table EXCEPT ![t][i] = Changed(op[1], @, u)]

\* Only the handler of create_resource does not lock.
LocksAgain(op) == op # <<"create", "resources">>

-----------------------------------------------------------------------------
\* worker[w].op: who called the handler; worker[w].on: what it does.  A handler
\* called by a tool locks once.
CallTool(w, u, op) ==
    /\ Begins(w, u, "tool", op, IF Reads(op) THEN "RLock" ELSE "Lock", None)
    /\ UNCHANGED mcpVars

HandleRequest(w, u, op) ==
    /\ Begins(w, u, "request", op, IF op[1] = "get" THEN "RLock" ELSE "Lock", None)
    /\ UNCHANGED mcpVars

\* Mutant of Enters: a lock that lets its owner in again.
OwnerEnters(w) == writer \in {None, w}

Enters(w) == writer = None

RLock(w) ==
    /\ worker[w].pc = "RLock"
    /\ Enters(w)
    /\ readers' = [readers EXCEPT ![w] = @ + 1]
    /\ Goes(w, "Handle")
    /\ UNCHANGED <<table, writer>>

\* From here on no reader gets in.
Lock(w) ==
    /\ worker[w].pc = "Lock"
    /\ Enters(w)
    /\ writer' = w
    /\ Goes(w, "WaitForReaders")
    /\ UNCHANGED <<table, readers>>

WaitForReaders(w) ==
    /\ worker[w].pc = "WaitForReaders"
    /\ \A v \in Workers : readers[v] = 0
    /\ Goes(w, "Handle")
    /\ UNCHANGED mcpVars

Unlock(w) ==
    /\ readers' = [readers EXCEPT ![w] = 0]
    /\ writer' = IF writer = w THEN None ELSE writer

\* A field is missing, or has another type: the handler returns an error.
RefuseFields(w) ==
    /\ worker[w].pc = "Handle" /\ worker[w].op = "request"
    /\ Ends(w)
    /\ Unlock(w)
    /\ UNCHANGED table

Handle(w) ==
    /\ worker[w].pc = "Handle"
    /\ IF worker[w].op = "request" /\ LocksAgain(worker[w].on)
       THEN Goes(w, "LockAgain") /\ UNCHANGED mcpVars
       ELSE /\ Effect(worker[w].on, worker[w].user)
            /\ Ends(w)
            /\ Unlock(w)

\* The handler's own lock, given back before the first: whoever holds the first
\* for writing waits for itself, and a read waits if a writer came between.
LockAgain(w) ==
    /\ worker[w].pc = "LockAgain"
    /\ Enters(w)
    /\ Effect(worker[w].on, worker[w].user)
    /\ Ends(w)
    /\ Unlock(w)

-----------------------------------------------------------------------------
McpStep(w) ==
    \/ RLock(w) \/ Lock(w) \/ WaitForReaders(w)
    \/ RefuseFields(w) \/ Handle(w) \/ LockAgain(w)

McpNext ==
    \/ \E w \in Workers : McpStep(w)
    \/ \E w \in Workers, u \in Users :
          \/ \E op \in ToolOps : CallTool(w, u, op)
          \/ \E op \in RequestOps : HandleRequest(w, u, op)

McpSpec == RequestsInit /\ McpInit /\ [][McpNext]_<<requestVars, mcpVars>>

-----------------------------------------------------------------------------
(* Properties.                                                             *)

McpTypeOK ==
    /\ table \in [Tables -> Seq([likes : Nat, followers : SUBSET Users])]
    /\ readers \in [Workers -> 0 .. 1]
    /\ writer \in Workers \cup {None}

\* A request that waits for the lock it holds: it writes, or it reads and a
\* writer has come between its two locks.
Stuck(w) == worker[w].pc = "LockAgain" /\ writer # None

\* Once a request waits for the lock it holds, no map changes any more and the
\* lock stays with the writer that has or awaits it: nothing is answered from
\* then on but what was being read at that moment.
StuckForGood ==
    [][(\E w \in Workers : Stuck(w)) => UNCHANGED <<table, writer>>]_mcpVars
=============================================================================
