------------------------------ MODULE Messages ------------------------------
(***************************************************************************)
(* The message queue over Redis (pkg/message/redis.go), one topic of it,    *)
(* and the messages and offsets kept in the database                        *)
(* (pkg/message/store.go), one topic of them.                               *)
(*                                                                          *)
(* A subscription is a channel that two goroutines write: one forwards what *)
(* is published from now on, the other reads the stream from its beginning. *)
(***************************************************************************)
EXTENDS Requests, Sequences, FiniteSets

CONSTANT Capacity   \* the capacity of the channel of a subscription

ASSUME MessagesAssumption == Capacity \in Nat \ {0}

VARIABLES
    stream,    \* the number of messages in the stream; they are 1 .. stream
    sub,       \* the subscriptions in the order they were made
    listed,    \* the subscription in the maps of the queue, 0 for none
    done,      \* Close was called, and how far it got
    panicked,  \* a goroutine used a closed channel: the process is gone
    record,    \* the messages in the database, in the order of their insertion
    lastMsg,   \* last_msg_id of the topic
    shared     \* two transactions of SaveMessage were open at once

queueVars == <<stream, sub, listed, done, panicked>>
storeVars == <<record, lastMsg, shared>>
messages == <<queueVars, storeVars>>

-----------------------------------------------------------------------------
MessagesInit ==
    /\ stream = 0
    /\ sub = <<>>
    /\ listed = 0
    /\ done = "no"
    /\ panicked = FALSE
    /\ record = <<>>
    /\ lastMsg = 0
    /\ shared = FALSE

\* channel: what was sent and not received.  wire: published and not forwarded.
\* read: how much of the stream the historical reader has read.
NewSub ==
    [channel |-> <<>>, closed |-> FALSE, ended |-> FALSE, gone |-> FALSE,
     wire |-> <<>>, read |-> 0, got |-> <<>>, full |-> FALSE]

\* A send on a full channel drops the message; on a closed one it panics.
Sent(s, m) ==
    IF Len(s.channel) = Capacity THEN [s EXCEPT !.full = TRUE]
    ELSE [s EXCEPT !.channel = Append(@, m)]

\* Mutant of Forwards: the goroutine goes on after it closed the channel.
NeverReturns(s) == TRUE

Forwards(s) == ~ s.gone

-----------------------------------------------------------------------------
(* Publish adds the message to the stream first.                           *)

Publish(w) ==
    /\ done = "no"
    /\ Begins(w, None, "Publish", None, "PublishLive", stream + 1)
    /\ stream' = stream + 1
    /\ UNCHANGED <<sub, listed, done, panicked, storeVars>>

PublishLive(w) ==
    /\ worker[w].pc = "PublishLive"
    /\ sub' = [i \in DOMAIN sub |->
                 IF Forwards(sub[i])
                 THEN [sub[i] EXCEPT !.wire = Append(@, worker[w].got)]
                 ELSE sub[i]]
    /\ Ends(w)
    /\ UNCHANGED <<stream, listed, done, panicked, storeVars>>

\* A topic that is subscribed already has its channel returned.
Subscribe ==
    /\ done # "closed"
    /\ listed = 0
    /\ Serves
    /\ sub' = Append(sub, NewSub)
    /\ listed' = Len(sub) + 1
    /\ UNCHANGED <<stream, done, panicked, storeVars>>

-----------------------------------------------------------------------------
(* handleMessages: one goroutine for each subscription.                    *)

Forward(i) ==
    LET s == sub[i]
    IN  /\ Forwards(s)
        /\ s.wire # <<>>
        /\ IF s.closed THEN panicked' = TRUE /\ UNCHANGED sub
           ELSE /\ sub' = [sub EXCEPT ![i] = [Sent(s, Head(s.wire)) EXCEPT !.wire = Tail(@)]]
                /\ UNCHANGED panicked
        /\ UNCHANGED <<stream, listed, done, storeVars, requestVars>>

\* The context of the subscriber is cancelled.
Cancel(i) ==
    /\ ~ sub[i].ended
    /\ sub' = [sub EXCEPT ![i].ended = TRUE]
    /\ UNCHANGED <<stream, listed, done, panicked, storeVars, requestVars>>

\* The goroutine returns: the topic is taken off the maps and the channel closed.
Leave(i) ==
    /\ ~ sub[i].gone
    /\ sub[i].ended \/ done # "no"
    /\ sub' = [sub EXCEPT ![i].gone = TRUE, ![i].closed = TRUE]
    /\ listed' = 0
    /\ panicked' = sub[i].closed
    /\ UNCHANGED <<stream, done, storeVars, requestVars>>

\* Mutant of ReadOn: lastID stays what it was.
ReadsAgain(s) == s

ReadOn(s) == [s EXCEPT !.read = @ + 1]

\* handleHistoricalMessages never returns.
ReadHistory(i) ==
    LET s == sub[i]
    IN  /\ s.read < stream
        /\ IF s.closed THEN panicked' = TRUE /\ UNCHANGED sub
           ELSE /\ sub' = [sub EXCEPT ![i] = ReadOn(Sent(s, s.read + 1))]
                /\ UNCHANGED panicked
        /\ UNCHANGED <<stream, listed, done, storeVars, requestVars>>

Receive(i) ==
    LET s == sub[i]
    IN  /\ s.channel # <<>>
        /\ sub' = [sub EXCEPT ![i].channel = Tail(@),
                              ![i].got = Append(@, Head(s.channel))]
        /\ UNCHANGED <<stream, listed, done, panicked, storeVars, requestVars>>

\* Close tells the goroutines first, and takes the lock after that.
Close ==
    /\ done = "no"
    /\ done' = "told"
    /\ UNCHANGED <<stream, sub, listed, panicked, storeVars, requestVars>>

CloseStreams ==
    /\ done = "told"
    /\ done' = "closed"
    /\ sub' = [i \in DOMAIN sub |->
                 IF i = listed THEN [sub[i] EXCEPT !.closed = TRUE] ELSE sub[i]]
    /\ listed' = 0
    /\ UNCHANGED <<stream, panicked, storeVars, requestVars>>

\* done is closed already, and closing it again panics.
CloseAgain ==
    /\ done # "no"
    /\ done' = "twice"
    /\ panicked' = TRUE
    /\ UNCHANGED <<stream, sub, listed, storeVars, requestVars>>

-----------------------------------------------------------------------------
(* SaveMessage: a transaction that reads the topic without locking it.      *)

SaveMessage(w) ==
    /\ Begins(w, None, "SaveMessage", None, "Commit", lastMsg)
    /\ shared' = (shared \/ \E v \in Busy : worker[v].op = "SaveMessage")
    /\ UNCHANGED <<queueVars, record, lastMsg>>

\* Mutant of NextId: the id that was read is used again.
SameId(read) == read

NextId(read) == read + 1

\* Until the transaction commits nobody else sees what it wrote.
Commit(w) ==
    /\ worker[w].pc = "Commit"
    /\ record' = Append(record, NextId(worker[w].got))
    /\ lastMsg' = NextId(worker[w].got)
    /\ Ends(w)
    /\ UNCHANGED <<queueVars, shared>>

-----------------------------------------------------------------------------
MessagesStep(w) ==
    \/ PublishLive(w) \/ Commit(w)
    \/ CutOff(w) /\ UNCHANGED messages

SubStep(i) ==
    Forward(i) \/ Cancel(i) \/ Leave(i) \/ ReadHistory(i) \/ Receive(i)

MessagesNext ==
    /\ ~ panicked
    /\ \/ \E w \in Workers : MessagesStep(w) \/ Publish(w) \/ SaveMessage(w)
       \/ \E i \in DOMAIN sub : SubStep(i)
       \/ Subscribe \/ Close \/ CloseStreams \/ CloseAgain

MessagesSpec ==
    RequestsInit /\ MessagesInit /\ [][MessagesNext]_<<requestVars, messages>>

-----------------------------------------------------------------------------
(* Properties.                                                             *)

SubRows ==
    [channel : Seq(Nat), closed : BOOLEAN, ended : BOOLEAN, gone : BOOLEAN,
     wire : Seq(Nat), read : Nat, got : Seq(Nat), full : BOOLEAN]

MessagesTypeOK ==
    /\ stream \in Nat
    /\ sub \in Seq(SubRows)
    /\ listed \in 0 .. Len(sub)
    /\ done \in {"no", "told", "closed", "twice"}
    /\ panicked \in BOOLEAN
    /\ record \in Seq(Nat)
    /\ lastMsg \in Nat
    /\ shared \in BOOLEAN

Copies(q, m) == Cardinality({k \in DOMAIN q : q[k] = m})

Delivered(s, m) == Copies(s.got \o s.channel, m)

\* A subscription is sent a message twice at most, once by each goroutine, and
\* at least once when the stream was read past it and the channel was never full.
DeliveredTwiceAtMost ==
    \A i \in DOMAIN sub : \A m \in 1 .. stream :
        /\ Delivered(sub[i], m) <= 2
        /\ m <= sub[i].read /\ ~ sub[i].full => Delivered(sub[i], m) >= 1

\* Three things only bring the process down: a Close that came to its end, which
\* closes channels beside their goroutines, a second Close, or the reader of a
\* stream that goes on after its subscription was cancelled.
PanicsOnlyAfterTheEnd ==
    panicked => \/ done \in {"closed", "twice"}
                \/ \E i \in DOMAIN sub : sub[i].gone /\ sub[i].read < stream

\* The messages in the database are numbered without gaps, and each number is
\* given once unless two transactions that save a message overlap.
NumberedOnceUnlessShared ==
    /\ \A i \in DOMAIN record : \A id \in 1 .. record[i] :
          \E j \in DOMAIN record : record[j] = id
    /\ ~ shared => lastMsg = Len(record) /\ \A i \in DOMAIN record : record[i] = i
=============================================================================
