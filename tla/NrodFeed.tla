------------------------------- MODULE NrodFeed -------------------------------
(***************************************************************************)
(* One tspl-nrod process: StompProcessor, a future that the reactor polls,  *)
(* which keeps a session with the message broker and puts what comes into   *)
(* a queue; and the worker threads that take messages from it and go through *)
(* their records.  What a record leads to is in Activation and LiveUpdates. *)
(*                                                                         *)
(* The broker and the session are a library.  Assumed of them: the session  *)
(* queues its events in order, says once that it was disconnected, and      *)
(* wakes the reactor as long as it has an event; a message that was not     *)
(* acknowledged may come again, and need not.                               *)
(***************************************************************************)
EXTENDS Integers, Sequences

CONSTANTS
    Messages,       \* messages the broker has for the subscription
    Garbled,        \* those of them that cannot be parsed
    FeedWorkers,    \* worker threads
    Records,        \* number of records in a message
    MaxDelay,       \* bound on the doublings of the delay
    MaxBacklog      \* bound on the messages that wait for a worker

ASSUME FeedAssumption ==
    /\ Garbled \subseteq Messages
    /\ Records \in Nat \ {0}
    /\ MaxDelay \in Nat
    /\ MaxBacklog \in Nat \ {0}

VARIABLES
    link,           \* the session: "connecting", "up" or "down"
    events,         \* its events that were not polled yet
    timer,          \* self.timeout is set
    delay,          \* log2 of timeout_ms / 1000
    owed,           \* messages the broker has still to send
    unacked,        \* messages sent, and not acknowledged on this connection
    acked,          \* messages the broker is done with
    backlog,        \* the channel between StompProcessor and the workers
    hand,           \* worker -> the message it has, and the records gone through
    handled,        \* messages that a worker has gone through to the end
    lost            \* messages that were in a process when it died (history)

broker == <<owed, unacked, acked>>
session == <<link, events, timer, delay>>
working == <<backlog, hand, handled>>
feedvars == <<session, broker, working, lost>>

Idle == [done |-> -1]
Event(e) == [event |-> e]
MessageEvent(msg) == [event |-> "message", msg |-> msg]

InEvents == {events[i].msg : i \in {j \in DOMAIN events : events[j].event = "message"}}
InBacklog == {backlog[i] : i \in DOMAIN backlog}
InHand == {hand[w].msg : w \in {x \in FeedWorkers : hand[x] # Idle}}
InProcess == InEvents \cup InBacklog \cup InHand

FeedTypeOK ==
    /\ link \in {"connecting", "up", "down"}
    /\ events \in Seq([event : {"connected", "error", "disconnected"}]
                      \cup [event : {"message"}, msg : Messages])
    /\ timer \in BOOLEAN
    /\ delay \in 0 .. MaxDelay
    /\ owed \subseteq Messages /\ unacked \subseteq Messages /\ acked \subseteq Messages
    /\ backlog \in Seq(Messages)
    /\ hand \in [FeedWorkers -> [msg : Messages, done : 0 .. Records - 1] \cup {Idle}]
    /\ handled \subseteq Messages /\ lost \subseteq Messages

FeedInit ==
    /\ link = "connecting" /\ events = <<>> /\ timer = FALSE /\ delay = 0
    /\ owed = Messages /\ unacked = {} /\ acked = {}
    /\ backlog = <<>> /\ hand = [w \in FeedWorkers |-> Idle] /\ handled = {}
    /\ lost = {}

-----------------------------------------------------------------------------
(* The broker and the session                                               *)

Accept ==
    /\ link = "connecting"
    /\ link' = "up"
    /\ events' = Append(events, Event("connected"))
    /\ UNCHANGED <<timer, delay, broker, working, lost>>

Refuse ==
    /\ link = "connecting"
    /\ link' = "down"
    /\ events' = Append(events, Event("disconnected"))
    /\ UNCHANGED <<timer, delay, broker, working, lost>>

Deliver(msg) ==
    /\ link = "up" /\ msg \in owed
    /\ Len(backlog) + Len(events) < MaxBacklog
    /\ owed' = owed \ {msg}
    /\ unacked' = unacked \cup {msg}
    /\ events' = Append(events, MessageEvent(msg))
    /\ UNCHANGED <<link, timer, delay, acked, working, lost>>

ServerError ==
    /\ link = "up"
    /\ Len(backlog) + Len(events) < MaxBacklog
    /\ events' = Append(events, Event("error"))
    /\ UNCHANGED <<link, timer, delay, broker, working, lost>>

\* The connection is over: some of what was not acknowledged will come again.
Break ==
    /\ link' = "down"
    /\ \E again \in SUBSET unacked :
          /\ owed' = owed \cup again
          /\ acked' = acked \cup (unacked \ again)
    /\ unacked' = {}

\* The network fails, or a heartbeat is missed.
Drop ==
    /\ link = "up"
    /\ Break
    /\ events' = Append(events, Event("disconnected"))
    /\ UNCHANGED <<timer, delay, working, lost>>

-----------------------------------------------------------------------------
(* StompProcessor::poll                                                     *)

\* Mutant: the timer is not cleared.
ReconnectKeepingTimer ==
    /\ timer
    /\ link' = "connecting"
    /\ UNCHANGED <<timer, events, delay, broker, working, lost>>
\* The timer has run out.
Reconnect ==
    /\ timer
    /\ link' = "connecting"
    /\ timer' = FALSE
    /\ UNCHANGED <<events, delay, broker, working, lost>>

\* on_connect: subscribes, which puts nothing into the queue.
OnConnected ==
    /\ events # <<>> /\ Head(events).event = "connected"
    /\ events' = Tail(events)
    /\ UNCHANGED <<link, timer, delay, broker, working, lost>>

\* sess.disconnect(), which on a live session ends it.
OnErrorFrame ==
    /\ events # <<>> /\ Head(events).event = "error"
    /\ \/ link = "up" /\ Break /\ events' = Append(Tail(events), Event("disconnected"))
       \/ link # "up" /\ events' = Tail(events) /\ UNCHANGED <<link, broker>>
    /\ UNCHANGED <<timer, delay, working, lost>>

\* on_message and the acknowledgement, which arrives if the connection is
\* still there.  A Darwin frame that cannot be deflated is not put into the
\* queue; a text that cannot be parsed is a worker's to find out.
Acknowledge(msg) ==
    IF link = "up" /\ msg \in unacked
    THEN /\ unacked' = unacked \ {msg}
         /\ acked' = acked \cup {msg}
    ELSE UNCHANGED <<unacked, acked>>
\* Mutant: the channel has room for one message, and sending does not wait.
OnMessageTrySend ==
    /\ events # <<>> /\ Head(events).event = "message"
    /\ LET msg == Head(events).msg
       IN /\ backlog' = IF backlog = <<>> THEN <<msg>> ELSE backlog
          /\ Acknowledge(msg)
    /\ events' = Tail(events)
    /\ timer' = FALSE
    /\ delay' = 0
    /\ UNCHANGED <<link, owed, hand, handled, lost>>
OnMessage ==
    /\ events # <<>> /\ Head(events).event = "message"
    /\ LET msg == Head(events).msg
       IN /\ \/ backlog' = Append(backlog, msg)
             \/ msg \in Garbled /\ UNCHANGED backlog
          /\ Acknowledge(msg)
    /\ events' = Tail(events)
    /\ timer' = FALSE
    /\ delay' = 0
    /\ UNCHANGED <<link, owed, hand, handled, lost>>

\* Mutant: after so many attempts it is left at that.
OnDisconnectedGivingUp ==
    /\ events # <<>> /\ Head(events).event = "disconnected"
    /\ events' = Tail(events)
    /\ timer' = (delay < MaxDelay)
    /\ delay' = IF delay < MaxDelay THEN delay + 1 ELSE delay
    /\ UNCHANGED <<link, broker, working, lost>>
\* A timer is set; the delay doubles until a message comes.
OnDisconnected ==
    /\ events # <<>> /\ Head(events).event = "disconnected"
    /\ events' = Tail(events)
    /\ timer' = TRUE
    /\ delay' = IF delay < MaxDelay THEN delay + 1 ELSE delay
    /\ UNCHANGED <<link, broker, working, lost>>

PollEvent == OnConnected \/ OnErrorFrame \/ OnMessage \/ OnDisconnected

-----------------------------------------------------------------------------
(* NrodWorker::run, DarwinWorker::run                                       *)

Recv(w) ==
    /\ hand[w] = Idle /\ backlog # <<>>
    /\ hand' = [hand EXCEPT ![w] = [msg |-> Head(backlog), done |-> 0]]
    /\ backlog' = Tail(backlog)
    /\ UNCHANGED <<session, broker, handled, lost>>

\* Mutant: the first record that fails ends the message.
HandleRecordOrStop(w) ==
    /\ hand[w] # Idle
    /\ IF hand[w].done + 1 < Records
       THEN \/ /\ hand' = [hand EXCEPT ![w].done = @ + 1]
               /\ UNCHANGED handled
            \/ /\ hand' = [hand EXCEPT ![w] = Idle]
               /\ UNCHANGED handled
       ELSE /\ hand' = [hand EXCEPT ![w] = Idle]
            /\ handled' = handled \cup {hand[w].msg}
    /\ UNCHANGED <<session, broker, backlog, lost>>
\* One record, whether it fails or not; a message that cannot be parsed is
\* dropped.
HandleRecord(w) ==
    /\ hand[w] # Idle
    /\ IF hand[w].msg \notin Garbled /\ hand[w].done + 1 < Records
       THEN hand' = [hand EXCEPT ![w].done = @ + 1] /\ UNCHANGED handled
       ELSE hand' = [hand EXCEPT ![w] = Idle] /\ handled' = handled \cup {hand[w].msg}
    /\ UNCHANGED <<session, broker, backlog, lost>>

\* The process dies, of reconnect().unwrap() or a `?` in poll among others, and
\* a new one is started.
Die ==
    /\ LET sent == InProcess \cup unacked
       IN \E again \in SUBSET unacked :
             /\ owed' = owed \cup again
             /\ acked' = acked \cup (unacked \ again)
             /\ lost' = lost \cup (sent \ again)
    /\ unacked' = {}
    /\ link' = "connecting" /\ events' = <<>> /\ timer' = FALSE /\ delay' = 0
    /\ backlog' = <<>> /\ hand' = [w \in FeedWorkers |-> Idle]
    /\ UNCHANGED handled

FeedNext ==
    \/ Accept \/ Refuse \/ ServerError \/ Drop
    \/ \E msg \in Messages : Deliver(msg)
    \/ Reconnect \/ PollEvent
    \/ \E w \in FeedWorkers : Recv(w) \/ HandleRecord(w)
    \/ Die

FeedSpec == FeedInit /\ [][FeedNext]_feedvars

-----------------------------------------------------------------------------
(* Properties                                                               *)

\* The broker never gets rid of a message that tspl-nrod neither has nor has
\* been through: it is with the session, in the queue or with a worker, except
\* for what could not be parsed and what a process took with it.
AckedIsInHand ==
    acked \subseteq handled \cup InProcess \cup Garbled \cup lost

\* A session that is down always has somebody to bring it back: a timer, or the
\* event that will set one.  And no timer runs against a session that is not
\* down: reconnect() would tear it off.
SomeoneReconnects ==
    /\ link = "down" =>
          timer \/ \E i \in DOMAIN events : events[i].event = "disconnected"
    /\ timer => link = "down"

\* However often connections are refused and lost, the feed comes back.
LinkComesBack == link = "down" ~> link = "up"

\* What the broker got rid of is gone through to the last record, whatever
\* fails in it, unless the process dies.
AckedIsHandled ==
    \A msg \in Messages \ Garbled : msg \in acked ~> msg \in handled \cup lost

\* Together: neither lost connections nor bad records stop the feed.
FeedGoesOn == LinkComesBack /\ AckedIsHandled

-----------------------------------------------------------------------------
(* The inductive invariant                                                  *)

\* A session says at most once that it is down, as the last of its events; what
\* was sent and not acknowledged is still with the session, and with one that
\* is up; the broker has a message to send, or waits for it, or is done with it.
FeedInv ==
    /\ FeedTypeOK
    /\ AckedIsInHand
    /\ SomeoneReconnects
    /\ unacked \subseteq InEvents
    /\ unacked # {} => link = "up"
    /\ owed \cap unacked = {} /\ (owed \cup unacked) \cap acked = {}
    /\ \A i \in DOMAIN events :
          events[i].event = "disconnected" => i = Len(events) /\ link = "down" /\ ~timer
    /\ timer => events = <<>>
==============================================================================
