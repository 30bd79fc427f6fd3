---------------------------- MODULE LiveBroadcast -----------------------------
(***************************************************************************)
(* tspl-zugfuhrer's live connections: the threads that answer requests and  *)
(* announce what they have committed, LiveTcpListener, which accepts        *)
(* clients, LiveBroadcaster, which passes announcements on, and a            *)
(* LiveHandler for each client, which first sends it today's trains.  A      *)
(* train is announced once activated, and may have a movement announced.     *)
(***************************************************************************)
EXTENDS Integers, Sequences

CONSTANTS
    Trains,         \* today's trains
    Clients

VARIABLES
    running,        \* trains in the table that have not terminated
    ended,          \* trains in the table that have
    committed,      \* packets whose update is committed, not yet sent
    announced,      \* packets that were sent to the broadcaster (history)
    updates,        \* the channel to the broadcaster
    taken,          \* what the broadcaster has taken from it (history)
    listening,      \* LiveTcpListener runs
    new_streams,    \* the channel from it to the broadcaster
    alive,          \* LiveBroadcaster runs
    streams,        \* the clients it has a sender for
    handler,        \* client -> where its LiveHandler stands
    rx,             \* client -> the channel to its handler
    unsynced,       \* client -> trains its handler has read and not sent yet
    told,           \* client -> trains it was sent as SyncTrain
    seen,           \* client -> packets it was sent
    since,          \* client -> how many were taken before it was registered
    gone            \* clients whose connection is broken

table == <<running, ended>>
sending == <<committed, announced>>
broadcaster == <<listening, new_streams, alive, streams, taken, since>>
handlers == <<handler, rx, unsynced, told, seen>>
livevars == <<table, sending, updates, broadcaster, handlers, gone>>

Packets == [update : {"activation", "movement"}, train : Trains]
Activation(t) == [update |-> "activation", train |-> t]
In(s) == {s[i] : i \in DOMAIN s}

LiveTypeOK ==
    /\ running \subseteq Trains /\ ended \subseteq Trains
    /\ committed \subseteq Packets /\ announced \subseteq Packets
    /\ updates \in Seq(Packets) /\ taken \in Seq(Packets)
    /\ listening \in BOOLEAN /\ alive \in BOOLEAN
    /\ new_streams \in Seq(Clients) /\ streams \subseteq Clients
    /\ handler \in [Clients -> {"none", "queued", "start", "sync", "live", "ended"}]
    /\ rx \in [Clients -> Seq(Packets)] /\ seen \in [Clients -> Seq(Packets)]
    /\ unsynced \in [Clients -> SUBSET Trains] /\ told \in [Clients -> SUBSET Trains]
    /\ since \in [Clients -> Nat]
    /\ gone \subseteq Clients

LiveInit ==
    /\ running = {} /\ ended = {} /\ committed = {} /\ announced = {}
    /\ updates = <<>> /\ taken = <<>>
    /\ listening = TRUE /\ alive = TRUE
    /\ new_streams = <<>> /\ streams = {}
    /\ handler = [c \in Clients |-> "none"]
    /\ rx = [c \in Clients |-> <<>>] /\ seen = [c \in Clients |-> <<>>]
    /\ unsynced = [c \in Clients |-> {}] /\ told = [c \in Clients |-> {}]
    /\ since = [c \in Clients |-> 0]
    /\ gone = {}

-----------------------------------------------------------------------------
(* Requests                                                                 *)

\* Mutant: the activation is not announced.
ActivateSilently(t) ==
    /\ t \notin running \cup ended
    /\ running' = running \cup {t}
    /\ UNCHANGED <<ended, sending, updates, broadcaster, handlers, gone>>
\* activate_train: the activator inserts the train.
CommitActivation(t) ==
    /\ t \notin running \cup ended
    /\ running' = running \cup {t}
    /\ committed' = committed \cup {Activation(t)}
    /\ UNCHANGED <<ended, announced, updates, broadcaster, handlers, gone>>

\* process_trust_mvt_update, process_darwin_mvt_update.
CommitMovement(t) ==
    LET packet == [update |-> "movement", train |-> t]
    IN /\ t \in running
       /\ packet \notin committed \cup announced
       /\ committed' = committed \cup {packet}
       /\ UNCHANGED <<table, announced, updates, broadcaster, handlers, gone>>

\* terminate_train, which is not announced.
Terminate(t) ==
    /\ t \in running
    /\ running' = running \ {t}
    /\ ended' = ended \cup {t}
    /\ UNCHANGED <<sending, updates, broadcaster, handlers, gone>>

\* send_update, after the commit; without a broadcaster it is dropped.
SendUpdate(packet) ==
    /\ packet \in committed
    /\ committed' = committed \ {packet}
    /\ announced' = announced \cup {packet}
    /\ updates' = IF alive THEN Append(updates, packet) ELSE updates
    /\ UNCHANGED <<table, broadcaster, handlers, gone>>

-----------------------------------------------------------------------------
(* LiveTcpListener::run and the clients                                     *)

\* Without a broadcaster tx.send fails: the listener ends, and with it the
\* channel and the streams that were left in it.
AcceptClient(c) ==
    /\ listening /\ handler[c] = "none"
    /\ IF alive
       THEN /\ new_streams' = Append(new_streams, c)
            /\ handler' = [handler EXCEPT ![c] = "queued"]
            /\ UNCHANGED listening
       ELSE /\ listening' = FALSE
            /\ new_streams' = <<>>
            /\ handler' = [x \in Clients |-> IF x = c \/ x \in In(new_streams)
                                             THEN "ended" ELSE handler[x]]
    /\ UNCHANGED <<table, sending, updates, alive, streams, taken, since, rx,
                   unsynced, told, seen, gone>>

ClientVanishes(c) ==
    /\ handler[c] \notin {"none", "ended"} /\ c \notin gone
    /\ gone' = gone \cup {c}
    /\ UNCHANGED <<table, sending, updates, broadcaster, handlers>>

-----------------------------------------------------------------------------
(* LiveBroadcaster::run                                                     *)

\* Mutant: the senders outlive the loop.
NewStreamKeepingSenders ==
    /\ alive /\ new_streams # <<>>
    /\ LET c == Head(new_streams)
       IN \/ /\ streams' = streams \cup {c}
             /\ since' = [since EXCEPT ![c] = Len(taken)]
             /\ handler' = [handler EXCEPT ![c] = "start"]
             /\ UNCHANGED alive
          \/ /\ c \in gone
             /\ alive' = FALSE
             /\ handler' = [handler EXCEPT ![c] = "ended"]
             /\ UNCHANGED <<since, streams>>
    /\ new_streams' = Tail(new_streams)
    /\ UNCHANGED <<table, sending, updates, listening, taken, rx, unsynced, told,
                   seen, gone>>
\* peer_addr fails on a connection that was reset, and `?` ends the loop: the
\* senders are dropped.
NewStream ==
    /\ alive /\ new_streams # <<>>
    /\ LET c == Head(new_streams)
       IN \/ /\ streams' = streams \cup {c}
             /\ since' = [since EXCEPT ![c] = Len(taken)]
             /\ handler' = [handler EXCEPT ![c] = "start"]
             /\ UNCHANGED alive
          \/ /\ c \in gone
             /\ alive' = FALSE /\ streams' = {}
             /\ handler' = [handler EXCEPT ![c] = "ended"]
             /\ UNCHANGED since
    /\ new_streams' = Tail(new_streams)
    /\ UNCHANGED <<table, sending, updates, listening, taken, rx, unsynced, told,
                   seen, gone>>

\* Mutant: the first sender that fails ends the loop.
ReachedUntilFailure == IF \A c \in streams : handler[c] # "ended" THEN streams ELSE {}
\* The handlers whose channel takes the packet.  The other senders are removed, by
\* their indices from the last to the first, which shifts none that are yet to go.
Reached == {c \in streams : handler[c] # "ended"}
Broadcast ==
    /\ alive /\ updates # <<>>
    /\ rx' = [c \in Clients |-> IF c \in Reached
                                THEN Append(rx[c], Head(updates)) ELSE rx[c]]
    /\ streams' = streams \cap Reached
    /\ updates' = Tail(updates)
    /\ taken' = Append(taken, Head(updates))
    /\ UNCHANGED <<table, sending, listening, new_streams, alive, since, handler,
                   unsynced, told, seen, gone>>

-----------------------------------------------------------------------------
(* LiveHandler::run                                                         *)

EndHandler(c) ==
    /\ handler' = [handler EXCEPT ![c] = "ended"]
    /\ rx' = [rx EXCEPT ![c] = <<>>]
    /\ UNCHANGED <<unsynced, told, seen>>

\* Mutant: trains that were announced already are left out.
ReadUnannounced(c) ==
    /\ handler[c] = "start"
    /\ unsynced' = [unsynced EXCEPT ![c] = {t \in running : Activation(t) \notin announced}]
    /\ handler' = [handler EXCEPT ![c] = "sync"]
    /\ UNCHANGED <<table, sending, updates, broadcaster, rx, told, seen, gone>>
\* SELECT of the trains that have not terminated.
ReadTrains(c) ==
    /\ handler[c] = "start"
    /\ unsynced' = [unsynced EXCEPT ![c] = running]
    /\ handler' = [handler EXCEPT ![c] = "sync"]
    /\ UNCHANGED <<table, sending, updates, broadcaster, rx, told, seen, gone>>

\* peer_addr, the pool or the query fails.
ReadFails(c) ==
    /\ handler[c] = "start"
    /\ EndHandler(c)
    /\ UNCHANGED <<table, sending, updates, broadcaster, gone>>

SendTrain(c) ==
    /\ handler[c] = "sync"
    /\ IF unsynced[c] = {}
       THEN handler' = [handler EXCEPT ![c] = "live"] /\ UNCHANGED <<unsynced, told>>
       ELSE /\ \E t \in unsynced[c] :
                  /\ unsynced' = [unsynced EXCEPT ![c] = @ \ {t}]
                  /\ told' = [told EXCEPT ![c] = @ \cup {t}]
            /\ UNCHANGED handler
    /\ UNCHANGED <<table, sending, updates, broadcaster, rx, seen, gone>>

SendMsg(c) ==
    /\ handler[c] = "live" /\ rx[c] # <<>>
    /\ seen' = [seen EXCEPT ![c] = Append(@, Head(rx[c]))]
    /\ rx' = [rx EXCEPT ![c] = Tail(@)]
    /\ UNCHANGED <<table, sending, updates, broadcaster, handler, unsynced, told, gone>>

\* Writing to a connection that is broken fails, not always the first time.
SendFails(c) ==
    /\ c \in gone
    /\ \/ handler[c] = "sync" /\ unsynced[c] # {}
       \/ handler[c] = "live" /\ rx[c] # <<>>
    /\ EndHandler(c)
    /\ UNCHANGED <<table, sending, updates, broadcaster, gone>>

\* rx.recv fails once the sender is dropped and the channel is empty.
HangUp(c) ==
    /\ handler[c] = "live" /\ rx[c] = <<>>
    /\ c \notin streams
    /\ EndHandler(c)
    /\ UNCHANGED <<table, sending, updates, broadcaster, gone>>

Handle(c) ==
    \/ ReadTrains(c) \/ ReadFails(c) \/ SendTrain(c) \/ SendMsg(c) \/ SendFails(c)
    \/ HangUp(c)

LiveNext ==
    \/ \E t \in Trains : CommitActivation(t) \/ CommitMovement(t) \/ Terminate(t)
    \/ \E packet \in Packets : SendUpdate(packet)
    \/ \E c \in Clients : AcceptClient(c) \/ ClientVanishes(c) \/ Handle(c)
    \/ NewStream \/ Broadcast

LiveSpec == LiveInit /\ [][LiveNext]_livevars

-----------------------------------------------------------------------------
(* Properties                                                               *)

Registered(c) == handler[c] \in {"start", "sync", "live"}
Told(c) == told[c] \cup {p.train : p \in {q \in In(seen[c]) : q.update = "activation"}}

\* A client that is connected is given every announcement since it was
\* registered, once and in the order in which the broadcaster took them,
\* whoever else comes and goes.
StreamIsContiguous ==
    \A c \in Clients : Registered(c) /\ alive =>
        seen[c] \o rx[c] = SubSeq(taken, since[c] + 1, Len(taken))

\* Between reading the table and the announcements no train is missed: one that
\* runs was sent to a client that is up to date, or is on its way to it.
NoTrainIsMissed ==
    \A c \in Clients : handler[c] = "live" /\ alive =>
        \A t \in running :
            \/ t \in Told(c)
            \/ Activation(t) \in committed \cup In(updates) \cup In(rx[c])

\* The way there is not endless: a client that stays, and whose handler could
\* read the table, is told of a running train as long as the broadcaster lives.
TrainsAreTold ==
    \A c \in Clients, t \in Trains :
        Registered(c) /\ t \in running ~>
            t \in Told(c) \/ t \in ended \/ handler[c] = "ended" \/ ~alive

\* When the broadcaster has died, every client it had registered is let go,
\* rather than kept on a connection on which nothing comes any more.
DeadBroadcasterLetsGo ==
    \A c \in Clients : Registered(c) /\ ~alive ~> handler[c] = "ended"

\* Together: nobody stays connected without being told.
ClientsAreServed == TrainsAreTold /\ DeadBroadcasterLetsGo

-----------------------------------------------------------------------------
(* The inductive invariant                                                  *)

\* What a client that has read the table was not told of is in its list, or on
\* its way.
TrainsOnTheWay ==
    \A c \in Clients : handler[c] \in {"sync", "live"} /\ alive =>
        \A t \in running :
            \/ t \in unsynced[c] \cup Told(c)
            \/ Activation(t) \in committed \cup In(updates) \cup In(rx[c])

\* A client has a sender once it is registered, and nothing before.
ClientsInStep ==
    \A c \in Clients :
        /\ since[c] <= Len(taken)
        /\ Registered(c) /\ alive => c \in streams
        /\ handler[c] = "live" => unsynced[c] = {}
        /\ handler[c] \in {"none", "queued"} =>
              rx[c] = <<>> /\ seen[c] = <<>> /\ c \notin streams

QueuedOnce ==
    \A i \in DOMAIN new_streams :
        /\ handler[new_streams[i]] = "queued"
        /\ \A j \in DOMAIN new_streams : new_streams[i] = new_streams[j] => i = j

LiveInv ==
    LiveTypeOK /\ StreamIsContiguous /\ TrainsOnTheWay /\ ClientsInStep /\ QueuedOnce
=============================================================================
