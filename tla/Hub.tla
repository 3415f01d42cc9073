--------------------------------- MODULE Hub ---------------------------------
(***************************************************************************)
(* The WebSocket hub of the query service (services/query/ws/hub.go) and   *)
(* the Redis subscription that feeds it (services/query/rdb/redis.go).     *)
(*                                                                         *)
(* Four kinds of goroutine meet at three unbuffered channels: one HTTP     *)
(* handler and one reader per connection, the subscriber, and Run, which   *)
(* alone touches the client map.  A channel operation is one step of both  *)
(* sides.  WriteMessage has no deadline: while a client does not read, Run *)
(* is inside its broadcast loop.                                           *)
(***************************************************************************)
EXTENDS Integers, Sequences, FiniteSets

CONSTANTS
    Conns,       \* the WebSocket connections, each used once
    Published,   \* bound of the model: messages PUBLISHed are 1 .. Published
    InboxSize,   \* capacity of the channel of go-redis (100)
    CanStall     \* the clients that may stop reading without closing

ASSUME HubAssumption ==
    /\ IsFiniteSet(Conns)
    /\ Published \in Nat
    /\ InboxSize \in Nat \ {0}
    /\ CanStall \subseteq Conns

VARIABLES
    peer,      \* per connection: the browser's end
    phase,     \* per connection: the handler, then the reader goroutine
    open,      \* per connection: the server's end has not been closed
    clients,   \* h.clients
    gauge,     \* metrics.ActiveWebSockets
    sent,      \* messages PUBLISHed so far
    inbox,     \* the channel of go-redis
    carried,   \* what the subscriber wants to broadcast, 0 for nothing
    writing,   \* what Run is writing to the clients, 0 in the select
    todo,      \* the clients this broadcast has yet to reach
    current,   \* of these, the one WriteMessage has been called for, if any
    accepted,  \* history: the messages Run has taken
    joined,    \* history: per connection, how many it had taken before
    delivered  \* history: per connection, what the browser received

vars == <<peer, phase, open, clients, gauge, sent, inbox, carried, writing,
          todo, current, accepted, joined, delivered>>
browser == <<peer, delivered>>
feed == <<sent, inbox, carried>>
loop == <<writing, todo, current, accepted>>
registry == <<clients, gauge, open>>

TypeOK ==
    /\ peer \in [Conns -> {"away", "up", "stalled", "gone"}]
    /\ phase \in [Conns -> {"absent", "registering", "reading", "unregistering", "ended"}]
    /\ open \in [Conns -> BOOLEAN]
    /\ clients \in SUBSET Conns
    /\ gauge \in Int
    /\ sent \in 0 .. Published
    /\ inbox \in Seq(1 .. Published) /\ Len(inbox) <= InboxSize
    /\ carried \in 0 .. Published
    /\ writing \in 0 .. Published
    /\ todo \in SUBSET Conns
    /\ current \in SUBSET Conns
    /\ accepted \in Seq(1 .. Published)
    /\ joined \in [Conns -> Nat]
    /\ delivered \in [Conns -> Seq(1 .. Published)]

Init ==
    /\ peer = [c \in Conns |-> "away"]
    /\ phase = [c \in Conns |-> "absent"]
    /\ open = [c \in Conns |-> FALSE]
    /\ clients = {}
    /\ gauge = 0
    /\ sent = 0
    /\ inbox = <<>>
    /\ carried = 0
    /\ writing = 0
    /\ todo = {} /\ current = {}
    /\ accepted = <<>>
    /\ joined = [c \in Conns |-> 0]
    /\ delivered = [c \in Conns |-> <<>>]

-----------------------------------------------------------------------------
(* The browsers.                                                           *)

(* ServeWS: the upgrade succeeds and the handler waits to register.        *)
Connect(c) ==
    /\ phase[c] = "absent"
    /\ phase' = [phase EXCEPT ![c] = "registering"]
    /\ peer' = [peer EXCEPT ![c] = "up"]
    /\ open' = [open EXCEPT ![c] = TRUE]
    /\ UNCHANGED <<clients, gauge, feed, loop, joined, delivered>>

(* The browser goes away; nothing it is sent reaches it any more.          *)
Leave(c) ==
    /\ peer[c] \in {"up", "stalled"}
    /\ peer' = [peer EXCEPT ![c] = "gone"]
    /\ UNCHANGED <<phase, registry, feed, loop, joined, delivered>>

(* The browser stops reading but keeps the connection (a sleeping laptop), *)
(* and the buffers between it and the hub are full.                        *)
Stall(c) ==
    /\ c \in CanStall
    /\ peer[c] = "up"
    /\ peer' = [peer EXCEPT ![c] = "stalled"]
    /\ UNCHANGED <<phase, registry, feed, loop, joined, delivered>>

Resume(c) ==
    /\ peer[c] = "stalled"
    /\ peer' = [peer EXCEPT ![c] = "up"]
    /\ UNCHANGED <<phase, registry, feed, loop, joined, delivered>>

-----------------------------------------------------------------------------
(* Redis Pub/Sub and the subscriber goroutine.                             *)

(* The channel of go-redis can take another message.                       *)
FaultyHasRoom == Len(inbox) <= InboxSize

HasRoom == Len(inbox) < InboxSize

(* A message is published; go-redis queues it, or misses it when its       *)
(* channel is full or its connection is being renewed.                     *)
Publish ==
    /\ sent < Published
    /\ sent' = sent + 1
    /\ \/ HasRoom /\ inbox' = Append(inbox, sent + 1)
       \/ UNCHANGED inbox
    /\ UNCHANGED <<browser, phase, registry, carried, loop, joined>>

(* for msg := range ch { hub.Broadcast(...) }                              *)
TakeUpdate ==
    /\ carried = 0 /\ inbox # <<>>
    /\ carried' = Head(inbox)
    /\ inbox' = Tail(inbox)
    /\ UNCHANGED <<browser, phase, registry, sent, loop, joined>>

-----------------------------------------------------------------------------
(* Run: one select, and the loop of a broadcast.                           *)

InSelect == writing = 0

Register(c) ==
    /\ InSelect
    /\ phase[c] = "registering"
    /\ phase' = [phase EXCEPT ![c] = "reading"]
    /\ clients' = clients \cup {c}
    /\ gauge' = gauge + 1
    /\ joined' = [joined EXCEPT ![c] = Len(accepted)]
    /\ UNCHANGED <<browser, open, feed, loop>>

(* What is left to do for a connection whose reader has ended: nothing     *)
(* when a failed write has removed it already.  (A definition named        *)
(* Faulty... is what a slip would make of the one that follows it; no      *)
(* specification uses it.)                                                 *)
FaultyRemovalTwice(c) ==
    /\ clients' = clients \ {c}
    /\ open' = [open EXCEPT ![c] = FALSE]
    /\ gauge' = gauge - 1
FaultyRemovalOpen(c) ==
    IF c \in clients
    THEN clients' = clients \ {c} /\ gauge' = gauge - 1 /\ UNCHANGED open
    ELSE UNCHANGED registry

Removal(c) ==
    IF c \in clients
    THEN /\ clients' = clients \ {c}
         /\ open' = [open EXCEPT ![c] = FALSE]
         /\ gauge' = gauge - 1
    ELSE UNCHANGED registry

Unregister(c) ==
    /\ InSelect
    /\ phase[c] = "unregistering"
    /\ phase' = [phase EXCEPT ![c] = "ended"]
    /\ Removal(c)
    /\ UNCHANGED <<browser, feed, loop, joined>>

(* The clients a message is written to, and when the loop over them ends.  *)
FaultyRecipients == {c \in clients : joined[c] < Len(accepted)}
FaultyAllWrittenEarly == TRUE
FaultyAllWrittenNever == todo = {} /\ clients # {}

Recipients == clients
AllWritten == todo = {}

Broadcast ==
    /\ InSelect
    /\ carried # 0
    /\ writing' = carried
    /\ todo' = Recipients
    /\ accepted' = Append(accepted, carried)
    /\ carried' = 0
    /\ UNCHANGED <<browser, phase, registry, sent, inbox, current, joined>>

(* for client := range h.clients: in no particular order.                  *)
WriteMessage(c) ==
    /\ current = {} /\ c \in todo
    /\ current' = {c}
    /\ UNCHANGED <<browser, phase, registry, feed, writing, todo, accepted, joined>>

(* WriteMessage succeeds; the bytes reach a browser only if it is there.   *)
WriteOk(c) ==
    /\ c \in current
    /\ peer[c] \in {"up", "gone"}
    /\ todo' = todo \ {c} /\ current' = {}
    /\ delivered' = IF peer[c] = "up" THEN [delivered EXCEPT ![c] = Append(@, writing)]
                                      ELSE delivered
    /\ UNCHANGED <<peer, phase, registry, feed, writing, accepted, joined>>

(* WriteMessage fails: Run closes and forgets the client itself.           *)
WriteError(c) ==
    /\ c \in current
    /\ peer[c] = "gone"
    /\ todo' = todo \ {c} /\ current' = {}
    /\ clients' = clients \ {c}
    /\ open' = [open EXCEPT ![c] = FALSE]
    /\ gauge' = gauge - 1
    /\ UNCHANGED <<browser, phase, feed, writing, accepted, joined>>

EndBroadcast ==
    /\ writing # 0 /\ AllWritten
    /\ writing' = 0
    /\ UNCHANGED <<browser, phase, registry, feed, todo, current, accepted, joined>>

(* ReadMessage fails because the browser left or Run closed the connection. *)
FaultyDisconnected(c) == ~open[c]

Disconnected(c) == peer[c] = "gone" \/ ~open[c]

ReadError(c) ==
    /\ phase[c] = "reading"
    /\ Disconnected(c)
    /\ phase' = [phase EXCEPT ![c] = "unregistering"]
    /\ UNCHANGED <<browser, registry, feed, loop, joined>>

-----------------------------------------------------------------------------
Write(c) == WriteMessage(c) \/ WriteOk(c) \/ WriteError(c)

Next ==
    \/ \E c \in Conns :
        \/ Connect(c) \/ Leave(c) \/ Stall(c) \/ Resume(c)
        \/ Register(c) \/ Unregister(c) \/ Write(c) \/ ReadError(c)
    \/ Publish
    \/ TakeUpdate
    \/ Broadcast
    \/ EndBroadcast

Spec == Init /\ [][Next]_vars

(* Every goroutine that can run does; a select with several ready channels *)
(* picks one at random, so none is passed over for ever.  A blocked write  *)
(* goes on when its browser reads, however often the browser pauses.       *)
FairSpec ==
    /\ Spec
    /\ SF_vars(\E c \in Conns : Write(c))
    /\ WF_vars(TakeUpdate) /\ WF_vars(EndBroadcast) /\ SF_vars(Broadcast)
    /\ \A c \in Conns :
        /\ SF_vars(Register(c)) /\ SF_vars(Unregister(c))
        /\ WF_vars(ReadError(c))

-----------------------------------------------------------------------------
(* The gauge is the number of clients although three pieces of code count, *)
(* and a write and the reader may both notice the same disconnect.         *)
GaugeMatches == gauge = Cardinality(clients)

(* Run writes only to connections it has not closed, each of them in its   *)
(* map; and a connection whose goroutines have ended is closed and gone    *)
(* from the map.                                                           *)
NothingLeaks ==
    /\ current \subseteq todo /\ todo \subseteq clients
    /\ \A c \in clients : open[c] /\ phase[c] \in {"reading", "unregistering"}
    /\ \A c \in Conns : phase[c] = "ended" => ~open[c] /\ c \notin clients

(* The hub implements Fanout: a member is a browser, in from the moment it *)
(* is registered to the moment it goes away.                               *)
Membership(c) ==
    IF peer[c] = "gone" THEN "left"
    ELSE IF phase[c] \in {"absent", "registering"} THEN "new"
    ELSE "in"

Promise == INSTANCE Fanout WITH
    Members <- Conns, Messages <- 1 .. Published,
    log <- accepted, state <- [c \in Conns |-> Membership(c)],
    from <- [c \in Conns |-> IF Membership(c) = "in" THEN joined[c] ELSE 0], got <- delivered

ImplementsFanout == Promise!Spec

(* Every browser that stops reading resumes, or goes away, some time.      *)
NobodyStallsForever == \A c \in Conns : []<>(peer[c] # "stalled")

(* A browser that went away is forgotten and its goroutines end, although  *)
(* they wait for a Run that may always have something else to do.          *)
GoneIsForgotten ==
    NobodyStallsForever =>
        \A c \in Conns : peer[c] = "gone" ~> (phase[c] = "ended" /\ c \notin clients)

(* Every message the subscriber takes is written to all the clients, and   *)
(* Run is back in its select.                                              *)
UpdatesGoOut ==
    NobodyStallsForever =>
        \A n \in 1 .. Published : carried = n ~> (InSelect /\ carried # n)

(* documentation.tex:240 ("all connected dashboards receive updates"):     *)
(* what Run takes while a browser takes part reaches it, if it stays and   *)
(* reads.                                                                  *)
ReadersReceive ==
    \A c \in Conns : \A n \in 1 .. Published :
        (/\ Membership(c) = "in" /\ carried = n)
            ~> \/ peer[c] # "up"
               \/ \E i \in 1 .. Len(delivered[c]) : delivered[c][i] = n

(* It does, unless some browser stalls for ever.                           *)
ReadersReceiveUnlessStalled == NobodyStallsForever => ReadersReceive
=============================================================================
