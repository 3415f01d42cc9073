------------------------------ MODULE HubProofs ------------------------------
(***************************************************************************)
(* The hub for any number of connections, messages and capacities: its map *)
(* and its gauge, and that it implements Fanout.                           *)
(***************************************************************************)
EXTENDS Hub, FiniteSetTheorems, TLAPS

Peers == {"away", "up", "stalled", "gone"}
Phases == {"absent", "registering", "reading", "unregistering", "ended"}
Numbers == 1 .. Published

(* Numbers of messages and the lengths of what holds them.                 *)
LEMMA AppendType ==
    ASSUME NEW s \in Seq(Numbers), NEW n \in Numbers
    PROVE  Append(s, n) \in Seq(Numbers) /\ Len(Append(s, n)) = Len(s) + 1
  OBVIOUS

LEMMA TailType ==
    ASSUME NEW s \in Seq(Numbers), s # <<>>
    PROVE  /\ Head(s) \in Numbers
           /\ Tail(s) \in Seq(Numbers) /\ Len(Tail(s)) = Len(s) - 1
  OBVIOUS

(* In the select Run writes to nobody; outside, to a client it has yet to  *)
(* reach.                                                                  *)
LoopInvariant ==
    /\ current \subseteq todo
    /\ writing = 0 => todo = {}

LEMMA LoopInvariantHolds == Spec => []LoopInvariant
  <1>1. Init => LoopInvariant
    BY DEF Init, LoopInvariant
  <1>2. LoopInvariant /\ [Next]_vars => LoopInvariant'
    <2> SUFFICES ASSUME LoopInvariant, [Next]_vars
                 PROVE  LoopInvariant'
      OBVIOUS
    <2> USE DEF LoopInvariant, loop
    <2>1. ASSUME UNCHANGED loop
          PROVE  LoopInvariant'
      BY <2>1
    <2>2. ASSUME NEW c \in Conns, Write(c)
          PROVE  LoopInvariant'
      BY <2>2 DEF Write, WriteMessage, WriteOk, WriteError
    <2>3. CASE Broadcast
      BY <2>3 DEF Broadcast, InSelect
    <2>4. CASE EndBroadcast
      BY <2>4 DEF EndBroadcast, AllWritten
    <2>5. ASSUME NEW c \in Conns,
                 \/ Connect(c) \/ Leave(c) \/ Stall(c) \/ Resume(c)
                 \/ Register(c) \/ Unregister(c) \/ ReadError(c)
          PROVE  UNCHANGED loop
      BY <2>5 DEF Connect, Leave, Stall, Resume, Register, Unregister, ReadError
    <2>6. CASE Publish \/ TakeUpdate \/ UNCHANGED vars
      BY <2>1, <2>6 DEF Publish, TakeUpdate, vars
    <2> QED
      BY <2>1, <2>2, <2>3, <2>4, <2>5, <2>6 DEF Next
  <1> QED
    BY <1>1, <1>2, PTL DEF Spec

(* Type correctness.                                                       *)
THEOREM HubTypeCorrect == Spec => []TypeOK
  <1>1. Init => TypeOK
    BY HubAssumption DEF Init, TypeOK
  <1>2. TypeOK /\ LoopInvariant /\ [Next]_vars => TypeOK'
    <2> SUFFICES ASSUME TypeOK, LoopInvariant, [Next]_vars
                 PROVE  TypeOK'
      OBVIOUS
    <2> USE HubAssumption DEF TypeOK, browser, feed, loop, registry
    <2>1. ASSUME NEW c \in Conns, Connect(c)
          PROVE  TypeOK'
      BY <2>1 DEF Connect
    <2>2. ASSUME NEW c \in Conns, Leave(c)
          PROVE  TypeOK'
      BY <2>2 DEF Leave
    <2>3. ASSUME NEW c \in Conns, Stall(c)
          PROVE  TypeOK'
      BY <2>3 DEF Stall
    <2>4. ASSUME NEW c \in Conns, Resume(c)
          PROVE  TypeOK'
      BY <2>4 DEF Resume
    <2>5. ASSUME NEW c \in Conns, Register(c)
          PROVE  TypeOK'
      BY <2>5 DEF Register
    <2>6. ASSUME NEW c \in Conns, Unregister(c)
          PROVE  TypeOK'
      <3>1. /\ phase' \in [Conns -> Phases]
            /\ UNCHANGED <<browser, feed, loop, joined>>
        BY <2>6 DEF Unregister, Phases
      <3>2. clients' \in SUBSET Conns /\ open' \in [Conns -> BOOLEAN] /\ gauge' \in Int
        <4>1. CASE c \in clients
          <5>1. /\ clients' = clients \ {c} /\ gauge' = gauge - 1
                /\ open' = [open EXCEPT ![c] = FALSE]
            BY <2>6, <4>1 DEF Unregister, Removal
          <5> QED
            BY <5>1
        <4>2. CASE c \notin clients
          BY <2>6, <4>2 DEF Unregister, Removal
        <4> QED
          BY <4>1, <4>2
      <3> QED
        BY <3>1, <3>2 DEF Phases
    <2>7. ASSUME NEW c \in Conns, WriteMessage(c)
          PROVE  TypeOK'
      BY <2>7 DEF WriteMessage
    <2>8. ASSUME NEW c \in Conns, WriteOk(c)
          PROVE  TypeOK'
      <3>1. writing \in Numbers
        BY <2>8 DEF WriteOk, Numbers, LoopInvariant
      <3>2. delivered' \in [Conns -> Seq(Numbers)]
        <4>1. delivered[c] \in Seq(Numbers)
          BY DEF Numbers
        <4> QED
          BY <2>8, <3>1, <4>1, AppendType DEF WriteOk, Numbers
      <3> QED
        BY <2>8, <3>2 DEF WriteOk, Numbers
    <2>9. ASSUME NEW c \in Conns, WriteError(c)
          PROVE  TypeOK'
      BY <2>9 DEF WriteError
    <2>10. ASSUME NEW c \in Conns, ReadError(c)
           PROVE  TypeOK'
      BY <2>10 DEF ReadError
    <2>11. CASE Publish
      <3>1. sent' = sent + 1 /\ sent' \in Numbers
        BY <2>11 DEF Publish, Numbers
      <3>2. inbox' \in Seq(Numbers) /\ Len(inbox') <= InboxSize
        <4>1. inbox \in Seq(Numbers) /\ Len(inbox) \in Nat
          BY DEF Numbers
        <4>2. CASE HasRoom /\ inbox' = Append(inbox, sent + 1)
          BY <3>1, <4>1, <4>2, AppendType DEF HasRoom
        <4>3. CASE UNCHANGED inbox
          BY <4>1, <4>3
        <4> QED
          BY <2>11, <4>2, <4>3 DEF Publish
      <3> QED
        BY <2>11, <3>1, <3>2 DEF Publish, Numbers
    <2>12. CASE TakeUpdate
      BY <2>12, TailType DEF TakeUpdate, Numbers
    <2>13. CASE Broadcast
      BY <2>13, AppendType DEF Broadcast, Recipients, Numbers
    <2>14. CASE EndBroadcast
      BY <2>14 DEF EndBroadcast
    <2>15. CASE UNCHANGED vars
      BY <2>15 DEF vars
    <2> QED
      BY <2>1, <2>2, <2>3, <2>4, <2>5, <2>6, <2>7, <2>8, <2>9, <2>10, <2>11, <2>12, <2>13,
         <2>14, <2>15 DEF Next, Write
  <1> QED
    BY <1>1, <1>2, LoopInvariantHolds, PTL DEF Spec

-----------------------------------------------------------------------------
(* The argument for the gauge and the map.  What the reader of a           *)
(* connection has seen says whether the connection is in the map: only a   *)
(* failed write takes it out before the reader ends, and closes it.        *)
Serving == {"reading", "unregistering"}

ConnectionInvariant ==
    \A c \in Conns :
        /\ c \in clients => open[c] /\ phase[c] \in Serving
        /\ phase[c] = "registering" => open[c]
        /\ phase[c] \in Serving \cup {"ended"} /\ c \notin clients => ~open[c]

MapInvariant ==
    /\ TypeOK
    /\ LoopInvariant
    /\ GaugeMatches
    /\ todo \subseteq clients
    /\ ConnectionInvariant

(* Adding a client to the map and removing one from it.                    *)
LEMMA GaugeCounts ==
    ASSUME TypeOK, GaugeMatches, NEW c \in Conns
    PROVE  /\ c \notin clients => gauge + 1 = Cardinality(clients \cup {c})
           /\ c \in clients => gauge - 1 = Cardinality(clients \ {c})
  <1>1. IsFiniteSet(clients)
    BY HubAssumption, FS_Subset DEF TypeOK
  <1>2. /\ c \notin clients => Cardinality(clients \cup {c}) = Cardinality(clients) + 1
        /\ c \in clients => Cardinality(clients \ {c}) = Cardinality(clients) - 1
    BY <1>1, FS_AddElement, FS_RemoveElement
  <1> QED
    BY <1>2 DEF GaugeMatches

LEMMA MapInvariantHolds == Spec => []MapInvariant
  <1>1. Init /\ TypeOK /\ LoopInvariant => MapInvariant
    BY FS_EmptySet DEF Init, MapInvariant, GaugeMatches, ConnectionInvariant, Serving
  <1>2. MapInvariant /\ TypeOK' /\ LoopInvariant' /\ [Next]_vars => MapInvariant'
    <2> SUFFICES ASSUME MapInvariant, TypeOK', LoopInvariant', [Next]_vars
                 PROVE  GaugeMatches' /\ todo' \subseteq clients' /\ ConnectionInvariant'
      BY DEF MapInvariant
    <2>0. /\ TypeOK /\ GaugeMatches /\ todo \subseteq clients /\ ConnectionInvariant
          /\ LoopInvariant
          /\ phase \in [Conns -> Phases] /\ open \in [Conns -> BOOLEAN]
      BY DEF MapInvariant, TypeOK, Phases
    <2>a. ASSUME UNCHANGED <<clients, gauge>>
          PROVE  GaugeMatches'
      BY <2>0, <2>a DEF GaugeMatches
    <2>b. ASSUME NEW c \in Conns, c \in clients,
                 clients' = clients \ {c}, gauge' = gauge - 1
          PROVE  GaugeMatches'
      BY <2>0, <2>b, GaugeCounts DEF GaugeMatches
    <2>c. ASSUME UNCHANGED <<clients, open, phase>>
          PROVE  ConnectionInvariant'
      BY <2>0, <2>c DEF ConnectionInvariant
    <2>1. ASSUME NEW c \in Conns, Connect(c)
          PROVE  GaugeMatches' /\ todo' \subseteq clients' /\ ConnectionInvariant'
      <3>1. /\ phase[c] = "absent" /\ UNCHANGED <<clients, gauge, todo>>
            /\ phase' = [phase EXCEPT ![c] = "registering"]
            /\ open' = [open EXCEPT ![c] = TRUE]
        BY <2>1 DEF Connect, loop
      <3>2. ConnectionInvariant'
        BY <2>0, <3>1 DEF ConnectionInvariant, Serving
      <3> QED
        BY <2>0, <2>a, <3>1, <3>2
    <2>2. ASSUME NEW c \in Conns, Leave(c) \/ Stall(c) \/ Resume(c) \/ WriteMessage(c)
          PROVE  GaugeMatches' /\ todo' \subseteq clients' /\ ConnectionInvariant'
      <3>1. UNCHANGED <<clients, gauge, open, phase, todo>>
        BY <2>2 DEF Leave, Stall, Resume, WriteMessage, registry, loop
      <3> QED
        BY <2>0, <2>a, <2>c, <3>1
    <2>3. ASSUME NEW c \in Conns, Register(c)
          PROVE  GaugeMatches' /\ todo' \subseteq clients' /\ ConnectionInvariant'
      <3>1. /\ phase[c] = "registering" /\ phase' = [phase EXCEPT ![c] = "reading"]
            /\ clients' = clients \cup {c} /\ gauge' = gauge + 1
            /\ UNCHANGED <<open, todo>>
        BY <2>3 DEF Register, loop
      <3>2. c \notin clients /\ open[c]
        BY <2>0, <3>1 DEF ConnectionInvariant, Serving
      <3>3. GaugeMatches'
        BY <2>0, <3>1, <3>2, GaugeCounts DEF GaugeMatches
      <3>4. ConnectionInvariant'
        BY <2>0, <3>1, <3>2 DEF ConnectionInvariant, Serving
      <3> QED
        BY <2>0, <3>1, <3>3, <3>4
    <2>4. ASSUME NEW c \in Conns, Unregister(c)
          PROVE  GaugeMatches' /\ todo' \subseteq clients' /\ ConnectionInvariant'
      <3>1. /\ phase[c] = "unregistering" /\ phase' = [phase EXCEPT ![c] = "ended"]
            /\ todo' = {}
        BY <2>0, <2>4 DEF Unregister, loop, InSelect, LoopInvariant
      <3>2. CASE c \in clients
        <4>1. /\ clients' = clients \ {c} /\ gauge' = gauge - 1
              /\ open' = [open EXCEPT ![c] = FALSE]
          BY <2>4, <3>2 DEF Unregister, Removal
        <4>2. ConnectionInvariant'
          BY <2>0, <3>1, <4>1 DEF ConnectionInvariant, Serving
        <4> QED
          BY <2>b, <3>1, <3>2, <4>1, <4>2
      <3>3. CASE c \notin clients
        <4>1. UNCHANGED <<clients, gauge, open>>
          BY <2>4, <3>3 DEF Unregister, Removal, registry
        <4>2. ConnectionInvariant'
          BY <2>0, <3>1, <3>3, <4>1 DEF ConnectionInvariant, Serving
        <4> QED
          BY <2>a, <3>1, <4>1, <4>2
      <3> QED
        BY <3>2, <3>3
    <2>5. ASSUME NEW c \in Conns, WriteOk(c)
          PROVE  GaugeMatches' /\ todo' \subseteq clients' /\ ConnectionInvariant'
      <3>1. UNCHANGED <<clients, gauge, open, phase>> /\ todo' = todo \ {c}
        BY <2>5 DEF WriteOk, registry
      <3> QED
        BY <2>0, <2>a, <2>c, <3>1
    <2>6. ASSUME NEW c \in Conns, WriteError(c)
          PROVE  GaugeMatches' /\ todo' \subseteq clients' /\ ConnectionInvariant'
      <3>1. /\ c \in clients /\ clients' = clients \ {c} /\ gauge' = gauge - 1
            /\ open' = [open EXCEPT ![c] = FALSE] /\ phase' = phase
            /\ todo' = todo \ {c}
        BY <2>0, <2>6 DEF WriteError, LoopInvariant
      <3>2. ConnectionInvariant'
        BY <2>0, <3>1 DEF ConnectionInvariant, Serving
      <3> QED
        BY <2>0, <2>b, <3>1, <3>2
    <2>7. ASSUME NEW c \in Conns, ReadError(c)
          PROVE  GaugeMatches' /\ todo' \subseteq clients' /\ ConnectionInvariant'
      <3>1. /\ phase[c] = "reading" /\ phase' = [phase EXCEPT ![c] = "unregistering"]
            /\ UNCHANGED <<clients, gauge, open, todo>>
        BY <2>7 DEF ReadError, registry, loop
      <3>2. ConnectionInvariant'
        BY <2>0, <3>1 DEF ConnectionInvariant, Serving
      <3> QED
        BY <2>0, <2>a, <3>1, <3>2
    <2>8. CASE Publish \/ TakeUpdate \/ UNCHANGED vars
      <3>1. UNCHANGED <<clients, gauge, open, phase, todo>>
        BY <2>8 DEF Publish, TakeUpdate, vars, registry, loop
      <3> QED
        BY <2>0, <2>a, <2>c, <3>1
    <2>9. CASE Broadcast
      <3>1. UNCHANGED <<clients, gauge, open, phase>> /\ todo' = clients
        BY <2>9 DEF Broadcast, Recipients, registry
      <3> QED
        BY <2>a, <2>c, <3>1
    <2>10. CASE EndBroadcast
      <3>1. UNCHANGED <<clients, gauge, open, phase, todo>>
        BY <2>10 DEF EndBroadcast, registry
      <3> QED
        BY <2>0, <2>a, <2>c, <3>1
    <2> QED
      BY <2>1, <2>2, <2>3, <2>4, <2>5, <2>6, <2>7, <2>8, <2>9, <2>10 DEF Next, Write
  <1> QED
    BY <1>1, <1>2, HubTypeCorrect, LoopInvariantHolds, PTL DEF Spec

(* The gauge is the number of clients.                                     *)
THEOREM GaugeIsRight == Spec => []GaugeMatches
  <1>1. MapInvariant => GaugeMatches
    BY DEF MapInvariant
  <1> QED
    BY <1>1, MapInvariantHolds, PTL

(* Run writes to open connections of its map only, and nothing remains of  *)
(* a connection whose goroutines have ended.                               *)
THEOREM NothingRemains == Spec => []NothingLeaks
  <1>1. MapInvariant => NothingLeaks
    <2> SUFFICES ASSUME MapInvariant
                 PROVE  NothingLeaks
      OBVIOUS
    <2>1. current \subseteq todo /\ todo \subseteq clients /\ clients \subseteq Conns
      BY DEF MapInvariant, LoopInvariant, TypeOK
    <2>2. ConnectionInvariant
      BY DEF MapInvariant
    <2>3. \A c \in clients : open[c] /\ phase[c] \in Serving
      BY <2>1, <2>2 DEF ConnectionInvariant
    <2>4. \A c \in Conns : phase[c] = "ended" => c \notin clients /\ ~open[c]
      BY <2>2 DEF ConnectionInvariant, Serving
    <2> QED
      BY <2>1, <2>3, <2>4 DEF NothingLeaks, Serving
  <1> QED
    BY <1>1, MapInvariantHolds, PTL

-----------------------------------------------------------------------------
(* The argument for the refinement.  Messages keep the order in which they *)
(* were published on their way through the channel of go-redis and the     *)
(* subscriber to the log; Run is writing the last of the log.              *)
OrderInvariant ==
    /\ writing # 0 => Len(accepted) # 0 /\ accepted[Len(accepted)] = writing
    /\ \A i \in 1 .. Len(accepted) :
        /\ accepted[i] <= sent
        /\ carried # 0 => accepted[i] < carried
        /\ \A j \in 1 .. Len(inbox) : accepted[i] < inbox[j]
    /\ carried <= sent
    /\ \A j \in 1 .. Len(inbox) :
        /\ inbox[j] <= sent
        /\ carried < inbox[j]
        /\ \A k \in 1 .. j - 1 : inbox[k] < inbox[j]

(* The elements of a sequence of messages, and of one that has grown or    *)
(* shrunk.                                                                 *)
LEMMA ElementType ==
    ASSUME NEW s \in Seq(Numbers)
    PROVE  \A i \in 1 .. Len(s) : s[i] \in Nat /\ 0 < s[i]
  <1> SUFFICES ASSUME NEW i \in 1 .. Len(s)
               PROVE  s[i] \in Nat /\ 0 < s[i]
    OBVIOUS
  <1>1. s[i] \in Numbers
    OBVIOUS
  <1> QED
    BY <1>1, HubAssumption DEF Numbers

LEMMA AppendElements ==
    ASSUME NEW s \in Seq(Numbers), NEW n \in Numbers
    PROVE  /\ Len(Append(s, n)) = Len(s) + 1 /\ Len(s) \in Nat
           /\ \A i \in 1 .. Len(s) : Append(s, n)[i] = s[i]
           /\ Append(s, n)[Len(s) + 1] = n
           /\ \A i \in 1 .. Len(s) + 1 : i \in 1 .. Len(s) \/ i = Len(s) + 1
  <1>1. Len(Append(s, n)) = Len(s) + 1 /\ Len(s) \in Nat
    OBVIOUS
  <1>2. \A i \in 1 .. Len(s) : Append(s, n)[i] = s[i]
    OBVIOUS
  <1>3. Append(s, n)[Len(s) + 1] = n
    OBVIOUS
  <1>4. \A i \in 1 .. Len(s) + 1 : i \in 1 .. Len(s) \/ i = Len(s) + 1
    BY <1>1
  <1> QED
    BY <1>1, <1>2, <1>3, <1>4

LEMMA TailElements ==
    ASSUME NEW s \in Seq(Numbers), s # <<>>
    PROVE  /\ Len(Tail(s)) = Len(s) - 1 /\ Len(s) \in Nat /\ Len(s) > 0
           /\ Head(s) = s[1]
           /\ \A j \in 1 .. Len(s) - 1 : Tail(s)[j] = s[j + 1]
  <1>1. Len(Tail(s)) = Len(s) - 1 /\ Len(s) \in Nat /\ Len(s) > 0
    OBVIOUS
  <1>2. Head(s) = s[1]
    OBVIOUS
  <1>3. \A j \in 1 .. Len(s) - 1 : Tail(s)[j] = s[j + 1]
    OBVIOUS
  <1> QED
    BY <1>1, <1>2, <1>3

LEMMA OrderInvariantHolds == Spec => []OrderInvariant
  <1>1. Init => OrderInvariant
    BY DEF Init, OrderInvariant
  <1>2. OrderInvariant /\ TypeOK /\ [Next]_vars => OrderInvariant'
    <2> SUFFICES ASSUME OrderInvariant, TypeOK, [Next]_vars
                 PROVE  OrderInvariant'
      OBVIOUS
    <2>0. /\ sent \in Nat /\ carried \in Nat /\ writing \in Nat
          /\ accepted \in Seq(Numbers) /\ inbox \in Seq(Numbers)
      BY HubAssumption DEF TypeOK, Numbers
    <2>00. /\ \A i \in 1 .. Len(accepted) : accepted[i] \in Nat
           /\ \A j \in 1 .. Len(inbox) : inbox[j] \in Nat /\ 0 < inbox[j]
      BY <2>0, ElementType
    <2>1. ASSUME UNCHANGED <<writing, accepted, carried, inbox, sent>>
          PROVE  OrderInvariant'
      BY <2>1 DEF OrderInvariant
    <2>2. CASE Publish
      <3>1. /\ sent' = sent + 1 /\ sent + 1 \in Numbers
            /\ UNCHANGED <<writing, accepted, carried>>
        BY <2>0, <2>2, HubAssumption DEF Publish, loop, Numbers
      <3>2. CASE inbox' = inbox
        BY <2>0, <2>00, <3>1, <3>2 DEF OrderInvariant
      <3>3. CASE inbox' = Append(inbox, sent + 1)
        <4>1. /\ Len(inbox') = Len(inbox) + 1 /\ Len(inbox) \in Nat
              /\ \A i \in 1 .. Len(inbox) : inbox[i] \in Int /\ inbox'[i] = inbox[i]
              /\ inbox'[Len(inbox) + 1] = sent + 1
              /\ \A i \in 1 .. Len(inbox) + 1 : i \in 1 .. Len(inbox) \/ i = Len(inbox) + 1
          BY <2>0, <2>00, <3>1, <3>3, AppendElements
        <4>2. \A i \in 1 .. Len(accepted) : accepted[i] \in Int
          BY <2>00
        <4>3. \A j \in 1 .. Len(inbox) + 1 :
                /\ inbox'[j] <= sent + 1
                /\ carried < inbox'[j]
                /\ \A i \in 1 .. Len(accepted) : accepted[i] < inbox'[j]
          <5> SUFFICES ASSUME NEW j \in 1 .. Len(inbox) + 1
                       PROVE  /\ inbox'[j] <= sent + 1
                              /\ carried < inbox'[j]
                              /\ \A i \in 1 .. Len(accepted) : accepted[i] < inbox'[j]
            OBVIOUS
          <5>1. CASE j \in 1 .. Len(inbox)
            <6>1. inbox'[j] = inbox[j] /\ inbox[j] \in Int
              BY <4>1, <5>1
            <6>2. /\ inbox[j] <= sent /\ carried < inbox[j]
                  /\ \A i \in 1 .. Len(accepted) : accepted[i] < inbox[j]
              BY <5>1 DEF OrderInvariant
            <6> QED
              BY <2>0, <6>1, <6>2
          <5>2. CASE j = Len(inbox) + 1
            <6>1. inbox'[j] = sent + 1
              BY <4>1, <5>2
            <6>2. carried <= sent /\ \A i \in 1 .. Len(accepted) : accepted[i] <= sent
              BY DEF OrderInvariant
            <6> QED
              BY <2>0, <4>2, <6>1, <6>2
          <5> QED
            BY <4>1, <5>1, <5>2
        <4>4. \A j \in 1 .. Len(inbox) + 1 : \A k \in 1 .. j - 1 : inbox'[k] < inbox'[j]
          <5> SUFFICES ASSUME NEW j \in 1 .. Len(inbox) + 1, NEW k \in 1 .. j - 1
                       PROVE  inbox'[k] < inbox'[j]
            OBVIOUS
          <5>1. k \in 1 .. Len(inbox)
            BY <4>1
          <5>2. CASE j \in 1 .. Len(inbox)
            <6>1. inbox'[j] = inbox[j] /\ inbox'[k] = inbox[k]
              BY <4>1, <5>1, <5>2
            <6> QED
              BY <5>2, <6>1 DEF OrderInvariant
          <5>3. CASE j = Len(inbox) + 1
            <6>1. inbox'[j] = sent + 1 /\ inbox'[k] = inbox[k] /\ inbox[k] \in Int
              BY <4>1, <5>1, <5>3
            <6>2. inbox[k] <= sent
              BY <5>1 DEF OrderInvariant
            <6> QED
              BY <2>0, <6>1, <6>2
          <5> QED
            BY <4>1, <5>2, <5>3
        <4>5. \A i \in 1 .. Len(accepted) :
                accepted[i] <= sent + 1 /\ (carried # 0 => accepted[i] < carried)
          BY <2>0, <4>2 DEF OrderInvariant
        <4>6. carried <= sent + 1
          BY <2>0 DEF OrderInvariant
        <4> QED
          BY <3>1, <4>1, <4>3, <4>4, <4>5, <4>6 DEF OrderInvariant
      <3> QED
        BY <2>2, <3>2, <3>3 DEF Publish
    <2>3. CASE TakeUpdate
      <3>1. /\ carried = 0 /\ inbox # <<>> /\ carried' = Head(inbox) /\ inbox' = Tail(inbox)
            /\ UNCHANGED <<writing, accepted, sent>>
        BY <2>3 DEF TakeUpdate, loop
      <3>2. /\ Len(inbox') = Len(inbox) - 1 /\ Len(inbox) \in Nat /\ Len(inbox) > 0
            /\ carried' = inbox[1]
            /\ \A j \in 1 .. Len(inbox) : inbox[j] \in Int
            /\ \A j \in 1 .. Len(inbox) - 1 : inbox'[j] = inbox[j + 1]
        BY <2>0, <2>00, <3>1, TailElements
      <3>3. \A i \in 1 .. Len(accepted) :
              /\ accepted[i] <= sent
              /\ accepted[i] < carried'
              /\ \A j \in 1 .. Len(inbox) - 1 : accepted[i] < inbox'[j]
        BY <3>2 DEF OrderInvariant
      <3>4. carried' <= sent
        BY <3>2 DEF OrderInvariant
      <3>5. \A j \in 1 .. Len(inbox) - 1 :
              /\ inbox'[j] <= sent
              /\ carried' < inbox'[j]
              /\ \A k \in 1 .. j - 1 : inbox'[k] < inbox'[j]
        <4> SUFFICES ASSUME NEW j \in 1 .. Len(inbox) - 1
                     PROVE  /\ inbox'[j] <= sent
                            /\ carried' < inbox'[j]
                            /\ \A k \in 1 .. j - 1 : inbox'[k] < inbox'[j]
          OBVIOUS
        <4>1. j + 1 \in 1 .. Len(inbox) /\ 1 \in 1 .. (j + 1) - 1
          BY <3>2
        <4>2. inbox'[j] = inbox[j + 1] /\ carried' = inbox[1]
          BY <3>2
        <4>3. ASSUME NEW k \in 1 .. j - 1
              PROVE  k + 1 \in 1 .. (j + 1) - 1 /\ inbox'[k] = inbox[k + 1]
          <5>1. /\ Len(inbox) \in Nat /\ j \in Int /\ k \in Int
                /\ 1 <= k /\ k <= j - 1 /\ j <= Len(inbox) - 1
            BY <3>2
          <5>2. k + 1 \in 1 .. (j + 1) - 1 /\ k \in 1 .. Len(inbox) - 1
            BY <5>1
          <5>3. inbox'[k] = inbox[k + 1]
            BY <3>2, <5>2
          <5> QED
            BY <5>2, <5>3
        <4>4. \A k \in 1 .. (j + 1) - 1 : inbox[k] < inbox[j + 1]
          BY <4>1 DEF OrderInvariant
        <4> QED
          BY <4>1, <4>2, <4>3, <4>4 DEF OrderInvariant
      <3> QED
        BY <3>1, <3>2, <3>3, <3>4, <3>5 DEF OrderInvariant
    <2>4. CASE Broadcast
      <3>1. /\ carried \in Numbers /\ writing' = carried /\ carried' = 0
            /\ accepted' = Append(accepted, carried)
            /\ UNCHANGED <<inbox, sent>>
        BY <2>0, <2>4 DEF Broadcast, TypeOK, Numbers
      <3>2. /\ Len(accepted') = Len(accepted) + 1 /\ Len(accepted) \in Nat
            /\ \A i \in 1 .. Len(accepted) : accepted[i] \in Int /\ accepted'[i] = accepted[i]
            /\ accepted'[Len(accepted) + 1] = carried
            /\ \A i \in 1 .. Len(accepted) + 1 : i \in 1 .. Len(accepted) \/ i = Len(accepted) + 1
        BY <2>0, <2>00, <3>1, AppendElements
      <3>3. \A i \in 1 .. Len(accepted) + 1 :
              /\ accepted'[i] <= sent
              /\ \A j \in 1 .. Len(inbox) : accepted'[i] < inbox[j]
        BY <3>2 DEF OrderInvariant
      <3> QED
        BY <2>0, <2>00, <3>1, <3>2, <3>3 DEF OrderInvariant
    <2>5. CASE EndBroadcast
      BY <2>5 DEF EndBroadcast, feed, OrderInvariant
    <2>6. ASSUME NEW c \in Conns,
                 \/ Connect(c) \/ Leave(c) \/ Stall(c) \/ Resume(c)
                 \/ Register(c) \/ Unregister(c) \/ Write(c) \/ ReadError(c)
          PROVE  UNCHANGED <<writing, accepted, carried, inbox, sent>>
      BY <2>6 DEF Connect, Leave, Stall, Resume, Register, Unregister, Write, WriteMessage,
                  WriteOk, WriteError, ReadError, loop, feed
    <2>7. CASE UNCHANGED vars
      BY <2>1, <2>7 DEF vars
    <2> QED
      BY <2>1, <2>2, <2>3, <2>4, <2>5, <2>6, <2>7 DEF Next
  <1> QED
    BY <1>1, <1>2, HubTypeCorrect, PTL DEF Spec

(* A browser that takes part is in the map and served; it has received     *)
(* what was accepted since it joined, but for the message being written.   *)
TakesPart(c) == peer[c] # "gone" /\ phase[c] \in Serving \cup {"ended"}
Missing(c) == IF c \in todo THEN 1 ELSE 0

DeliveryInvariant ==
    \A c \in Conns :
        /\ phase[c] = "absent" => peer[c] = "away"
        /\ phase[c] \in {"absent", "registering"} => delivered[c] = <<>>
        /\ TakesPart(c) =>
            /\ c \in clients /\ phase[c] = "reading"
            /\ joined[c] + Len(delivered[c]) + Missing(c) = Len(accepted)

LEMMA MembershipTakesPart ==
    ASSUME TypeOK, NEW c \in Conns
    PROVE  /\ Membership(c) = "in" <=> TakesPart(c)
           /\ Membership(c) = "left" <=> peer[c] = "gone"
           /\ Membership(c) = "new" <=> peer[c] # "gone" /\ phase[c] \in {"absent", "registering"}
           /\ Membership(c) \in {"new", "in", "left"}
  <1>1. phase[c] \in Phases
    BY DEF TypeOK, Phases
  <1> QED
    BY <1>1 DEF Membership, TakesPart, Serving, Phases

LEMMA DeliveryInvariantHolds == Spec => []DeliveryInvariant
  <1>1. Init => DeliveryInvariant
    BY DEF Init, DeliveryInvariant, TakesPart, Serving
  <1>2. DeliveryInvariant /\ MapInvariant /\ [Next]_vars => DeliveryInvariant'
    <2> SUFFICES ASSUME DeliveryInvariant, MapInvariant, [Next]_vars
                 PROVE  DeliveryInvariant'
      OBVIOUS
    <2>0. /\ peer \in [Conns -> Peers] /\ phase \in [Conns -> Phases]
          /\ joined \in [Conns -> Nat]
          /\ delivered \in [Conns -> Seq(Numbers)]
          /\ todo \subseteq clients /\ current \subseteq todo /\ (writing = 0 => todo = {})
          /\ ConnectionInvariant
          /\ writing \in 0 .. Published /\ carried \in 0 .. Published
          /\ accepted \in Seq(Numbers)
      BY DEF MapInvariant, TypeOK, Peers, Phases, Numbers, LoopInvariant
    <2>00. /\ Len(accepted) \in Nat
           /\ \A d \in Conns : Len(delivered[d]) \in Nat /\ joined[d] \in Nat
      BY <2>0
    <2>1. ASSUME UNCHANGED <<peer, phase, delivered, clients, todo, joined, accepted>>
          PROVE  DeliveryInvariant'
      BY <2>1 DEF DeliveryInvariant, TakesPart, Missing
    <2>2. ASSUME NEW c \in Conns, Connect(c)
          PROVE  DeliveryInvariant'
      <3>1. /\ phase[c] = "absent" /\ phase' = [phase EXCEPT ![c] = "registering"]
            /\ peer' = [peer EXCEPT ![c] = "up"]
            /\ UNCHANGED <<delivered, clients, todo, joined, accepted>>
        BY <2>2 DEF Connect, loop
      <3> QED
        BY <2>0, <3>1 DEF DeliveryInvariant, TakesPart, Missing, Serving
    <2>3. ASSUME NEW c \in Conns, Leave(c)
          PROVE  DeliveryInvariant'
      <3>1. /\ peer[c] \in {"up", "stalled"} /\ peer' = [peer EXCEPT ![c] = "gone"]
            /\ UNCHANGED <<phase, delivered, clients, todo, joined, accepted>>
        BY <2>3 DEF Leave, registry, loop
      <3> QED
        BY <2>0, <3>1 DEF DeliveryInvariant, TakesPart, Missing, Serving
    <2>4. ASSUME NEW c \in Conns, Stall(c) \/ Resume(c)
          PROVE  DeliveryInvariant'
      <3>1. /\ peer[c] \in {"up", "stalled"}
            /\ \E p \in {"up", "stalled"} : peer' = [peer EXCEPT ![c] = p]
            /\ UNCHANGED <<phase, delivered, clients, todo, joined, accepted>>
        BY <2>4 DEF Stall, Resume, registry, loop
      <3> QED
        BY <2>0, <3>1 DEF DeliveryInvariant, TakesPart, Missing, Serving
    <2>5. ASSUME NEW c \in Conns, Register(c)
          PROVE  DeliveryInvariant'
      <3>1. /\ todo = {} /\ phase[c] = "registering" /\ phase' = [phase EXCEPT ![c] = "reading"]
            /\ clients' = clients \cup {c}
            /\ joined' = [joined EXCEPT ![c] = Len(accepted)]
            /\ UNCHANGED <<peer, delivered, todo, accepted>>
        BY <2>0, <2>5 DEF Register, InSelect, browser, loop
      <3>2. delivered[c] = <<>> /\ Len(delivered[c]) = 0
        BY <3>1 DEF DeliveryInvariant
      <3> QED
        BY <2>0, <2>00, <3>1, <3>2 DEF DeliveryInvariant, TakesPart, Missing, Serving
    <2>6. ASSUME NEW c \in Conns, Unregister(c)
          PROVE  DeliveryInvariant'
      <3>1. /\ phase[c] = "unregistering" /\ phase' = [phase EXCEPT ![c] = "ended"]
            /\ UNCHANGED <<peer, delivered, todo, joined, accepted>>
        BY <2>6 DEF Unregister, browser, loop
      <3>2. clients \ {c} \subseteq clients'
        BY <2>6 DEF Unregister, Removal, registry
      <3>3. ~TakesPart(c) /\ peer[c] = "gone"
        BY <3>1 DEF DeliveryInvariant, TakesPart, Serving
      <3> QED
        BY <2>0, <3>1, <3>2, <3>3 DEF DeliveryInvariant, TakesPart, Missing, Serving
    <2>7. ASSUME NEW c \in Conns, WriteMessage(c)
          PROVE  DeliveryInvariant'
      BY <2>1, <2>7 DEF WriteMessage, browser, registry
    <2>8. ASSUME NEW c \in Conns, WriteOk(c)
          PROVE  DeliveryInvariant'
      <3>1. /\ c \in todo /\ c \in clients /\ todo' = todo \ {c} /\ writing \in Numbers
            /\ peer[c] \in {"up", "gone"}
            /\ UNCHANGED <<peer, phase, clients, joined, accepted>>
        BY <2>0, <2>8 DEF WriteOk, registry, Numbers
      <3>2. phase[c] \in Serving
        BY <2>0, <3>1 DEF ConnectionInvariant
      <3>3. CASE peer[c] = "up"
        <4>1. delivered' = [delivered EXCEPT ![c] = Append(@, writing)]
          BY <2>8, <3>3 DEF WriteOk
        <4>2. Len(Append(delivered[c], writing)) = Len(delivered[c]) + 1
          BY <2>0, <3>1, AppendType
        <4> QED
          BY <2>0, <2>00, <3>1, <3>2, <3>3, <4>1, <4>2
             DEF DeliveryInvariant, TakesPart, Missing, Serving
      <3>4. CASE peer[c] = "gone"
        <4>1. delivered' = delivered
          BY <2>8, <3>4 DEF WriteOk
        <4> QED
          BY <3>1, <3>4, <4>1 DEF DeliveryInvariant, TakesPart, Missing
      <3> QED
        BY <3>1, <3>3, <3>4
    <2>9. ASSUME NEW c \in Conns, WriteError(c)
          PROVE  DeliveryInvariant'
      <3>1. /\ peer[c] = "gone" /\ todo' = todo \ {c} /\ clients' = clients \ {c}
            /\ UNCHANGED <<peer, phase, delivered, joined, accepted>>
        BY <2>9 DEF WriteError, browser
      <3> QED
        BY <3>1 DEF DeliveryInvariant, TakesPart, Missing
    <2>10. ASSUME NEW c \in Conns, ReadError(c)
           PROVE  DeliveryInvariant'
      <3>1. /\ phase[c] = "reading" /\ phase' = [phase EXCEPT ![c] = "unregistering"]
            /\ UNCHANGED <<peer, delivered, clients, todo, joined, accepted>>
        BY <2>10 DEF ReadError, browser, registry, loop
      <3>2. ~TakesPart(c) /\ peer[c] = "gone"
        BY <2>0, <2>10, <3>1
           DEF ReadError, Disconnected, DeliveryInvariant, TakesPart, ConnectionInvariant, Serving
      <3> QED
        BY <2>0, <3>1, <3>2 DEF DeliveryInvariant, TakesPart, Missing, Serving
    <2>11. CASE Publish \/ TakeUpdate \/ EndBroadcast \/ UNCHANGED vars
      BY <2>1, <2>11 DEF Publish, TakeUpdate, EndBroadcast, vars, browser, registry, loop
    <2>12. CASE Broadcast
      <3>1. /\ todo = {} /\ todo' = clients /\ carried \in Numbers
            /\ accepted' = Append(accepted, carried)
            /\ UNCHANGED <<peer, phase, delivered, clients, joined>>
        BY <2>0, <2>12 DEF Broadcast, Recipients, InSelect, browser, registry, Numbers
      <3>2. Len(accepted') = Len(accepted) + 1
        BY <2>0, <3>1, AppendType
      <3> QED
        BY <2>00, <3>1, <3>2 DEF DeliveryInvariant, TakesPart, Missing
    <2> QED
      BY <2>2, <2>3, <2>4, <2>5, <2>6, <2>7, <2>8, <2>9, <2>10, <2>11, <2>12 DEF Next, Write
  <1> QED
    BY <1>1, <1>2, MapInvariantHolds, PTL DEF Spec

(* What the abstract state is made of.                                     *)
Memberships == [c \in Conns |-> Membership(c)]
Starts == [c \in Conns |-> IF Membership(c) = "in" THEN joined[c] ELSE 0]

(* A step that leaves memberships, log and deliveries alone is a stutter.  *)
LEMMA Stutter ==
    ASSUME \A c \in Conns : Membership(c)' = Membership(c) /\ joined'[c] = joined[c],
           UNCHANGED <<accepted, delivered>>
    PROVE  UNCHANGED Promise!vars
  <1>1. UNCHANGED <<Memberships, Starts>>
    BY DEF Memberships, Starts
  <1> QED
    BY <1>1 DEF Promise!vars, Memberships, Starts

(* The hub implements Fanout: registering is joining, the browser's going  *)
(* away is leaving, a message taken is broadcast and a write that reaches  *)
(* its browser is received.                                                *)
THEOREM HubImplementsFanout == Spec => ImplementsFanout
  <1>1. Init => Promise!Init
    <2> SUFFICES ASSUME Init
                 PROVE  Promise!Init
      OBVIOUS
    <2>1. \A c \in Conns : Membership(c) = "new"
      BY DEF Init, Membership
    <2> QED
      BY <2>1 DEF Init, Promise!Init
  <1>2. /\ TypeOK /\ TypeOK' /\ MapInvariant /\ OrderInvariant /\ DeliveryInvariant
        /\ [Next]_vars
        => [Promise!Next]_(Promise!vars)
    <2> SUFFICES ASSUME TypeOK, TypeOK', MapInvariant, OrderInvariant, DeliveryInvariant,
                        [Next]_vars
                 PROVE  Promise!Next \/ UNCHANGED Promise!vars
      OBVIOUS
    <2>0. /\ peer \in [Conns -> Peers] /\ phase \in [Conns -> Phases]
          /\ joined \in [Conns -> Nat]
          /\ delivered \in [Conns -> Seq(Numbers)]
          /\ todo \subseteq clients /\ current \subseteq todo /\ (writing = 0 => todo = {})
          /\ clients \subseteq Conns
          /\ ConnectionInvariant
          /\ writing \in 0 .. Published /\ carried \in 0 .. Published
          /\ accepted \in Seq(Numbers)
      BY DEF MapInvariant, TypeOK, Peers, Phases, Numbers, LoopInvariant
    <2>00. /\ Len(accepted) \in Nat
           /\ \A d \in Conns : Len(delivered[d]) \in Nat /\ joined[d] \in Nat
      BY <2>0
    <2>1. ASSUME UNCHANGED <<peer, phase, joined, accepted, delivered>>
          PROVE  UNCHANGED Promise!vars
      BY <2>1, Stutter DEF Membership
    <2>2. ASSUME NEW c \in Conns, Connect(c)
          PROVE  UNCHANGED Promise!vars
      <3>1. /\ phase[c] = "absent" /\ peer[c] = "away"
            /\ phase' = [phase EXCEPT ![c] = "registering"]
            /\ peer' = [peer EXCEPT ![c] = "up"]
            /\ UNCHANGED <<joined, accepted, delivered>>
        BY <2>2 DEF Connect, loop, DeliveryInvariant
      <3>2. \A d \in Conns : Membership(d)' = Membership(d)
        BY <2>0, <3>1 DEF Membership
      <3> QED
        BY <3>1, <3>2, Stutter
    <2>3. ASSUME NEW c \in Conns, Leave(c)
          PROVE  Promise!Leave(c)
      <3>1. /\ peer[c] # "gone" /\ peer' = [peer EXCEPT ![c] = "gone"]
            /\ UNCHANGED <<phase, joined, accepted, delivered>>
        BY <2>3 DEF Leave, loop
      <3>2. /\ Membership(c) # "left" /\ Membership(c)' = "left"
            /\ \A d \in Conns : d # c => Membership(d)' = Membership(d)
        BY <2>0, <3>1 DEF Membership
      <3>3. Memberships' = [Memberships EXCEPT ![c] = "left"]
        BY <3>2 DEF Memberships
      <3>4. Starts' = [Starts EXCEPT ![c] = 0]
        BY <3>1, <3>2 DEF Starts
      <3> QED
        BY <3>1, <3>2, <3>3, <3>4 DEF Promise!Leave, Memberships, Starts
    <2>4. ASSUME NEW c \in Conns, Stall(c) \/ Resume(c)
          PROVE  UNCHANGED Promise!vars
      <3>1. /\ peer[c] \in {"up", "stalled"}
            /\ \E p \in {"up", "stalled"} : peer' = [peer EXCEPT ![c] = p]
            /\ UNCHANGED <<phase, joined, accepted, delivered>>
        BY <2>4 DEF Stall, Resume, loop
      <3>2. \A d \in Conns : Membership(d)' = Membership(d)
        BY <2>0, <3>1 DEF Membership
      <3> QED
        BY <3>1, <3>2, Stutter
    <2>5. ASSUME NEW c \in Conns, Register(c)
          PROVE  Promise!Join(c) \/ UNCHANGED Promise!vars
      <3>1. /\ phase[c] = "registering" /\ phase' = [phase EXCEPT ![c] = "reading"]
            /\ joined' = [joined EXCEPT ![c] = Len(accepted)]
            /\ UNCHANGED <<peer, delivered, accepted>>
        BY <2>5 DEF Register, browser, loop
      <3>2. \A d \in Conns : d # c => Membership(d)' = Membership(d) /\ joined'[d] = joined[d]
        BY <2>0, <3>1 DEF Membership
      <3>3. CASE peer[c] = "gone"
        <4>1. Membership(c) = "left" /\ Membership(c)' = "left"
          BY <3>1, <3>3 DEF Membership
        <4>2. UNCHANGED <<Memberships, Starts>>
          BY <3>2, <4>1 DEF Memberships, Starts
        <4> QED
          BY <3>1, <4>2 DEF Promise!vars, Memberships, Starts
      <3>4. CASE peer[c] # "gone"
        <4>1. Membership(c) = "new" /\ Membership(c)' = "in" /\ joined'[c] = Len(accepted)
          BY <2>0, <3>1, <3>4 DEF Membership
        <4>2. Memberships' = [Memberships EXCEPT ![c] = "in"]
          BY <3>2, <4>1 DEF Memberships
        <4>3. Starts' = [Starts EXCEPT ![c] = Len(accepted)]
          BY <3>2, <4>1 DEF Starts
        <4> QED
          BY <3>1, <4>1, <4>2, <4>3 DEF Promise!Join, Memberships, Starts
      <3> QED
        BY <3>3, <3>4
    <2>6. ASSUME NEW c \in Conns, Unregister(c) \/ ReadError(c)
          PROVE  UNCHANGED Promise!vars
      <3>1. /\ phase[c] \in Serving /\ \E p \in Serving \cup {"ended"} : phase' = [phase EXCEPT ![c] = p]
            /\ UNCHANGED <<peer, joined, delivered, accepted>>
        BY <2>6 DEF Unregister, ReadError, browser, loop, Serving
      <3>2. \A d \in Conns : Membership(d)' = Membership(d)
        BY <2>0, <3>1 DEF Membership, Serving
      <3> QED
        BY <3>1, <3>2, Stutter
    <2>7. ASSUME NEW c \in Conns, WriteMessage(c) \/ WriteError(c)
          PROVE  UNCHANGED Promise!vars
      BY <2>1, <2>7 DEF WriteMessage, WriteError, browser
    <2>8. ASSUME NEW c \in Conns, WriteOk(c)
          PROVE  Promise!Receive(c) \/ UNCHANGED Promise!vars
      <3>1. /\ c \in todo /\ c \in clients /\ writing # 0
            /\ peer[c] \in {"up", "gone"}
            /\ UNCHANGED <<peer, phase, joined, accepted>>
        BY <2>0, <2>8 DEF WriteOk
      <3>2. CASE peer[c] = "gone"
        <4>1. delivered' = delivered
          BY <2>8, <3>2 DEF WriteOk
        <4> QED
          BY <2>1, <3>1, <4>1
      <3>3. CASE peer[c] = "up"
        <4>1. TakesPart(c)
          BY <2>0, <3>1, <3>3 DEF TakesPart, ConnectionInvariant
        <4>2. Membership(c) = "in"
          BY <4>1, MembershipTakesPart
        <4>3. joined[c] + Len(delivered[c]) + 1 = Len(accepted)
          BY <3>1, <4>1 DEF DeliveryInvariant, Missing
        <4>4. accepted[joined[c] + Len(delivered[c]) + 1] = writing
          BY <3>1, <4>3 DEF OrderInvariant
        <4>5. delivered' = [delivered EXCEPT ![c] = Append(@, writing)]
          BY <2>8, <3>3 DEF WriteOk
        <4>6. UNCHANGED <<Memberships, Starts>>
          BY <3>1 DEF Memberships, Starts, Membership
        <4>7. Memberships[c] = "in" /\ Starts[c] = joined[c]
          BY <4>2 DEF Memberships, Starts
        <4>8. Len(delivered[c]) < Len(accepted) - joined[c]
          BY <2>00, <4>3
        <4> QED
          BY <3>1, <4>4, <4>5, <4>6, <4>7, <4>8
             DEF Promise!Receive, Promise!Due, Memberships, Starts
      <3> QED
        BY <3>1, <3>2, <3>3
    <2>9. CASE Publish \/ TakeUpdate \/ EndBroadcast \/ UNCHANGED vars
      BY <2>1, <2>9 DEF Publish, TakeUpdate, EndBroadcast, vars, browser, loop
    <2>10. ASSUME Broadcast
           PROVE  \E n \in 1 .. Published : Promise!Broadcast(n)
      <3>1. /\ todo = {} /\ carried \in 1 .. Published
            /\ accepted' = Append(accepted, carried)
            /\ UNCHANGED <<peer, phase, joined, delivered>>
        BY <2>0, <2>10 DEF Broadcast, InSelect, browser
      <3>2. \A i \in 1 .. Len(accepted) : accepted[i] < carried
        BY <3>1 DEF OrderInvariant
      <3>3. ASSUME NEW d \in Conns, Memberships[d] = "in"
            PROVE  Len(delivered[d]) = Len(accepted) - Starts[d]
        <4>1. TakesPart(d) /\ Starts[d] = joined[d]
          BY <3>3, MembershipTakesPart DEF Memberships, Starts
        <4>2. joined[d] + Len(delivered[d]) + 0 = Len(accepted)
          BY <3>1, <4>1 DEF DeliveryInvariant, Missing
        <4> QED
          BY <2>00, <4>1, <4>2
      <3>4. UNCHANGED <<Memberships, Starts>>
        BY <3>1 DEF Memberships, Starts, Membership
      <3>5. Promise!Broadcast(carried)
        BY <3>1, <3>2, <3>3, <3>4 DEF Promise!Broadcast, Promise!Due, Memberships, Starts
      <3> QED
        BY <3>1, <3>5
    <2> QED
      BY <2>2, <2>3, <2>4, <2>5, <2>6, <2>7, <2>8, <2>9, <2>10 DEF Next, Write, Promise!Next
  <1> QED
    BY <1>1, <1>2, HubTypeCorrect, MapInvariantHolds, OrderInvariantHolds,
       DeliveryInvariantHolds, PTL DEF Spec, ImplementsFanout, Promise!Spec
=============================================================================
