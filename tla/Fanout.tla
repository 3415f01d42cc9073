------------------------------- MODULE Fanout -------------------------------
(***************************************************************************)
(* What the WebSocket hub promises to the dashboards, without its          *)
(* goroutines and channels: a log of the messages broadcast, in the order  *)
(* they were published, and for every member a contiguous piece of it that *)
(* starts where the member joined.  No member is ever more than one        *)
(* message behind: the next message waits for the slowest.                 *)
(***************************************************************************)
EXTENDS Naturals, Sequences

CONSTANTS Members, Messages

VARIABLES
    log,     \* the messages broadcast so far
    state,   \* per member: it has not joined yet, takes part, or has left
    from,    \* per member taking part: the length of the log when it joined
    got      \* per member: the messages it has received

vars == <<log, state, from, got>>

Due(m) == Len(log) - from[m]

Init ==
    /\ log = <<>>
    /\ state = [m \in Members |-> "new"]
    /\ from = [m \in Members |-> 0]
    /\ got = [m \in Members |-> <<>>]

Join(m) ==
    /\ state[m] = "new"
    /\ state' = [state EXCEPT ![m] = "in"]
    /\ from' = [from EXCEPT ![m] = Len(log)]
    /\ UNCHANGED <<log, got>>

Leave(m) ==
    /\ state[m] # "left"
    /\ state' = [state EXCEPT ![m] = "left"]
    /\ from' = [from EXCEPT ![m] = 0]
    /\ UNCHANGED <<log, got>>

Broadcast(n) ==
    /\ \A i \in 1 .. Len(log) : log[i] < n
    /\ \A m \in Members : state[m] = "in" => Len(got[m]) = Due(m)
    /\ log' = Append(log, n)
    /\ UNCHANGED <<state, from, got>>

Receive(m) ==
    /\ state[m] = "in"
    /\ Len(got[m]) < Due(m)
    /\ got' = [got EXCEPT ![m] = Append(@, log[from[m] + Len(@) + 1])]
    /\ UNCHANGED <<log, state, from>>

Next ==
    \/ \E m \in Members : Join(m) \/ Leave(m) \/ Receive(m)
    \/ \E n \in Messages : Broadcast(n)

Spec == Init /\ [][Next]_vars
=============================================================================
