----------------------------- MODULE WorksetLog -----------------------------
(***************************************************************************)
(* What quant::Workset promises its subscribers, without a buffer or an    *)
(* index: entries are numbered in the order they are pushed, the last      *)
(* Capacity of them are retained, and a subscriber is handed, each time,   *)
(* the oldest retained entry after the one it had last.                    *)
(***************************************************************************)
EXTENDS Integers

CONSTANTS Subscribers,
          Capacity  \* entries retained

VARIABLES head,       \* entries pushed so far
          subscribed, \* the subscribers that hold a handle
          last        \* the last entry each was handed, 0 for none

logVars == <<head, subscribed, last>>

\* The entries still retained.
Retained == {n \in 1 .. head : n > head - Capacity}

LogInit ==
    /\ head = 0
    /\ subscribed = {}
    /\ last = [s \in Subscribers |-> 0]

AppendEntry ==
    /\ head' = head + 1
    /\ UNCHANGED <<subscribed, last>>

Deliver(s) ==
    /\ s \in subscribed
    /\ \E n \in Retained :
          /\ n > last[s]
          /\ \A m \in Retained : m > last[s] => n <= m
          /\ last' = [last EXCEPT ![s] = n]
    /\ UNCHANGED <<head, subscribed>>

Subscribe(s) ==
    /\ s \notin subscribed
    /\ subscribed' = subscribed \cup {s}
    /\ UNCHANGED <<head, last>>

Unsubscribe(s) ==
    /\ s \in subscribed
    /\ subscribed' = subscribed \ {s}
    /\ last' = [last EXCEPT ![s] = 0]
    /\ UNCHANGED head

LogNext ==
    \/ AppendEntry
    \/ \E s \in Subscribers :
          \/ Deliver(s)
          \/ Subscribe(s)
          \/ Unsubscribe(s)

LogSpec == LogInit /\ [][LogNext]_logVars

=============================================================================
