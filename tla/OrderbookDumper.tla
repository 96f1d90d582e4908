-------------------------- MODULE OrderbookDumper --------------------------
(***************************************************************************)
(* The main loop of services/orderbook-dumper over cgatepp's Connection    *)
(* and two Listeners, whose callbacks go to a Dumper each.                 *)
(*                                                                         *)
(* The gateway library is seen through the calls src/ makes: the state of  *)
(* a connection or listener can fail at any time, also between reading it  *)
(* and acting on it; messages come, and listeners open, in process().  An  *)
(* exception outside process() is caught by nobody and ends the program.   *)
(***************************************************************************)
EXTENDS Recording

CONSTANTS MaxFaults,   \* bound on the failures of connection and listeners
          MaxMessages  \* bound on the messages received

ASSUME BoundsAssumption ==
    /\ Listeners \in Nat \ {0} /\ MaxFaults \in Nat /\ MaxMessages \in Nat

\* cgatepp::State; any state of the library but the other three is ERROR.
State == {"CLOSED", "ERROR", "OPENING", "ACTIVE"}

VARIABLES conn,     \* state of the connection in the library
          lsn,      \* states of the listeners
          main,     \* where main is, and which listener it looks at
          faults    \* failures so far

vars == <<conn, lsn, main, log, live, faults>>

Init ==
    /\ conn = "OPENING"
    /\ lsn = [l \in All |-> "CLOSED"]
    /\ main = [pc |-> "start", at |-> 1]
    /\ log = [l \in All |-> <<>>] /\ live = [l \in All |-> <<>>]
    /\ faults = 0

-----------------------------------------------------------------------------
\* The library: a connection that was opened comes up, or fails, with what
\* is open on it; a listener fails.
Dropped(s) == IF s = "CLOSED" THEN {"CLOSED"} ELSE {"CLOSED", "ERROR"}

ConnectionUp ==
    /\ conn = "OPENING"
    /\ conn' = "ACTIVE"
    /\ UNCHANGED <<lsn, main, log, live, faults>>

ConnectionFails ==
    /\ faults < MaxFaults /\ faults' = faults + 1
    /\ conn \in {"OPENING", "ACTIVE"}
    /\ conn' = "ERROR"
    /\ lsn' \in {f \in [All -> State] : \A l \in All : f[l] \in Dropped(lsn[l])}
    /\ UNCHANGED <<main, log, live>>

ListenerFails(l) ==
    /\ faults < MaxFaults /\ faults' = faults + 1
    /\ lsn[l] \in {"OPENING", "ACTIVE"}
    /\ lsn' = [lsn EXCEPT ![l] = "ERROR"]
    /\ UNCHANGED <<conn, main, log, live>>

-----------------------------------------------------------------------------
Goto(pc) == main' = [main EXCEPT !.pc = pc]

\* main waits for the connection, makes the Dumpers and opens the listeners.
Start ==
    /\ main.pc = "start" /\ conn = "ACTIVE"
    /\ Goto("first")
    /\ UNCHANGED <<conn, lsn, log, live, faults>>

\* Listener::open; the library refuses without an active connection, and the
\* exception ends the program.
CanOpen(l) == conn = "ACTIVE" /\ lsn[l] = "CLOSED"

OpenFirst ==
    /\ main.pc = "first" /\ CanOpen(main.at)
    /\ lsn' = [lsn EXCEPT ![main.at] = "OPENING"]
    /\ main' = IF main.at = Listeners THEN [pc |-> "loop", at |-> 1]
               ELSE [main EXCEPT !.at = @ + 1]
    /\ UNCHANGED <<conn, log, live, faults>>

OpenThrows ==
    /\ main.pc \in {"first", "open"} /\ ~CanOpen(main.at)
    /\ Goto("died")
    /\ UNCHANGED <<conn, lsn, log, live, faults>>

\* The loop: conn.state() is read, ...
ReadConnection ==
    /\ main.pc = "loop" /\ conn # "OPENING"
    /\ main' = [pc |-> CASE conn = "ERROR" -> "conn close"
                         [] conn = "CLOSED" -> "conn open"
                         [] OTHER -> "read", at |-> 1]
    /\ UNCHANGED <<conn, lsn, log, live, faults>>

\* ... a connection that has failed is closed, a closed one opened again.
CloseConnection ==
    /\ main.pc = "conn close"
    /\ conn' = "CLOSED"
    /\ lsn' \in {f \in [All -> State] : \A l \in All : f[l] \in Dropped(lsn[l])}
    /\ Goto("loop")
    /\ UNCHANGED <<log, live, faults>>

OpenConnection ==
    /\ main.pc = "conn open"
    /\ conn' = "OPENING"
    /\ Goto("loop")
    /\ UNCHANGED <<lsn, log, live, faults>>

\* The same for each listener, and then to process().
After == IF main.at = Listeners THEN [main EXCEPT !.pc = "process"]
         ELSE [pc |-> "read", at |-> main.at + 1]

\* A defect: only a closed listener is looked after.
ReadListenerClosed ==
    /\ main.pc = "read"
    /\ main' = IF lsn[main.at] = "CLOSED" THEN [main EXCEPT !.pc = "open"] ELSE After
    /\ UNCHANGED <<conn, lsn, log, live, faults>>

ReadListener ==
    /\ main.pc = "read"
    /\ main' = CASE lsn[main.at] = "ERROR" -> [main EXCEPT !.pc = "close"]
                 [] lsn[main.at] = "CLOSED" -> [main EXCEPT !.pc = "open"]
                 [] OTHER -> After
    /\ UNCHANGED <<conn, lsn, log, live, faults>>

CloseListener ==
    /\ main.pc = "close"
    /\ lsn' = [lsn EXCEPT ![main.at] = "CLOSED"]
    /\ main' = After
    /\ UNCHANGED <<conn, log, live, faults>>

OpenListener ==
    /\ main.pc = "open" /\ CanOpen(main.at)
    /\ lsn' = [lsn EXCEPT ![main.at] = "OPENING"]
    /\ main' = After
    /\ UNCHANGED <<conn, log, live, faults>>

\* process(): a listener becomes active, a message is dispatched, recorded and
\* passed on, or nothing happens; an error of it is caught and printed.
ListenerUp(l) ==
    /\ main.pc = "process" /\ conn = "ACTIVE" /\ lsn[l] = "OPENING"
    /\ lsn' = [lsn EXCEPT ![l] = "ACTIVE"]
    /\ Goto("loop")
    /\ UNCHANGED <<conn, log, live, faults>>

Total == LET n[l \in 0 .. Listeners] == IF l = 0 THEN 0 ELSE n[l - 1] + Len(log[l])
         IN n[Listeners]

\* A defect: a timeout is recorded like the reply its callback was copied from.
MessageCopied(l) ==
    /\ main.pc = "process" /\ lsn[l] = "ACTIVE" /\ Total < MaxMessages
    /\ \E m \in Messages :
          /\ log' = [log EXCEPT ![l] = Append(@, RecordType(
                        IF m = "P2MQ_TIMEOUT" THEN "on_mq_reply" ELSE Dispatch(m)))]
          /\ live' = [live EXCEPT ![l] = Append(@, Dispatch(m))]
    /\ Goto("loop")
    /\ UNCHANGED <<conn, lsn, faults>>

Message(l) ==
    /\ main.pc = "process" /\ lsn[l] = "ACTIVE" /\ Total < MaxMessages
    /\ \E m \in Messages :
          /\ log' = [log EXCEPT ![l] = Append(@, RecordType(Dispatch(m)))]
          /\ live' = [live EXCEPT ![l] = Append(@, Dispatch(m))]
    /\ Goto("loop")
    /\ UNCHANGED <<conn, lsn, faults>>

Process ==
    /\ main.pc = "process"
    /\ Goto("loop")
    /\ UNCHANGED <<conn, lsn, log, live, faults>>

Main == \/ Start \/ OpenFirst \/ OpenThrows \/ ReadConnection \/ CloseConnection
        \/ OpenConnection \/ ReadListener \/ CloseListener \/ OpenListener \/ Process

Library == \/ ConnectionUp \/ ConnectionFails
           \/ \E l \in All : ListenerFails(l) \/ ListenerUp(l) \/ Message(l)

Next == Main \/ Library

\* main never stops running; the library ends every opening, and a listener
\* that process() is called for again and again becomes active.
Fairness == /\ WF_vars(Main)
            /\ WF_vars(ConnectionUp)
            /\ \A l \in All : SF_vars(ListenerUp(l))

Spec == Init /\ [][Next]_vars /\ Fairness

-----------------------------------------------------------------------------
\* The types of the variables; main looks at no listener but its own.
TypeOK ==
    /\ conn \in State /\ lsn \in [All -> State]
    /\ main.pc \in {"start", "first", "loop", "conn close", "conn open", "read", "close",
                    "open", "process", "died"}
    /\ main.at \in All
    /\ \A l \in All : \A i \in DOMAIN log[l] : log[l][i] \in {RecordType(Dispatch(m)) : m \in Messages}
    /\ faults \in 0 .. MaxFaults

\* Whatever fails, and wherever main is when it does, both listeners become
\* active again, or an open that came too late has ended the program.
ComesBack ==
    main.pc # "start" ~> main.pc = "died" \/ \A l \in All : lsn[l] = "ACTIVE"

=============================================================================
