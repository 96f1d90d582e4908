----------------------------- MODULE DumperLog -----------------------------
(***************************************************************************)
(* What cgatepp::Dumper promises, without volumes or positions: a log that *)
(* only grows, and a replay that hands its entries to the handler in the   *)
(* order they were recorded and ends with the last of them.  A process     *)
(* that dies loses the replay, and nothing of the log.                     *)
(***************************************************************************)
EXTENDS Integers, Sequences

CONSTANT Entries

VARIABLES log,       \* what has been recorded
          replayed,  \* what the replay has handed to the handler
          replaying

logVars == <<log, replayed, replaying>>

LogInit ==
    /\ log = <<>>
    /\ replayed = <<>>
    /\ replaying = FALSE

AppendEntry ==
    /\ ~replaying
    /\ \E e \in Entries : log' = Append(log, e)
    /\ UNCHANGED <<replayed, replaying>>

BeginReplay ==
    /\ ~replaying
    /\ replayed' = <<>>
    /\ replaying' = TRUE
    /\ UNCHANGED log

Deliver ==
    /\ replaying
    /\ Len(replayed) < Len(log)
    /\ replayed' = Append(replayed, log[Len(replayed) + 1])
    /\ UNCHANGED <<log, replaying>>

EndReplay ==
    /\ replaying
    /\ replayed = log
    /\ replaying' = FALSE
    /\ UNCHANGED <<log, replayed>>

Die ==
    /\ replayed' = <<>>
    /\ replaying' = FALSE
    /\ UNCHANGED log

LogNext == AppendEntry \/ BeginReplay \/ Deliver \/ EndReplay \/ Die

LogSpec == LogInit /\ [][LogNext]_logVars

=============================================================================
