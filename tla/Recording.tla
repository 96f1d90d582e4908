----------------------------- MODULE Recording -----------------------------
(***************************************************************************)
(* What the messages of the gateway library are recorded as, and what the  *)
(* records are replayed as: the switches of cgatepp's listener callback    *)
(* and Dumper, and two histories for each of a program's Dumpers.          *)
(***************************************************************************)
EXTENDS Integers, Sequences

CONSTANT Listeners   \* how many, each with a Dumper of its own

VARIABLES log,      \* types of the records in each Dumper's file
          live      \* callbacks each Dumper has passed on to its handler

All == 1 .. Listeners

Messages == {"OPEN", "CLOSE", "TN_BEGIN", "TN_COMMIT", "STREAM_DATA", "P2REPL_ONLINE",
             "P2REPL_LIFENUM", "P2REPL_CLEARDELETED", "P2REPL_REPLSTATE", "DATA",
             "P2MQ_TIMEOUT", "P2MQ_OTHER"}

\* listener_base_callback: the callback of a message.
Dispatch(m) ==
    CASE m = "OPEN" -> "on_listener_open"
      [] m = "CLOSE" -> "on_listener_close"
      [] m = "TN_BEGIN" -> "on_transaction_begin"
      [] m = "TN_COMMIT" -> "on_transaction_commit"
      [] m = "STREAM_DATA" -> "on_stream_data"
      [] m = "P2REPL_ONLINE" -> "on_repl_online"
      [] m = "P2REPL_LIFENUM" -> "on_repl_lifenum"
      [] m = "P2REPL_CLEARDELETED" -> "on_repl_creardeleted"
      [] m = "P2REPL_REPLSTATE" -> "on_repl_replstate"
      [] m = "DATA" -> "on_mq_reply"
      [] m = "P2MQ_TIMEOUT" -> "on_mq_timeout"
      [] OTHER -> "on_unknown_msg_type"

\* The type of the record a callback of the Dumper writes.
RecordType(c) ==
    CASE c = "on_listener_open" -> "LISTENER_OPEN"
      [] c = "on_listener_close" -> "LISTENER_CLOSE"
      [] c = "on_transaction_begin" -> "TRANSACTION_BEGIN"
      [] c = "on_transaction_commit" -> "TRANSACTION_COMMIT"
      [] c = "on_stream_data" -> "STREAM_DATA"
      [] c = "on_repl_online" -> "REPL_ONLINE"
      [] c = "on_repl_lifenum" -> "REPL_LIFENUM"
      [] c = "on_repl_creardeleted" -> "REPL_CLEARDELETED"
      [] c = "on_repl_replstate" -> "REPL_REPLSTATE"
      [] c = "on_mq_reply" -> "MQ_REPLY"
      [] c = "on_mq_timeout" -> "MQ_TIMEOUT"
      [] OTHER -> "UNKNOWN_MSG_TYPE"

\* What replay_recorded_stream calls for a record.
ReplayedAs(t) ==
    CASE t = "LISTENER_OPEN" -> "on_listener_open"
      [] t = "LISTENER_CLOSE" -> "on_listener_close"
      [] t = "TRANSACTION_BEGIN" -> "on_transaction_begin"
      [] t = "TRANSACTION_COMMIT" -> "on_transaction_commit"
      [] t = "STREAM_DATA" -> "on_stream_data"
      [] t = "REPL_ONLINE" -> "on_repl_online"
      [] t = "REPL_LIFENUM" -> "on_repl_lifenum"
      [] t = "REPL_CLEARDELETED" -> "on_repl_creardeleted"
      [] t = "REPL_REPLSTATE" -> "on_repl_replstate"
      [] t = "MQ_REPLY" -> "on_mq_reply"
      [] t = "MQ_TIMEOUT" -> "on_mq_timeout"
      [] OTHER -> "on_unknown_msg_type"

-----------------------------------------------------------------------------
\* A replay calls what was called live (listener_base_callback, the twelve
\* callbacks of Dumper and the switch of replay_recorded_stream agree).
ReplayIsLive ==
    \A l \in All : live[l] = [i \in DOMAIN log[l] |-> ReplayedAs(log[l][i])]

=============================================================================
