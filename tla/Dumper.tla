------------------------------- MODULE Dumper -------------------------------
(***************************************************************************)
(* cgatepp::Dumper (services/cgatepp/src/dumper.cpp): the callbacks of a   *)
(* listener are recorded in volumes, files of one size mapped into memory, *)
(* and replayed to the wrapped handler.                                    *)
(*                                                                         *)
(* The process can die between any two stores to a volume or calls on the  *)
(* file system, and be started again; what was stored stays, for a mapping *)
(* is the page cache's.  Creating a volume can fail.  A record is its      *)
(* number and its length; DUMPER_OPEN and DUMPER_CLOSE are number 0.       *)
(***************************************************************************)
EXTENDS Integers, Sequences

CONSTANTS FileSize,    \* file_size_, in bytes
          SizeMod,     \* 2^16: the length of a record is stored in a uint16_t
          Sizes,       \* lengths of the records of callbacks
          ControlSize, \* length of DUMPER_OPEN and DUMPER_CLOSE
          MaxRecords,  \* bound on the callbacks
          MaxRuns      \* bound on the Dumpers constructed

HeaderSize == 8  \* sizeof(uint64_t), the position at the head of a volume
SizeSize == 2    \* sizeof(uint16_t)

StoredSize(n) == n % SizeMod

ASSUME SizesAssumption ==
    /\ SizeMod \in Nat \ {0} /\ FileSize \in Nat
    /\ Sizes \subseteq Nat \ {0} /\ ControlSize \in 1 .. SizeMod - 1
\* A volume has room for any record as it is stored; the code does not check.
ASSUME FitsAssumption ==
    \A n \in Sizes \cup {ControlSize} : HeaderSize + SizeSize + StoredSize(n) <= FileSize
ASSUME BoundsAssumption == MaxRecords \in Nat /\ MaxRuns \in Nat

Control == [id |-> 0, size |-> ControlSize]

\* What a volume of zeroes, or a record that was not written, parses as: a
\* Record with the default type, LISTENER_OPEN.
Blank == -1

VARIABLES
    volumes,  \* the files, by id + 1: have they their size, the position
              \* at their head, and what is stored at each position
    dumper,   \* the Dumper object and where its code is
    throws,   \* may the wrapped handler throw while it is replayed to?
    runs, made,  \* Dumpers constructed, callbacks made
    recorded, \* the records of callbacks whose position has been moved
    missed,   \* callbacks in progress when the process died or a file failed
    handled,  \* the last callback that was passed on to the handler
    replayed  \* numbers the current or last replay gave to the handler

history == <<runs, made, recorded, missed, handled>>
vars == <<volumes, dumper, throws, history, replayed>>

\* open: mapped_file_.is_open(); current: current_id_ + 1; at: the position
\* where write_next or read_next is; then: where write_next returns to.
NoDumper == [pc |-> "none", open |-> FALSE, replaying |-> FALSE, current |-> 1,
             at |-> 0, record |-> Control, then |-> "idle"]

EmptyVolume == [sized |-> FALSE, pos |-> 0,
                data |-> [p \in 0 .. FileSize |-> [id |-> Blank, size |-> 0]]]

Init ==
    /\ volumes = <<>>
    /\ dumper = NoDumper
    /\ throws \in BOOLEAN
    /\ runs = 0 /\ made = 0 /\ recorded = <<>> /\ missed = {} /\ handled = 0
    /\ replayed = <<>>

Current == volumes[dumper.current]

\* get_file_ids_list: the volumes found, in order, whoever has created them.
LastId == Len(volumes)

-----------------------------------------------------------------------------
\* A defect: the list of volumes is not sorted, its last is any of them.
ConstructUnsorted ==
    /\ dumper.pc = "none" /\ runs < MaxRuns
    /\ runs' = runs + 1
    /\ IF volumes = <<>> THEN dumper' = [NoDumper EXCEPT !.pc = "create"]
       ELSE \E i \in DOMAIN volumes :
              /\ volumes[i].sized
              /\ dumper' = [NoDumper EXCEPT !.current = i, !.open = TRUE,
                                            !.pc = IF volumes[i].pos = 0 THEN "header" ELSE "write"]
    /\ UNCHANGED <<volumes, throws, made, recorded, missed, handled, replayed>>

\* The constructor opens the last volume, or creates the first one, and
\* writes DUMPER_OPEN.  It throws if the last volume has another size.
Construct ==
    /\ dumper.pc = "none" /\ runs < MaxRuns
    /\ runs' = runs + 1
    /\ dumper' = IF volumes = <<>> THEN [NoDumper EXCEPT !.pc = "create"]
                 ELSE LET last == volumes[LastId] IN
                      IF ~last.sized THEN NoDumper
                      ELSE [NoDumper EXCEPT !.current = LastId, !.open = TRUE,
                                            !.pc = IF last.pos = 0 THEN "header" ELSE "write"]
    /\ UNCHANGED <<volumes, throws, made, recorded, missed, handled, replayed>>

\* Any time, whatever the Dumper does.
Die ==
    /\ dumper.pc # "none"
    /\ dumper' = NoDumper
    /\ missed' = IF dumper.pc \in {"idle", "handle", "read"} THEN missed
                 ELSE missed \cup ({dumper.record.id} \ {0})
    /\ replayed' = <<>>
    /\ UNCHANGED <<volumes, throws, runs, made, recorded, handled>>

Goto(pc) == dumper' = [dumper EXCEPT !.pc = pc]

\* A callback of the listener.  While state_ is REPLAYING it returns at once.
\* With the mapping gone, it reads the position at a stale address and dies.
CallbackReturns ==
    /\ dumper.pc = "idle" /\ dumper.replaying /\ made < MaxRecords
    /\ made' = made + 1
    /\ UNCHANGED <<volumes, dumper, throws, runs, recorded, missed, handled, replayed>>

\* A defect: the handler is called before the record is written.
CallbackHandledFirst ==
    /\ dumper.pc = "idle" /\ ~dumper.replaying /\ dumper.open /\ made < MaxRecords
    /\ made' = made + 1 /\ handled' = made'
    /\ \E n \in Sizes :
          dumper' = [dumper EXCEPT !.pc = "write", !.then = "idle",
                                   !.record = [id |-> made', size |-> n]]
    /\ UNCHANGED <<volumes, throws, runs, recorded, missed, replayed>>

Callback ==
    /\ dumper.pc = "idle" /\ ~dumper.replaying /\ dumper.open /\ made < MaxRecords
    /\ made' = made + 1
    /\ \E n \in Sizes :
          dumper' = [dumper EXCEPT !.pc = "write", !.then = "handle",
                                   !.record = [id |-> made', size |-> n]]
    /\ UNCHANGED <<volumes, throws, runs, recorded, missed, handled, replayed>>

CallbackDies ==
    /\ dumper.pc = "idle" /\ ~dumper.replaying /\ ~dumper.open /\ made < MaxRecords
    /\ made' = made + 1
    /\ missed' = missed \cup {made'}
    /\ dumper' = NoDumper
    /\ replayed' = <<>>
    /\ UNCHANGED <<volumes, throws, runs, recorded, handled>>

\* The destructor writes DUMPER_CLOSE, in whatever state the Dumper is.
Destroy ==
    /\ dumper.pc = "idle"
    /\ dumper' = IF dumper.open THEN [dumper EXCEPT !.pc = "write", !.then = "none",
                                                    !.record = Control]
                 ELSE NoDumper
    /\ UNCHANGED <<volumes, throws, history, replayed>>

-----------------------------------------------------------------------------
\* write_next: choose the place, going on to a new volume if the record does
\* not fit; store the record; and move the position last.
Fits(pos, n) == pos + SizeSize + StoredSize(n) <= FileSize

\* A defect: the length of the size field is left out of the check.
WriteTooFar ==
    /\ dumper.pc = "write"
    /\ dumper' = IF Current.pos + StoredSize(dumper.record.size) <= FileSize
                 THEN [dumper EXCEPT !.pc = "data", !.at = Current.pos]
                 ELSE [dumper EXCEPT !.pc = "create", !.current = @ + 1]
    /\ UNCHANGED <<volumes, throws, history, replayed>>

Write ==
    /\ dumper.pc = "write"
    /\ dumper' = IF Fits(Current.pos, dumper.record.size)
                 THEN [dumper EXCEPT !.pc = "data", !.at = Current.pos]
                 ELSE [dumper EXCEPT !.pc = "create", !.current = @ + 1]
    /\ UNCHANGED <<volumes, throws, history, replayed>>

\* mapped_file_.open with a new_file_size creates or truncates the file, ...
Create ==
    /\ dumper.pc = "create"
    /\ volumes' = [i \in 1 .. Len(volumes) \cup {dumper.current} |->
                      IF i = dumper.current THEN EmptyVolume ELSE volumes[i]]
    /\ dumper' = [dumper EXCEPT !.pc = "resize", !.open = FALSE]
    /\ UNCHANGED <<throws, history, replayed>>

\* ... then gives it its size, of zeroes; ...
Resize ==
    /\ dumper.pc = "resize"
    /\ volumes' = [volumes EXCEPT ![dumper.current].sized = TRUE]
    /\ dumper' = [dumper EXCEPT !.pc = "header", !.open = TRUE]
    /\ UNCHANGED <<throws, history, replayed>>

\* ... or either fails, and write_next with it: the callback throws, a constructor
\* or destructor ends with no Dumper.
CreateFails ==
    /\ dumper.pc \in {"create", "resize"}
    /\ dumper' = IF dumper.record = Control THEN NoDumper
                 ELSE [dumper EXCEPT !.pc = "idle", !.open = FALSE]
    /\ missed' = missed \cup ({dumper.record.id} \ {0})
    /\ replayed' = IF dumper.record = Control THEN <<>> ELSE replayed
    /\ UNCHANGED <<volumes, throws, runs, made, recorded, handled>>

\* A position of 0 becomes 8, but for a Dumper that is REPLAYING.
Header ==
    /\ dumper.pc = "header"
    /\ volumes' = IF dumper.replaying THEN volumes
                  ELSE [volumes EXCEPT ![dumper.current].pos = HeaderSize]
    /\ dumper' = [dumper EXCEPT !.pc = "data", !.at = HeaderSize]
    /\ UNCHANGED <<throws, history, replayed>>

\* SerializeToArray writes nothing if the record is longer than it is told.
Stored(r) == [id |-> IF r.size < SizeMod THEN r.id ELSE Blank,
              size |-> StoredSize(r.size)]

Data ==
    /\ dumper.pc = "data"
    /\ volumes' = [volumes EXCEPT ![dumper.current].data[dumper.at] = Stored(dumper.record)]
    /\ Goto("publish")
    /\ UNCHANGED <<throws, history, replayed>>

Publish ==
    /\ dumper.pc = "publish"
    /\ volumes' = [volumes EXCEPT ![dumper.current].pos =
                      dumper.at + SizeSize + StoredSize(dumper.record.size)]
    /\ recorded' = IF dumper.record = Control THEN recorded
                   ELSE Append(recorded, dumper.record)
    /\ dumper' = IF dumper.then = "none" THEN NoDumper
                 ELSE [dumper EXCEPT !.pc = dumper.then]
    /\ UNCHANGED <<throws, runs, made, missed, handled, replayed>>

\* The callback is passed on; an exception of it goes to the listener.
Handle ==
    /\ dumper.pc = "handle"
    /\ handled' = dumper.record.id
    /\ Goto("idle")
    /\ UNCHANGED <<volumes, throws, runs, made, recorded, missed, replayed>>

-----------------------------------------------------------------------------
\* replay_recorded_stream.
Replay ==
    /\ dumper.pc = "idle"
    /\ dumper' = [dumper EXCEPT !.replaying = TRUE, !.current = 1, !.at = HeaderSize,
                                !.open = volumes[1].sized,
                                !.pc = IF volumes[1].sized THEN "read" ELSE "idle"]
    /\ replayed' = <<>>
    /\ UNCHANGED <<volumes, throws, history>>

\* Where read_next is with volume i at position p: a record is read there,
\* or a check fails and the next volume is opened, if there is one.
SizeAt(i, p) == volumes[i].data[p].size

NoHeader(i, p) == p + SizeSize > volumes[i].pos
NoBody(i, p) == p + SizeSize + SizeAt(i, p) > volumes[i].pos

\* A defect: the replay ends with the volume.
PlaceInVolume == IF NoHeader(dumper.current, dumper.at)
                 THEN <<Len(volumes) + 1, HeaderSize>>
                 ELSE <<dumper.current, dumper.at>>

\* The place of the next record: after a failed check of the header, the body
\* is checked in the next volume; after that, nothing is.
HeaderPlace == IF NoHeader(dumper.current, dumper.at)
               THEN <<dumper.current + 1, HeaderSize>>
               ELSE <<dumper.current, dumper.at>>

BodyPlace == LET i == HeaderPlace[1]
                 p == HeaderPlace[2]
             IN IF i \in DOMAIN volumes /\ volumes[i].sized /\ NoBody(i, p)
                THEN <<i + 1, HeaderSize>>
                ELSE <<i, p>>

\* A record is read and dispatched; a control record is not passed on.
ReadRecord ==
    LET i == BodyPlace[1]
        p == BodyPlace[2]
        r == volumes[i].data[p]
    IN /\ dumper.pc = "read"
       /\ i \in DOMAIN volumes /\ volumes[i].sized
       /\ replayed' = IF r.id = 0 THEN replayed ELSE Append(replayed, r.id)
       /\ \/ dumper' = [dumper EXCEPT !.current = i, !.at = p + SizeSize + r.size]
          \/ \* the handler throws, and replay_recorded_stream with it
             /\ throws /\ r.id # 0
             /\ dumper' = [dumper EXCEPT !.current = i, !.pc = "idle"]
       /\ UNCHANGED <<volumes, throws, history>>

\* A defect: the Dumper stays REPLAYING.
ReadEndKeepsState ==
    /\ dumper.pc = "read" /\ BodyPlace[1] > LastId
    /\ dumper' = [dumper EXCEPT !.pc = "idle", !.current = Len(volumes)]
    /\ UNCHANGED <<volumes, throws, history, replayed>>

\* The volumes end; the last one stays open, and is recorded in again.
ReadEnd ==
    /\ dumper.pc = "read" /\ BodyPlace[1] > LastId
    /\ dumper' = [dumper EXCEPT !.pc = "idle", !.replaying = FALSE,
                                !.current = LastId]
    /\ UNCHANGED <<volumes, throws, history, replayed>>

\* A volume of no size cannot be mapped.
ReadFails ==
    /\ dumper.pc = "read"
    /\ BodyPlace[1] \in DOMAIN volumes /\ ~volumes[BodyPlace[1]].sized
    /\ dumper' = [dumper EXCEPT !.pc = "idle", !.open = FALSE, !.current = BodyPlace[1]]
    /\ UNCHANGED <<volumes, throws, history, replayed>>

Next ==
    \/ Construct \/ Die \/ Destroy
    \/ CallbackReturns \/ Callback \/ CallbackDies
    \/ Write \/ Create \/ CreateFails \/ Resize \/ Header \/ Data \/ Publish \/ Handle
    \/ Replay \/ ReadRecord \/ ReadEnd \/ ReadFails

Spec == Init /\ [][Next]_vars

-----------------------------------------------------------------------------
Ids(s) == {s[i].id : i \in DOMAIN s}
Lengths == {0} \cup {StoredSize(n) : n \in Sizes \cup {ControlSize}}

Volumes == [sized : BOOLEAN, pos : 0 .. FileSize,
            data : [0 .. FileSize -> [id : {Blank} \cup 0 .. MaxRecords, size : Lengths]]]

\* The types of the members and files.  A position stays within its volume:
\* no record is stored beyond the mapping (write_next).
TypeOK ==
    /\ DOMAIN volumes = 1 .. Len(volumes)
    /\ \A i \in DOMAIN volumes : volumes[i] \in Volumes
    /\ dumper.pc \in {"none", "idle", "write", "create", "resize", "header", "data",
                      "publish", "handle", "read"}
    /\ dumper.open \in BOOLEAN /\ dumper.replaying \in BOOLEAN
    /\ dumper.current \in 1 .. Len(volumes) + 1 /\ dumper.at \in 0 .. FileSize
    /\ dumper.record \in {Control} \cup [id : 1 .. MaxRecords, size : Sizes]
    /\ dumper.then \in {"idle", "handle", "none"}
    /\ throws \in BOOLEAN
    /\ runs \in 0 .. MaxRuns /\ made \in 0 .. MaxRecords
    /\ \A i \in DOMAIN recorded : recorded[i] \in [id : 1 .. MaxRecords, size : Sizes]
    /\ missed \subseteq 1 .. MaxRecords /\ handled \in 0 .. MaxRecords
    /\ \A i \in DOMAIN replayed : replayed[i] \in {Blank} \cup 1 .. MaxRecords

\* The log that a replay can find: a record too long for its size field
\* replays as a blank one.  It is only spoken of when no replay is aborted.
Log == INSTANCE DumperLog WITH
    Entries <- {Blank} \cup 1 .. MaxRecords,
    log <- IF throws THEN <<>>
           ELSE [i \in DOMAIN recorded |-> Stored(recorded[i]).id],
    replayed <- IF throws THEN <<>> ELSE replayed,
    replaying <- ~throws /\ dumper.pc = "read"

\* A Dumper whose handler does not throw implements DumperLog: over any deaths,
\* restarts, rotations and failed files, replay_recorded_stream hands over
\* every recorded callback, once, in order, and no half-written one.
ImplementsLog == Log!LogSpec

\* write_next comes before the wrapped handler: what the handler was told is in
\* the log when the process dies; and, by the types, no position or record gets
\* beyond its volume.
HandledIsRecorded == TypeOK /\ handled \in {0} \cup Ids(recorded)

\* No callback is lost silently: it is recorded, or in progress, or was in
\* progress when the process died or a file could not be created.  After an
\* aborted replay, or with a volume that has no size, that is not so.
NothingDropped ==
    ~throws /\ (\A i \in DOMAIN volumes : volumes[i].sized) =>
        1 .. made \subseteq Ids(recorded) \cup missed \cup {dumper.record.id}

\* Whatever a handler that throws has led to (a destructor that writes in the
\* middle of the volumes, or truncates one), what is replayed is in the order
\* it was recorded, and nothing comes twice (read_next).
ReplayInOrder ==
    \A i, j \in DOMAIN replayed :
        i < j /\ replayed[i] > 0 /\ replayed[j] > 0 => replayed[i] < replayed[j]

=============================================================================
