---------------------------- MODULE DumperProofs ----------------------------
(***************************************************************************)
(* For any sizes of volumes and records, and any number of callbacks and   *)
(* restarts: no position leaves its volume, what the handler was told is   *)
(* recorded, a replay is in the order of the callbacks, none of them is    *)
(* dropped silently, and the Dumper implements DumperLog.  At the end,     *)
(* what its files are worth to the orderbook-dumper that has two Dumpers.  *)
(***************************************************************************)
EXTENDS Dumper, Recording, SequenceTheorems, TLAPS

Records == [id : 1 .. MaxRecords, size : Sizes]
Pcs == {"none", "idle", "write", "create", "resize", "header", "data", "publish",
        "handle", "read"}
DumperRecords == [pc : Pcs, open : BOOLEAN, replaying : BOOLEAN, current : Nat \ {0},
                  at : 0 .. FileSize, record : {Control} \cup Records,
                  then : {"idle", "handle", "none"}]
ReplayedIds == {Blank} \cup 1 .. MaxRecords

Typed ==
    /\ volumes \in Seq(Volumes)
    /\ dumper \in DumperRecords
    /\ throws \in BOOLEAN
    /\ runs \in 0 .. MaxRuns /\ made \in 0 .. MaxRecords
    /\ recorded \in Seq(Records)
    /\ missed \subseteq 1 .. MaxRecords /\ handled \in 0 .. MaxRecords
    /\ replayed \in Seq(ReplayedIds)

\* write_next is under way, up to the store of the record, or to its end.
Storing == {"write", "create", "resize", "header", "data"}
Writing == Storing \cup {"publish"}

Callbacks == dumper.record # Control

\* Where the Dumper is.  It writes in the last volume, unless it is destroyed
\* after a replay that the handler has aborted.
Located ==
    /\ dumper.pc = "none" => dumper = NoDumper
    /\ dumper.pc \notin {"none", "create"} \/ (dumper.pc = "create" /\ Callbacks) => volumes # <<>>
    /\ dumper.current <= Len(volumes) + 1
    /\ dumper.pc \in {"write", "resize", "header", "data", "publish", "handle", "read"} =>
          dumper.current <= Len(volumes)
    /\ dumper.pc \in {"write", "header", "data", "publish", "handle", "read"} =>
          Current.sized
    /\ dumper.pc = "idle" /\ dumper.open => dumper.current <= Len(volumes) /\ Current.sized
    /\ dumper.pc \in Writing /\ dumper.replaying => throws /\ ~Callbacks
    /\ dumper.pc = "handle" => ~dumper.replaying
    /\ dumper.pc = "read" => dumper.replaying
    /\ dumper.pc = "idle" /\ dumper.open /\ dumper.replaying => throws
    /\ dumper.pc \in Writing \cup {"handle"} /\ ~dumper.replaying =>
          dumper.current = IF dumper.pc = "create" THEN Len(volumes) + 1 ELSE Len(volumes)
    /\ dumper.pc = "idle" /\ dumper.open /\ ~dumper.replaying => dumper.current = Len(volumes)

\* What the record is that is written, and what has become of it.
Recorded ==
    /\ dumper.then = "handle" <=> Callbacks
    /\ dumper.pc = "handle" => dumper.then = "handle" /\ dumper.record.id \in Ids(recorded)
    /\ dumper.pc \in Writing /\ Callbacks => dumper.record.id = made
    /\ dumper.pc \in {"idle", "handle", "read"} =>
          dumper.record.id \in {0} \cup Ids(recorded) \cup missed
    /\ handled \in {0} \cup Ids(recorded)

\* There is room for the record, at the position, unless the volume has none.
Placed ==
    /\ dumper.pc \in {"resize", "header"} => Current.pos = 0
    /\ dumper.pc \in {"data", "publish"} =>
          /\ Fits(dumper.at, dumper.record.size)
          /\ dumper.at = Current.pos \/ (dumper.replaying /\ Current.pos = 0)

Id(v, p) == volumes[v].data[p].id
Places == (1 .. Len(volumes)) \X (0 .. FileSize)

\* Callbacks are stored up to the position; the one under way is the newest.
Stores ==
    \A v \in 1 .. Len(volumes), p \in 0 .. FileSize :
        Id(v, p) > 0 => /\ p <= volumes[v].pos
                        /\ Id(v, p) <= made
                        /\ dumper.pc \in Storing /\ Callbacks => Id(v, p) < made

\* They are stored in their order.
Before(v, p, w, q) == v < w \/ (v = w /\ p < q)

Sorted ==
    \A v, w \in 1 .. Len(volumes), p, q \in 0 .. FileSize :
        Before(v, p, w, q) /\ Id(v, p) > 0 /\ Id(w, q) > 0 => Id(v, p) < Id(w, q)

\* What is still to be read is newer than what has been.
Reading ==
    dumper.pc = "read" =>
        \A i \in 1 .. Len(replayed), v \in 1 .. Len(volumes), p \in 0 .. FileSize :
            replayed[i] > 0 /\ Id(v, p) > 0 /\ ~Before(v, p, dumper.current, dumper.at) =>
                replayed[i] < Id(v, p)

Accounted == 1 .. made \subseteq Ids(recorded) \cup missed \cup {dumper.record.id}

\* With a handler that does not throw only the last volume can lack its size,
\* and nothing is written any more when it does.
Sizing ==
    ~throws =>
        /\ \A v \in 1 .. Len(volumes) : ~volumes[v].sized =>
              /\ v = Len(volumes)
              /\ dumper.pc \in {"none", "resize", "read", "idle"}
              /\ dumper.pc = "idle" => ~dumper.open
        /\ dumper.pc = "idle" /\ dumper.replaying =>
              \E v \in 1 .. Len(volumes) : ~volumes[v].sized
        /\ dumper.pc = "resize" \/ (\A v \in 1 .. Len(volumes) : volumes[v].sized) =>
              Accounted

DumperInv ==
    /\ Typed
    /\ Located
    /\ Recorded
    /\ Placed
    /\ Stores
    /\ Sorted
    /\ Reading
    /\ ReplayInOrder
    /\ Sizing

-----------------------------------------------------------------------------
\* Room for any record, as it is stored, and for a blank one, behind a header.
LEMMA StoredSizes ==
  /\ FileSize \in Nat
  /\ \A n \in Sizes \cup {ControlSize} : StoredSize(n) \in Lengths /\ StoredSize(n) \in Nat
  /\ \A s \in Lengths : s \in Nat /\ HeaderSize + SizeSize + s <= FileSize
  /\ Control.id = 0 /\ Control.size \in Sizes \cup {ControlSize}
<1>1. \A n \in Sizes \cup {ControlSize} : StoredSize(n) \in Nat
  BY SizesAssumption DEF StoredSize
<1>2. \A n \in Sizes \cup {ControlSize} : HeaderSize + SizeSize + StoredSize(n) <= FileSize
  BY FitsAssumption
<1>3. HeaderSize + SizeSize <= FileSize
  BY <1>1, <1>2, SizesAssumption DEF HeaderSize, SizeSize
<1>4. QED
  BY <1>1, <1>2, <1>3, SizesAssumption DEF Lengths, HeaderSize, SizeSize, Control

LEMMA RecordTyped ==
  ASSUME NEW r \in {Control} \cup Records
  PROVE  /\ r.id \in Nat /\ r.id <= MaxRecords
         /\ r.size \in Sizes \cup {ControlSize}
         /\ r # Control => r.id > 0
BY BoundsAssumption DEF Records, Control

LEMMA DumperTyped ==
  ASSUME DumperInv
  PROVE  /\ dumper.pc \in Pcs /\ dumper.open \in BOOLEAN /\ dumper.replaying \in BOOLEAN
         /\ dumper.current \in Nat /\ dumper.current >= 1
         /\ dumper.at \in Nat /\ dumper.at <= FileSize
         /\ dumper.record \in {Control} \cup Records
         /\ dumper.then \in {"idle", "handle", "none"}
         /\ Len(volumes) \in Nat /\ made \in Nat /\ made <= MaxRecords
         /\ (volumes = <<>> <=> Len(volumes) = 0)
         /\ \A v \in 1 .. Len(volumes) : volumes[v] \in Volumes
<1>1. FileSize \in Nat
  BY SizesAssumption
<1>2. /\ Len(volumes) \in Nat /\ (volumes = <<>> <=> Len(volumes) = 0)
      /\ \A v \in 1 .. Len(volumes) : volumes[v] \in Volumes
  BY EmptySeq, ElementOfSeq, LenProperties DEF DumperInv, Typed
<1>3. QED
  BY <1>1, <1>2, BoundsAssumption DEF DumperInv, Typed, DumperRecords

LEMMA VolumeTyped ==
  ASSUME NEW x \in Volumes
  PROVE  /\ x.sized \in BOOLEAN /\ x.pos \in Nat /\ x.pos <= FileSize
         /\ x.data \in [0 .. FileSize -> [id : {Blank} \cup 0 .. MaxRecords, size : Lengths]]
         /\ \A p \in 0 .. FileSize : /\ x.data[p].id \in Int
                                     /\ x.data[p].id \in {Blank} \cup 0 .. MaxRecords
                                     /\ x.data[p].size \in Lengths
BY SizesAssumption, BoundsAssumption DEF Volumes, Blank

\* Steps that store nothing.
LEMMA VolumesKept ==
  ASSUME DumperInv, UNCHANGED volumes,
         made' = made \/ made' = made + 1,
         dumper'.pc \in Storing /\ Callbacks' =>
            made' = made + 1 \/ (dumper.pc \in Storing /\ Callbacks)
  PROVE  Stores' /\ Sorted'
<1>1. \A v \in 1 .. Len(volumes), p \in 0 .. FileSize : Id(v, p) \in Int /\ Id(v, p)' = Id(v, p)
  BY DumperTyped, VolumeTyped DEF Id
<1>2. made \in Nat
  BY DumperTyped
<1>3. Stores'
  BY <1>1, <1>2 DEF DumperInv, Stores
<1>4. Sorted'
  BY <1>1 DEF DumperInv, Sorted
<1>5. QED
  BY <1>3, <1>4

\* Steps that read and store nothing.
LEMMA QuietStep ==
  ASSUME DumperInv, UNCHANGED <<volumes, throws, recorded>>,
         dumper' \in DumperRecords, replayed' \in {replayed, <<>>},
         runs' \in 0 .. MaxRuns, made' = made \/ made' = made + 1, made' <= MaxRecords,
         missed' \subseteq 1 .. MaxRecords, handled' \in 0 .. MaxRecords,
         dumper'.pc # "read",
         dumper'.pc \in Storing /\ Callbacks' =>
            made' = made + 1 \/ (dumper.pc \in Storing /\ Callbacks),
         Located', Recorded', Placed', Sizing'
  PROVE  DumperInv'
<1>1. replayed' \in Seq(ReplayedIds) /\ ReplayInOrder'
  <2>1. CASE replayed' = replayed
    BY <2>1 DEF DumperInv, Typed, ReplayInOrder
  <2>2. CASE replayed' = <<>>
    BY <2>2, EmptySeq DEF ReplayInOrder
  <2>3. QED
    BY <2>1, <2>2
<1>2. made' \in 0 .. MaxRecords
  BY DumperTyped
<1>3. Typed'
  BY <1>1, <1>2 DEF DumperInv, Typed
<1>4. Reading'
  BY DEF Reading
<1>5. QED
  BY <1>1, <1>3, <1>4, VolumesKept DEF DumperInv

\* A Dumper that is not there.
LEMMA NoDumperTyped == NoDumper \in DumperRecords
<1>1. 0 \in 0 .. FileSize /\ 1 \in Nat \ {0}
  BY SizesAssumption
<1>2. QED
  BY <1>1 DEF NoDumper, DumperRecords, Pcs

LEMMA GoneStep ==
  ASSUME DumperInv, UNCHANGED <<volumes, throws, recorded, handled>>, dumper' = NoDumper,
         replayed' \in {replayed, <<>>}, runs' \in 0 .. MaxRuns,
         made' = made \/ made' = made + 1, made' <= MaxRecords,
         missed' \subseteq 1 .. MaxRecords, missed \subseteq missed',
         ~throws /\ (\A v \in 1 .. Len(volumes) : volumes[v].sized) =>
            1 .. made' \subseteq Ids(recorded) \cup missed' \cup {0}
  PROVE  DumperInv'
<1>1. /\ dumper'.pc = "none" /\ dumper'.open = FALSE /\ dumper'.replaying = FALSE
      /\ dumper'.current = 1 /\ dumper'.record = Control /\ dumper'.then = "idle"
      /\ dumper' \in DumperRecords
  BY NoDumperTyped DEF NoDumper
<1>2. Located'
  BY <1>1, DumperTyped DEF Located, Writing, Storing
<1>3. Recorded'
  BY <1>1 DEF DumperInv, Recorded, Writing, Storing, Callbacks
<1>4. Placed'
  BY <1>1 DEF Placed
<1>5. Sizing'
  <2>1. ~throws /\ (\A v \in 1 .. Len(volumes) : volumes[v].sized) => Accounted'
    BY <1>1, StoredSizes DEF Accounted
  <2>2. ~throws => \A v \in 1 .. Len(volumes) : ~volumes[v].sized => v = Len(volumes)
    BY DEF DumperInv, Sizing
  <2>3. QED
    BY <1>1, <2>1, <2>2 DEF Sizing
<1>6. handled' \in 0 .. MaxRecords /\ dumper'.pc # "read" /\ dumper'.pc \notin Storing
  BY <1>1 DEF DumperInv, Typed, Storing
<1>7. QED
  BY <1>1, <1>2, <1>3, <1>4, <1>5, <1>6, QuietStep

-----------------------------------------------------------------------------
\* Steps between the calls.
LEMMA ConstructStep ==
  ASSUME DumperInv, Construct
  PROVE  DumperInv'
<1>1. /\ dumper = NoDumper /\ dumper.pc = "none" /\ runs' \in 0 .. MaxRuns
      /\ UNCHANGED <<volumes, throws, made, recorded, missed, handled, replayed>>
  BY BoundsAssumption DEF Construct, DumperInv, Typed, Located
<1>2. /\ dumper.open = FALSE /\ dumper.replaying = FALSE /\ dumper.current = 1
      /\ dumper.record = Control /\ dumper.then = "idle" /\ ~Callbacks /\ dumper \in DumperRecords
  BY <1>1, NoDumperTyped DEF NoDumper, Callbacks
<1>3. PICK pc \in {"none", "create", "header", "write"} :
          \/ /\ pc \in {"none", "create"} /\ dumper' = [dumper EXCEPT !.pc = pc]
             /\ pc = "create" => volumes = <<>>
          \/ /\ pc \in {"header", "write"} /\ volumes # <<>> /\ volumes[Len(volumes)].sized
             /\ pc = "header" => volumes[Len(volumes)].pos = 0
             /\ dumper' = [dumper EXCEPT !.pc = pc, !.open = TRUE, !.current = Len(volumes)]
  <2>1. CASE volumes = <<>>
    BY <1>1, <2>1 DEF Construct, NoDumper
  <2>2. CASE volumes # <<>> /\ ~volumes[Len(volumes)].sized
    <3>1. dumper' = NoDumper
      BY <1>1, <2>2 DEF Construct, LastId
    <3>2. NoDumper = [dumper EXCEPT !.pc = "none"]
      BY <1>1 DEF NoDumper
    <3>3. QED
      BY <3>1, <3>2
  <2>3. CASE volumes # <<>> /\ volumes[Len(volumes)].sized
    <3>1. \E pc \in {"header", "write"} :
             /\ pc = "header" => volumes[Len(volumes)].pos = 0
             /\ dumper' = [dumper EXCEPT !.pc = pc, !.open = TRUE, !.current = Len(volumes)]
      BY <1>1, <2>3 DEF Construct, LastId, NoDumper
    <3>2. QED
      BY <2>3, <3>1
  <2>4. QED
    BY <2>1, <2>2, <2>3
<1>4. /\ dumper'.pc = pc /\ dumper'.replaying = FALSE
      /\ dumper'.record = Control /\ dumper'.then = "idle" /\ dumper' \in DumperRecords
      /\ \/ pc = "none" /\ dumper' = NoDumper
         \/ pc = "create" /\ volumes = <<>> /\ dumper'.current = 1
         \/ pc \in {"header", "write"} /\ volumes # <<>> /\ volumes[Len(volumes)].sized
            /\ dumper'.current = Len(volumes) /\ (pc = "header" => volumes[Len(volumes)].pos = 0)
  BY ZenonT(60), <1>1, <1>2, <1>3, DumperTyped DEF DumperRecords, Pcs, NoDumper
<1>5. Located'
  <2>1. /\ Len(volumes) \in Nat /\ (volumes = <<>> <=> Len(volumes) = 0) /\ volumes' = volumes
        /\ ~Callbacks'
    BY <1>1, <1>4, DumperTyped DEF Callbacks
  <2>2. CASE pc = "none"
    BY <1>1, <1>4, <2>1, <2>2 DEF NoDumper, Located, Writing, Storing
  <2>3. CASE pc = "create" /\ volumes = <<>> /\ dumper'.current = 1
    BY <1>4, <2>1, <2>3 DEF Located, Writing, Storing
  <2>4. CASE /\ pc \in {"header", "write"} /\ volumes # <<>> /\ volumes[Len(volumes)].sized
             /\ dumper'.current = Len(volumes)
    BY <1>4, <2>1, <2>4 DEF Located, Writing, Storing, Current
  <2>5. QED
    BY <1>4, <2>2, <2>3, <2>4
<1>6. Recorded' /\ Placed'
  BY <1>1, <1>2, <1>4 DEF DumperInv, Recorded, Placed, Writing, Storing, Callbacks, Current
<1>7. Sizing'
  <2>1. ~throws => \A v \in 1 .. Len(volumes) : ~volumes[v].sized => v = Len(volumes)
    BY DEF DumperInv, Sizing
  <2>2. ~throws /\ (\A v \in 1 .. Len(volumes) : volumes[v].sized) => Accounted'
    BY <1>1, <1>2, <1>4 DEF DumperInv, Sizing, Accounted
  <2>3. QED
    BY <1>1, <1>4, <2>1, <2>2, DumperTyped DEF Sizing
<1>8. ~Callbacks' /\ dumper'.pc # "read"
  BY <1>4 DEF Callbacks
<1>9. QED
  BY <1>1, <1>4, <1>5, <1>6, <1>7, <1>8, DumperTyped, QuietStep DEF DumperInv, Typed

\* However the process ends, what was in progress is missed.
LEMMA EndStep ==
  ASSUME DumperInv, Die \/ CallbackDies
  PROVE  DumperInv'
<1>1. /\ UNCHANGED <<volumes, throws, runs, recorded, handled>>
      /\ dumper' = NoDumper /\ replayed' = <<>> /\ runs \in 0 .. MaxRuns
      /\ missed \subseteq 1 .. MaxRecords
  BY DEF Die, CallbackDies, DumperInv, Typed
<1>2. dumper.record.id \in 0 .. MaxRecords
  BY DumperTyped, RecordTyped
<1>3. CASE Die
  <2>1. made' = made /\ missed \subseteq missed' /\ missed' \subseteq 1 .. MaxRecords
    <3>1. {dumper.record.id} \ {0} \subseteq 1 .. MaxRecords
      BY <1>2, BoundsAssumption
    <3>2. QED
      BY <1>1, <1>3, <3>1 DEF Die
  <2>2. {dumper.record.id} \subseteq Ids(recorded) \cup missed' \cup {0}
    BY <1>3 DEF Die, DumperInv, Recorded
  <2>3. ~throws /\ (\A v \in 1 .. Len(volumes) : volumes[v].sized) =>
            1 .. made \subseteq Ids(recorded) \cup missed' \cup {0}
    BY <2>1, <2>2 DEF DumperInv, Sizing, Accounted
  <2>4. QED
    BY <1>1, <2>1, <2>3, DumperTyped, GoneStep
<1>4. CASE CallbackDies
  <2>1. /\ dumper.pc = "idle" /\ made' = made + 1 /\ made' <= MaxRecords
        /\ missed' = missed \cup {made + 1} /\ missed' \subseteq 1 .. MaxRecords
    <3>1. /\ dumper.pc = "idle" /\ made' = made + 1 /\ made < MaxRecords
          /\ missed' = missed \cup {made'}
      BY <1>4 DEF CallbackDies
    <3>2. made \in Nat /\ MaxRecords \in Nat
      BY DumperTyped, BoundsAssumption
    <3>3. made + 1 \in 1 .. MaxRecords /\ made + 1 <= MaxRecords
      BY <3>1, <3>2
    <3>4. QED
      BY <1>1, <3>1, <3>3
  <2>2. {dumper.record.id} \subseteq Ids(recorded) \cup missed \cup {0}
    BY <2>1 DEF DumperInv, Recorded
  <2>3. 1 .. made + 1 \subseteq 1 .. made \cup {made + 1}
    BY DumperTyped
  <2>4. ~throws /\ (\A v \in 1 .. Len(volumes) : volumes[v].sized) =>
            1 .. made' \subseteq Ids(recorded) \cup missed' \cup {0}
    BY <2>1, <2>2, <2>3 DEF DumperInv, Sizing, Accounted
  <2>5. QED
    BY <1>1, <2>1, <2>4, GoneStep
<1>5. QED
  BY <1>3, <1>4

\* A callback comes, and the record it makes is to be written; or it returns.
LEMMA CallbackStep ==
  ASSUME DumperInv, Callback \/ CallbackReturns
  PROVE  DumperInv'
<1>1. /\ dumper.pc = "idle" /\ made' = made + 1 /\ made' <= MaxRecords /\ made' \in 1 .. MaxRecords
      /\ UNCHANGED <<volumes, throws, runs, recorded, missed, handled, replayed>>
  <2>1. made \in Nat /\ MaxRecords \in Nat
    BY DumperTyped, BoundsAssumption
  <2>2. made' = made + 1 /\ made < MaxRecords
    BY DEF Callback, CallbackReturns
  <2>3. made' <= MaxRecords /\ made' \in 1 .. MaxRecords
    BY <2>1, <2>2
  <2>4. QED
    BY <2>2, <2>3 DEF Callback, CallbackReturns
<1>2. volumes # <<>> /\ dumper \in DumperRecords
  BY <1>1 DEF DumperInv, Typed, Located
<1>3. {dumper.record.id} \subseteq Ids(recorded) \cup missed \cup {0}
  BY <1>1 DEF DumperInv, Recorded
<1>4. CASE Callback
  <2>1. PICK n \in Sizes : dumper' = [dumper EXCEPT !.pc = "write", !.then = "handle",
                                                    !.record = [id |-> made + 1, size |-> n]]
    BY <1>1, <1>4 DEF Callback
  <2>2. /\ dumper'.pc = "write" /\ dumper'.then = "handle" /\ dumper'.record.id = made + 1
        /\ dumper'.record = [id |-> made + 1, size |-> n]
        /\ dumper'.open = TRUE /\ dumper'.replaying = FALSE /\ dumper'.current = dumper.current
    BY <1>2, <1>4, <2>1, DumperTyped DEF Callback, DumperRecords
  <2>3. dumper' \in DumperRecords
    BY <1>1, <1>2, <2>1 DEF DumperRecords, Pcs, Records
  <2>4. Callbacks'
    BY <2>2, DumperTyped, StoredSizes DEF Callbacks
  <2>5. dumper.current = Len(volumes) /\ Current.sized
    BY <1>1, <1>4 DEF Callback, DumperInv, Located
  <2>6. Located'
    BY <1>1, <1>2, <2>2, <2>5, DumperTyped DEF Located, Writing, Storing, Current
  <2>7. Recorded' /\ Placed'
    BY <1>1, <2>2, <2>4 DEF DumperInv, Recorded, Placed
  <2>8. Sizing'
    <3>1. 1 .. made + 1 \subseteq 1 .. made \cup {made + 1}
      BY DumperTyped
    <3>2. ~throws => \A v \in 1 .. Len(volumes) : volumes[v].sized
      BY <1>1, <1>4 DEF Callback, DumperInv, Sizing
    <3>3. ~throws => Accounted'
      BY <1>1, <1>3, <2>2, <3>1, <3>2 DEF DumperInv, Sizing, Accounted
    <3>4. QED
      BY <1>1, <2>2, <3>2, <3>3 DEF Sizing
  <2>9. QED
    BY <1>1, <2>2, <2>3, <2>6, <2>7, <2>8, QuietStep DEF DumperInv, Typed
<1>5. CASE CallbackReturns
  <2>1. dumper' = dumper /\ dumper.replaying
    BY <1>5 DEF CallbackReturns
  <2>2. Located' /\ Placed'
    BY <1>1, <2>1 DEF DumperInv, Located, Placed, Writing, Storing, Callbacks, Current
  <2>3. Recorded'
    BY <1>1, <2>1 DEF DumperInv, Recorded, Writing, Storing, Callbacks
  <2>4. Sizing'
    <3>1. ~throws => \E v \in 1 .. Len(volumes) : ~volumes[v].sized
      BY <1>1, <2>1 DEF DumperInv, Sizing
    <3>2. QED
      BY <1>1, <2>1, <3>1 DEF DumperInv, Sizing
  <2>5. dumper'.pc \notin Storing
    BY <1>1, <2>1 DEF Storing
  <2>6. QED
    BY <1>1, <1>2, <2>1, <2>2, <2>3, <2>4, <2>5, QuietStep DEF DumperInv, Typed
<1>6. QED
  BY <1>4, <1>5

LEMMA DestroyStep ==
  ASSUME DumperInv, Destroy
  PROVE  DumperInv'
<1>1. /\ dumper.pc = "idle" /\ runs \in 0 .. MaxRuns /\ missed \subseteq 1 .. MaxRecords
      /\ UNCHANGED <<volumes, throws, runs, made, recorded, missed, handled, replayed>>
  BY DEF Destroy, history, DumperInv, Typed
<1>2. {dumper.record.id} \subseteq Ids(recorded) \cup missed \cup {0}
  BY <1>1 DEF DumperInv, Recorded
<1>3. CASE ~dumper.open
  <2>1. dumper' = NoDumper
    BY <1>3 DEF Destroy
  <2>2. ~throws /\ (\A v \in 1 .. Len(volumes) : volumes[v].sized) =>
            1 .. made \subseteq Ids(recorded) \cup missed \cup {0}
    BY <1>2 DEF DumperInv, Sizing, Accounted
  <2>3. QED
    BY <1>1, <2>1, <2>2, DumperTyped, GoneStep
<1>4. CASE dumper.open
  <2>1. dumper' = [dumper EXCEPT !.pc = "write", !.then = "none", !.record = Control]
    BY <1>4 DEF Destroy
  <2>2. /\ dumper'.pc = "write" /\ dumper'.then = "none" /\ dumper'.record = Control
        /\ dumper'.replaying = dumper.replaying /\ dumper'.current = dumper.current
        /\ dumper' \in DumperRecords
    BY <2>1 DEF DumperInv, Typed, DumperRecords, Pcs
  <2>3. Located'
    BY <1>1, <1>4, <2>2, DumperTyped DEF DumperInv, Located, Writing, Storing, Callbacks, Current
  <2>4. Recorded' /\ Placed'
    BY <1>1, <2>2 DEF DumperInv, Recorded, Placed, Callbacks
  <2>5. Sizing'
    <3>1. ~throws => \A v \in 1 .. Len(volumes) : volumes[v].sized
      BY <1>1, <1>4 DEF DumperInv, Sizing
    <3>2. ~throws => Accounted'
      BY <1>1, <1>2, <2>2, <3>1, StoredSizes DEF DumperInv, Sizing, Accounted
    <3>3. QED
      BY <1>1, <2>2, <3>1, <3>2 DEF Sizing
  <2>6. ~Callbacks'
    BY <2>2 DEF Callbacks
  <2>7. QED
    BY <1>1, <2>2, <2>3, <2>4, <2>5, <2>6, DumperTyped, QuietStep DEF DumperInv, Typed
<1>5. QED
  BY <1>3, <1>4

-----------------------------------------------------------------------------
\* write_next.
LEMMA WriteStep ==
  ASSUME DumperInv, Write
  PROVE  DumperInv'
<1>1. /\ dumper.pc = "write" /\ dumper \in DumperRecords
      /\ UNCHANGED <<volumes, throws, runs, made, recorded, missed, handled, replayed>>
  BY DEF Write, history, DumperInv, Typed
<1>2. /\ dumper.current \in 1 .. Len(volumes) /\ Current.sized
      /\ Current.pos \in Nat /\ Current.pos <= FileSize
  <2>1. dumper.current \in 1 .. Len(volumes) /\ Current.sized
    BY <1>1, DumperTyped DEF DumperInv, Located
  <2>2. QED
    BY <2>1, DumperTyped, VolumeTyped DEF Current
<1>3. ~throws => (\A v \in 1 .. Len(volumes) : volumes[v].sized) /\ Accounted
  BY <1>1 DEF DumperInv, Sizing
<1>4. CASE Fits(Current.pos, dumper.record.size)
  <2>1. dumper' = [dumper EXCEPT !.pc = "data", !.at = Current.pos]
    BY <1>4 DEF Write
  <2>2. /\ dumper'.pc = "data" /\ dumper'.at = Current.pos /\ dumper'.record = dumper.record
        /\ dumper'.then = dumper.then /\ dumper'.current = dumper.current
        /\ dumper'.replaying = dumper.replaying
    BY <1>1, <2>1 DEF DumperRecords
  <2>3. dumper' \in DumperRecords
    <3>1. Current.pos \in 0 .. FileSize
      BY <1>2, StoredSizes
    <3>2. QED
      BY <1>1, <2>1, <3>1 DEF DumperRecords, Pcs
  <2>4. Located'
    BY <1>1, <1>2, <2>2 DEF DumperInv, Located, Writing, Storing, Callbacks, Current
  <2>5. Recorded' /\ Placed'
    BY <1>1, <1>4, <2>2 DEF DumperInv, Recorded, Placed, Writing, Storing, Callbacks, Current, Fits
  <2>6. Sizing'
    BY <1>1, <1>3, <2>2 DEF Sizing, Accounted
  <2>7. Callbacks' = Callbacks
    BY <2>2 DEF Callbacks
  <2>8. QED
    BY <1>1, <2>2, <2>3, <2>4, <2>5, <2>6, <2>7, DumperTyped, QuietStep
    DEF DumperInv, Typed, Storing
<1>5. CASE ~Fits(Current.pos, dumper.record.size)
  <2>1. dumper' = [dumper EXCEPT !.pc = "create", !.current = dumper.current + 1]
    BY <1>1, <1>5 DEF Write, DumperRecords
  <2>2. /\ dumper'.pc = "create" /\ dumper'.record = dumper.record
        /\ dumper'.then = dumper.then /\ dumper'.current = dumper.current + 1
        /\ dumper'.replaying = dumper.replaying
    BY <1>1, <2>1 DEF DumperRecords
  <2>3. dumper' \in DumperRecords
    <3>1. dumper.current + 1 \in Nat \ {0}
      BY DumperTyped
    <3>2. QED
      BY <1>1, <2>1, <3>1 DEF DumperRecords, Pcs
  <2>4. Located'
    <3>1. dumper.current + 1 <= Len(volumes) + 1
      BY <1>2, DumperTyped
    <3>2. QED
      BY <1>1, <2>2, <3>1 DEF DumperInv, Located, Writing, Storing, Callbacks
  <2>5. Recorded' /\ Placed'
    BY <1>1, <2>2 DEF DumperInv, Recorded, Placed, Writing, Storing, Callbacks
  <2>6. Sizing'
    BY <1>1, <1>3, <2>2 DEF Sizing, Accounted
  <2>7. Callbacks' = Callbacks
    BY <2>2 DEF Callbacks
  <2>8. QED
    BY <1>1, <2>2, <2>3, <2>4, <2>5, <2>6, <2>7, DumperTyped, QuietStep
    DEF DumperInv, Typed, Storing
<1>6. QED
  BY <1>4, <1>5

LEMMA CreateFailsStep ==
  ASSUME DumperInv, CreateFails
  PROVE  DumperInv'
<1>1. /\ dumper.pc \in {"create", "resize"} /\ dumper \in DumperRecords
      /\ missed' = missed \cup ({dumper.record.id} \ {0})
      /\ UNCHANGED <<volumes, throws, runs, made, recorded, handled>>
      /\ replayed' \in {replayed, <<>>} /\ runs \in 0 .. MaxRuns
  BY DEF CreateFails, DumperInv, Typed
<1>2. missed \subseteq missed' /\ missed' \subseteq 1 .. MaxRecords
      /\ {dumper.record.id} \subseteq missed' \cup {0}
  <2>1. dumper.record.id \in Nat /\ dumper.record.id <= MaxRecords
    BY DumperTyped, RecordTyped
  <2>2. {dumper.record.id} \ {0} \subseteq 1 .. MaxRecords
    BY <2>1, BoundsAssumption
  <2>3. QED
    BY <1>1, <2>2 DEF DumperInv, Typed
<1>3. ~throws /\ (\A v \in 1 .. Len(volumes) : volumes[v].sized) =>
          1 .. made \subseteq Ids(recorded) \cup missed' \cup {0}
  BY <1>2 DEF DumperInv, Sizing, Accounted
<1>4. CASE dumper.record = Control
  <2>1. dumper' = NoDumper
    BY <1>4 DEF CreateFails
  <2>2. QED
    BY <1>1, <1>2, <1>3, <2>1, DumperTyped, GoneStep
<1>5. CASE dumper.record # Control
  <2>1. dumper' = [dumper EXCEPT !.pc = "idle", !.open = FALSE]
    BY <1>5 DEF CreateFails
  <2>2. /\ dumper'.pc = "idle" /\ dumper'.open = FALSE /\ dumper'.record = dumper.record
        /\ dumper'.then = dumper.then /\ dumper'.current = dumper.current
        /\ dumper'.replaying = dumper.replaying /\ dumper' \in DumperRecords
    BY <1>1, <2>1 DEF DumperRecords, Pcs
  <2>3. ~dumper.replaying
    BY <1>1, <1>5 DEF DumperInv, Located, Writing, Storing, Callbacks
  <2>4. Located'
    BY <1>1, <1>5, <2>2, <2>3, DumperTyped DEF DumperInv, Located, Writing, Storing, Callbacks
  <2>5. Recorded' /\ Placed'
    BY <1>1, <1>2, <2>2 DEF DumperInv, Recorded, Placed, Writing, Storing, Callbacks
  <2>6. Sizing'
    <3>1. ~throws => \A v \in 1 .. Len(volumes) : ~volumes[v].sized => v = Len(volumes)
      BY DEF DumperInv, Sizing
    <3>2. ~throws /\ (\A v \in 1 .. Len(volumes) : volumes[v].sized) => Accounted'
      BY <1>1, <1>2, <1>3, <2>2 DEF Accounted
    <3>3. QED
      BY <1>1, <2>2, <2>3, <3>1, <3>2 DEF Sizing
  <2>7. QED
    BY <1>1, <1>2, <2>2, <2>4, <2>5, <2>6, DumperTyped, QuietStep DEF DumperInv, Typed, Storing
<1>6. QED
  BY <1>4, <1>5

\* The callback is passed on, when it is recorded.
LEMMA HandleStep ==
  ASSUME DumperInv, Handle
  PROVE  DumperInv'
<1>1. /\ dumper.pc = "handle" /\ dumper \in DumperRecords /\ handled' = dumper.record.id
      /\ UNCHANGED <<volumes, throws, runs, made, recorded, missed, replayed>>
      /\ dumper' = [dumper EXCEPT !.pc = "idle"]
  BY DEF Handle, Goto, DumperInv, Typed
<1>2. /\ dumper'.pc = "idle" /\ dumper'.open = dumper.open /\ dumper'.record = dumper.record
      /\ dumper'.then = dumper.then /\ dumper'.current = dumper.current
      /\ dumper'.replaying = dumper.replaying /\ dumper' \in DumperRecords
  BY <1>1 DEF DumperRecords, Pcs
<1>3. Located'
  BY <1>1, <1>2 DEF DumperInv, Located, Writing, Storing, Current
<1>4. Recorded' /\ Placed'
  BY <1>1, <1>2 DEF DumperInv, Recorded, Placed, Writing, Storing, Callbacks
<1>5. Sizing'
  <2>1. ~dumper.replaying
    BY <1>1 DEF DumperInv, Located
  <2>2. ~throws => (\A v \in 1 .. Len(volumes) : volumes[v].sized) /\ Accounted
    BY <1>1 DEF DumperInv, Sizing
  <2>3. QED
    BY <1>1, <1>2, <2>1, <2>2 DEF Sizing, Accounted
<1>6. dumper.record.id \in 0 .. MaxRecords
  BY DumperTyped, RecordTyped, BoundsAssumption
<1>7. QED
  BY <1>1, <1>2, <1>3, <1>4, <1>5, <1>6, DumperTyped, QuietStep DEF DumperInv, Typed, Storing

-----------------------------------------------------------------------------
\* What a step that stores in one volume has to show, besides where it goes.
LEMMA StoreStep ==
  ASSUME DumperInv, UNCHANGED <<throws, runs, made, missed, handled, replayed>>,
         volumes' \in Seq(Volumes), dumper' \in DumperRecords,
         recorded' \in Seq(Records), dumper'.pc # "read",
         Located', Recorded', Placed', Stores', Sorted', Sizing'
  PROVE  DumperInv'
<1>1. Typed'
  BY DEF DumperInv, Typed
<1>2. Reading' /\ ReplayInOrder'
  BY DEF DumperInv, Reading, ReplayInOrder
<1>3. QED
  BY <1>1, <1>2 DEF DumperInv

LEMMA EmptyVolumeTyped ==
  /\ EmptyVolume \in Volumes /\ EmptyVolume.sized = FALSE /\ EmptyVolume.pos = 0
  /\ \A p \in 0 .. FileSize : EmptyVolume.data[p].id = Blank
<1>1. 0 \in 0 .. FileSize /\ 0 \in Lengths
  BY SizesAssumption DEF Lengths
<1>2. QED
  BY <1>1 DEF EmptyVolume, Volumes

LEMMA CreateStep ==
  ASSUME DumperInv, Create
  PROVE  DumperInv'
<1> DEFINE c == dumper.current
           n == Len(volumes)
           m == Len(volumes')
<1>1. /\ dumper.pc = "create" /\ dumper \in DumperRecords
      /\ UNCHANGED <<throws, runs, made, recorded, missed, handled, replayed>>
      /\ dumper' = [dumper EXCEPT !.pc = "resize", !.open = FALSE]
  BY DEF Create, history, DumperInv, Typed
<1>2. /\ dumper'.pc = "resize" /\ dumper'.open = FALSE /\ dumper'.record = dumper.record
      /\ dumper'.then = dumper.then /\ dumper'.current = c
      /\ dumper'.replaying = dumper.replaying /\ dumper' \in DumperRecords
  BY <1>1 DEF DumperRecords, Pcs
<1>3. n \in Nat /\ c \in 1 .. n + 1
  BY DumperTyped DEF DumperInv, Located
<1>4. PICK k \in Nat : k >= n /\ k >= 1 /\ c \in 1 .. k /\ 1 .. n \cup {c} = 1 .. k
                       /\ k = (IF c = n + 1 THEN n + 1 ELSE n)
  <2>1. CASE c = n + 1
    BY <1>3, <2>1
  <2>2. CASE c \in 1 .. n
    BY <1>3, <2>2
  <2>3. QED
    BY <1>3, <2>1, <2>2
<1>5. volumes' = [i \in 1 .. k |-> IF i = c THEN EmptyVolume ELSE volumes[i]]
  BY <1>4 DEF Create
<1>6. \A i \in 1 .. k : i # c => i \in 1 .. n /\ volumes[i] \in Volumes
  BY <1>3, <1>4, DumperTyped
<1>7. /\ volumes' \in Seq(Volumes) /\ m = k /\ volumes' # <<>>
      /\ volumes'[c] = EmptyVolume
      /\ \A i \in 1 .. k : i # c => i \in 1 .. n /\ volumes'[i] = volumes[i]
  BY <1>4, <1>5, <1>6, EmptyVolumeTyped, EmptySeq
<1>8. \A v \in 1 .. m, p \in 0 .. FileSize :
          Id(v, p)' > 0 => v # c /\ v \in 1 .. n /\ Id(v, p)' = Id(v, p) /\ volumes'[v] = volumes[v]
  BY <1>7, EmptyVolumeTyped DEF Id, Blank
<1> HIDE DEF c, n, m
<1>9. Located'
  BY <1>1, <1>2, <1>3, <1>4, <1>7 DEF DumperInv, Located, Writing, Storing, Callbacks, c, n, m
<1>10. Recorded' /\ Placed'
  BY <1>1, <1>2, <1>7, EmptyVolumeTyped
  DEF DumperInv, Recorded, Placed, Writing, Storing, Callbacks, Current, c
<1>11. Stores'
  <2>1. Callbacks' = Callbacks
    BY <1>2 DEF Callbacks
  <2>2. QED
    BY <1>1, <1>8, <2>1 DEF DumperInv, Stores, Storing, n, m
<1>12. Sorted'
  BY <1>8 DEF DumperInv, Sorted, n, m
<1>13. Sizing'
  <2>1. ~throws => (\A v \in 1 .. n : volumes[v].sized) /\ Accounted /\ ~dumper.replaying
    BY <1>1 DEF DumperInv, Sizing, Located, Writing, Storing, n
  <2>2. ~throws => c = n + 1
    BY <1>1, <2>1 DEF DumperInv, Located, Writing, Storing, c, n
  <2>3. ~throws => \A v \in 1 .. m : ~volumes'[v].sized => v = m
    BY <1>3, <1>4, <1>7, <2>1, <2>2
  <2>4. QED
    BY <1>1, <1>2, <2>1, <2>3 DEF Sizing, Accounted, m
<1>14. QED
  BY <1>1, <1>2, <1>7, <1>9, <1>10, <1>11, <1>12, <1>13, StoreStep DEF DumperInv, Typed

\* A step that changes the current volume.
LEMMA VolumeStored ==
  ASSUME DumperInv, NEW x \in Volumes, dumper.current \in 1 .. Len(volumes),
         volumes' = [volumes EXCEPT ![dumper.current] = x]
  PROVE  /\ volumes' \in Seq(Volumes) /\ Len(volumes') = Len(volumes)
         /\ (volumes' = <<>> <=> volumes = <<>>)
         /\ volumes'[dumper.current] = x
         /\ \A v \in 1 .. Len(volumes) : v # dumper.current => volumes'[v] = volumes[v]
<1>1. volumes \in Seq(Volumes)
  BY DEF DumperInv, Typed
<1>2. /\ volumes' \in Seq(Volumes) /\ Len(volumes') = Len(volumes)
      /\ \A v \in 1 .. Len(volumes) : volumes'[v] = IF v = dumper.current THEN x ELSE volumes[v]
  BY <1>1, ExceptSeq
<1>3. QED
  BY <1>1, <1>2, EmptySeq

LEMMA ResizeStep ==
  ASSUME DumperInv, Resize
  PROVE  DumperInv'
<1> DEFINE c == dumper.current
           n == Len(volumes)
           x == [volumes[c] EXCEPT !.sized = TRUE]
<1>1. /\ dumper.pc = "resize" /\ dumper \in DumperRecords
      /\ UNCHANGED <<throws, runs, made, recorded, missed, handled, replayed>>
      /\ dumper' = [dumper EXCEPT !.pc = "header", !.open = TRUE]
  BY DEF Resize, history, DumperInv, Typed
<1>2. /\ dumper'.pc = "header" /\ dumper'.record = dumper.record
      /\ dumper'.then = dumper.then /\ dumper'.current = c
      /\ dumper'.replaying = dumper.replaying /\ dumper' \in DumperRecords
  BY <1>1 DEF DumperRecords, Pcs
<1>3. c \in 1 .. n /\ volumes[c] \in Volumes
  BY <1>1, DumperTyped DEF DumperInv, Located
<1>4. /\ x \in Volumes /\ x.sized = TRUE /\ x.pos = volumes[c].pos /\ x.data = volumes[c].data
  BY <1>3 DEF Volumes
<1>5. volumes' = [volumes EXCEPT ![c] = x]
  BY <1>3 DEF Resize, DumperInv, Typed, Volumes
<1> HIDE DEF x
<1>6. /\ volumes' \in Seq(Volumes) /\ Len(volumes') = n /\ (volumes' = <<>> <=> volumes = <<>>)
      /\ volumes'[c] = x /\ \A v \in 1 .. n : v # c => volumes'[v] = volumes[v]
  BY <1>3, <1>4, <1>5, VolumeStored
<1>7. \A v \in 1 .. n : volumes'[v].pos = volumes[v].pos /\ volumes'[v].data = volumes[v].data
  BY <1>4, <1>6
<1> HIDE DEF c, n
<1>8. Located'
  BY <1>1, <1>2, <1>3, <1>4, <1>6 DEF DumperInv, Located, Writing, Storing, Callbacks, Current, c, n
<1>9. Recorded' /\ Placed'
  BY <1>1, <1>2, <1>3, <1>7 DEF DumperInv, Recorded, Placed, Writing, Storing, Callbacks, Current, c
<1>10. Stores' /\ Sorted'
  <2>1. Callbacks' = Callbacks
    BY <1>2 DEF Callbacks
  <2>2. \A v \in 1 .. n, p \in 0 .. FileSize : Id(v, p)' = Id(v, p)
    BY <1>7 DEF Id
  <2>3. Stores'
    BY <1>1, <1>6, <1>7, <2>1, <2>2 DEF DumperInv, Stores, Storing, n
  <2>4. Sorted'
    BY <1>6, <2>2 DEF DumperInv, Sorted, n
  <2>5. QED
    BY <2>3, <2>4
<1>11. Sizing'
  <2>1. ~throws => Accounted /\ ~dumper.replaying
    BY <1>1 DEF DumperInv, Sizing, Located, Writing, Storing
  <2>2. ~throws => c = n
    BY <1>1, <2>1 DEF DumperInv, Located, Writing, Storing, c, n
  <2>3. ~throws => \A v \in 1 .. n : volumes'[v].sized
    BY <1>4, <1>6, <2>2 DEF DumperInv, Sizing, n
  <2>4. QED
    BY <1>1, <1>2, <1>6, <2>1, <2>3 DEF Sizing, Accounted, n
<1>12. QED
  BY <1>1, <1>2, <1>6, <1>8, <1>9, <1>10, <1>11, StoreStep DEF DumperInv, Typed

LEMMA HeaderStep ==
  ASSUME DumperInv, Header
  PROVE  DumperInv'
<1> DEFINE c == dumper.current
           n == Len(volumes)
           x == IF dumper.replaying THEN volumes[c] ELSE [volumes[c] EXCEPT !.pos = HeaderSize]
<1>1. /\ dumper.pc = "header" /\ dumper \in DumperRecords
      /\ UNCHANGED <<throws, runs, made, recorded, missed, handled, replayed>>
      /\ dumper' = [dumper EXCEPT !.pc = "data", !.at = HeaderSize]
  BY DEF Header, history, DumperInv, Typed
<1>2. HeaderSize \in 0 .. FileSize /\ FileSize \in Nat /\ HeaderSize \in Nat /\ HeaderSize # 0
      /\ Fits(HeaderSize, dumper.record.size)
  <2>1. dumper.record.size \in Sizes \cup {ControlSize}
    BY DumperTyped, RecordTyped
  <2>2. /\ StoredSize(dumper.record.size) \in Nat /\ FileSize \in Nat
        /\ HeaderSize + SizeSize + StoredSize(dumper.record.size) <= FileSize
    BY <2>1, StoredSizes
  <2>3. QED
    BY <2>2 DEF HeaderSize, SizeSize, Fits
<1>3. /\ dumper'.pc = "data" /\ dumper'.at = HeaderSize /\ dumper'.record = dumper.record
      /\ dumper'.then = dumper.then /\ dumper'.current = c
      /\ dumper'.replaying = dumper.replaying /\ dumper' \in DumperRecords
  BY <1>1, <1>2 DEF DumperRecords, Pcs
<1>4. c \in 1 .. n /\ volumes[c] \in Volumes /\ volumes[c].sized
  BY <1>1, DumperTyped DEF DumperInv, Located, Current
<1>5. /\ x \in Volumes /\ x.sized = TRUE /\ x.data = volumes[c].data
      /\ x.pos = IF dumper.replaying THEN volumes[c].pos ELSE HeaderSize
  BY <1>2, <1>4 DEF Volumes
<1>6. volumes' = [volumes EXCEPT ![c] = x]
  <2>1. volumes \in [1 .. n -> Volumes]
    BY LenProperties DEF DumperInv, Typed
  <2>2. CASE dumper.replaying
    BY <1>4, <2>1, <2>2 DEF Header
  <2>3. CASE ~dumper.replaying
    BY <1>4, <2>1, <2>3 DEF Header, Volumes
  <2>4. QED
    BY <2>2, <2>3
<1> HIDE DEF x
<1>7. /\ volumes' \in Seq(Volumes) /\ Len(volumes') = n /\ (volumes' = <<>> <=> volumes = <<>>)
      /\ volumes'[c] = x /\ \A v \in 1 .. n : v # c => volumes'[v] = volumes[v]
  BY <1>4, <1>5, <1>6, VolumeStored
<1>8. \A v \in 1 .. n : volumes'[v].sized = volumes[v].sized /\ volumes'[v].data = volumes[v].data
  BY <1>4, <1>5, <1>7
<1>9. Current' = x /\ volumes[c] = Current
  BY <1>3, <1>7 DEF Current
<1> HIDE DEF c, n
<1>10. Located'
  BY <1>1, <1>3, <1>4, <1>5, <1>7, <1>9 DEF DumperInv, Located, Writing, Storing, Callbacks, c, n
<1>11. Recorded'
  BY <1>1, <1>3 DEF DumperInv, Recorded, Writing, Storing, Callbacks
<1>12. Placed'
  <2>1. dumper.replaying => Current.pos = 0
    BY <1>1 DEF DumperInv, Placed
  <2>2. QED
    BY <1>2, <1>3, <1>5, <1>9, <2>1 DEF Placed, Fits
<1>13. Stores' /\ Sorted'
  <2>1. Callbacks' = Callbacks
    BY <1>3 DEF Callbacks
  <2>2. \A v \in 1 .. n, p \in 0 .. FileSize : Id(v, p)' = Id(v, p)
    BY <1>8 DEF Id
  <2>3. ASSUME NEW v \in 1 .. n, NEW p \in 0 .. FileSize, p <= volumes[v].pos
        PROVE  p <= volumes'[v].pos
    <3>1. Current.pos = 0
      BY <1>1 DEF DumperInv, Placed
    <3>2. QED
      BY <1>2, <1>5, <1>7, <1>9, <2>3, <3>1
  <2>4. Stores'
    BY <1>1, <1>7, <2>1, <2>2, <2>3 DEF DumperInv, Stores, Storing, n
  <2>5. Sorted'
    BY <1>7, <2>2 DEF DumperInv, Sorted, n
  <2>6. QED
    BY <2>4, <2>5
<1>14. Sizing'
  <2>1. ~throws => (\A v \in 1 .. n : volumes[v].sized) /\ Accounted
    BY <1>1 DEF DumperInv, Sizing, n
  <2>2. QED
    BY <1>1, <1>3, <1>7, <1>8, <2>1 DEF Sizing, Accounted, n
<1>15. QED
  BY <1>1, <1>3, <1>7, <1>10, <1>11, <1>12, <1>13, <1>14, StoreStep DEF DumperInv, Typed

\* What a record is stored as.
LEMMA StoredTyped ==
  ASSUME NEW r \in {Control} \cup Records
  PROVE  /\ Stored(r) \in [id : {Blank} \cup 0 .. MaxRecords, size : Lengths]
         /\ Stored(r).id \in {Blank, r.id}
BY RecordTyped, StoredSizes, BoundsAssumption DEF Stored, Blank

LEMMA DataStep ==
  ASSUME DumperInv, Data
  PROVE  DumperInv'
<1> DEFINE c == dumper.current
           n == Len(volumes)
           a == dumper.at
           e == Stored(dumper.record)
           x == [volumes[c] EXCEPT !.data = [volumes[c].data EXCEPT ![a] = e]]
<1>1. /\ dumper.pc = "data" /\ dumper \in DumperRecords
      /\ UNCHANGED <<throws, runs, made, recorded, missed, handled, replayed>>
      /\ dumper' = [dumper EXCEPT !.pc = "publish"]
  BY DEF Data, Goto, history, DumperInv, Typed
<1>2. /\ dumper'.pc = "publish" /\ dumper'.at = a /\ dumper'.record = dumper.record
      /\ dumper'.then = dumper.then /\ dumper'.current = c
      /\ dumper'.replaying = dumper.replaying /\ dumper' \in DumperRecords
  BY <1>1 DEF DumperRecords, Pcs
<1>3. /\ c \in 1 .. n /\ volumes[c] \in Volumes /\ volumes[c].sized
      /\ a \in 0 .. FileSize /\ n \in Nat
  BY <1>1, DumperTyped DEF DumperInv, Located, Current, Typed, DumperRecords
<1>4. /\ e \in [id : {Blank} \cup 0 .. MaxRecords, size : Lengths]
      /\ e.id \in {Blank, dumper.record.id} /\ e.id \in Int
  BY DumperTyped, StoredTyped, RecordTyped DEF Blank
<1> HIDE DEF e
<1>5. /\ x \in Volumes /\ x.sized = TRUE /\ x.pos = volumes[c].pos
      /\ \A p \in 0 .. FileSize : x.data[p] = IF p = a THEN e ELSE volumes[c].data[p]
  BY <1>3, <1>4 DEF Volumes
<1>6. volumes' = [volumes EXCEPT ![c] = x]
  BY <1>3 DEF Data, DumperInv, Typed, Volumes, e
<1> HIDE DEF x
<1>7. /\ volumes' \in Seq(Volumes) /\ Len(volumes') = n /\ (volumes' = <<>> <=> volumes = <<>>)
      /\ volumes'[c] = x /\ \A v \in 1 .. n : v # c => volumes'[v] = volumes[v]
  BY <1>3, <1>5, <1>6, VolumeStored
<1>8. \A v \in 1 .. n : volumes'[v].sized = volumes[v].sized /\ volumes'[v].pos = volumes[v].pos
  BY <1>3, <1>5, <1>7
<1>9. \A v \in 1 .. n, p \in 0 .. FileSize :
          IF v = c /\ p = a THEN Id(v, p)' = e.id ELSE Id(v, p)' = Id(v, p)
  BY <1>3, <1>5, <1>7 DEF Id
<1>10. Callbacks' = Callbacks /\ Current' = x /\ Current = volumes[c]
  BY <1>2, <1>7 DEF Callbacks, Current
\* A callback that is stored is the newest, and goes behind all others.
<1>11. e.id > 0 => /\ Callbacks /\ e.id = made /\ made \in Nat
                   /\ c = n /\ a = volumes[c].pos
  <2>1. e.id > 0 => Callbacks /\ e.id = dumper.record.id
    BY <1>4, StoredSizes DEF Callbacks, Blank
  <2>2. QED
    BY <1>1, <1>10, <2>1, DumperTyped
    DEF DumperInv, Recorded, Located, Placed, Writing, Storing
<1>12. \A v \in 1 .. n, p \in 0 .. FileSize :
           Id(v, p) > 0 => /\ p <= volumes[v].pos /\ Id(v, p) <= made
                           /\ Callbacks => Id(v, p) < made
  BY <1>1 DEF DumperInv, Stores, Storing, n
<1> HIDE DEF c, n, a
<1>13. Located'
  BY <1>1, <1>2, <1>3, <1>5, <1>7, <1>10
  DEF DumperInv, Located, Writing, Storing, Callbacks, c, n
<1>14. Recorded'
  BY <1>1, <1>2 DEF DumperInv, Recorded, Writing, Storing, Callbacks
<1>15. Placed'
  BY <1>1, <1>2, <1>5, <1>10 DEF DumperInv, Placed, Fits, a
<1>16. Stores'
  <2>1. ASSUME NEW v \in 1 .. n, NEW p \in 0 .. FileSize, Id(v, p)' > 0
        PROVE  p <= volumes[v].pos /\ Id(v, p)' <= made
    <3>1. CASE v = c /\ p = a
      BY <1>9, <1>11, <2>1, <3>1, VolumeTyped
    <3>2. CASE ~(v = c /\ p = a)
      BY <1>9, <1>12, <2>1, <3>2
    <3>3. QED
      BY <3>1, <3>2
  <2>2. dumper'.pc \notin Storing
    BY <1>2 DEF Storing
  <2>3. QED
    BY <1>1, <1>7, <1>8, <2>1, <2>2 DEF Stores
<1>17. Sorted'
  <2> SUFFICES ASSUME NEW v \in 1 .. n, NEW w \in 1 .. n,
                      NEW p \in 0 .. FileSize, NEW q \in 0 .. FileSize,
                      Before(v, p, w, q), Id(v, p)' > 0, Id(w, q)' > 0
               PROVE  Id(v, p)' < Id(w, q)'
    BY <1>7 DEF Sorted, Before
  <2>1. CASE w = c /\ q = a
    <3>1. ~(v = c /\ p = a)
      BY <1>3, <2>1 DEF Before
    <3>2. QED
      BY <1>9, <1>11, <1>12, <2>1, <3>1
  <2>2. CASE v = c /\ p = a /\ ~(w = c /\ q = a)
    <3>1. q <= volumes[w].pos /\ c = n /\ a = volumes[c].pos
      BY <1>9, <1>11, <1>12, <2>2
    <3>2. QED
      BY <1>3, <2>2, <3>1 DEF Before
  <2>3. CASE ~(w = c /\ q = a) /\ ~(v = c /\ p = a)
    BY <1>9, <2>3 DEF DumperInv, Sorted, n
  <2>4. QED
    BY <2>1, <2>2, <2>3
<1>18. Sizing'
  <2>1. ~throws => (\A v \in 1 .. n : volumes[v].sized) /\ Accounted
    BY <1>1 DEF DumperInv, Sizing, n
  <2>2. QED
    BY <1>1, <1>2, <1>7, <1>8, <2>1 DEF Sizing, Accounted
<1>19. QED
  BY <1>1, <1>2, <1>7, <1>13, <1>14, <1>15, <1>16, <1>17, <1>18, StoreStep DEF DumperInv, Typed

\* The position is moved behind the record, which is recorded by that.
LEMMA PublishStep ==
  ASSUME DumperInv, Publish
  PROVE  DumperInv'
<1> DEFINE c == dumper.current
           n == Len(volumes)
           y == dumper.at + SizeSize + StoredSize(dumper.record.size)
           x == [volumes[c] EXCEPT !.pos = y]
<1>1. /\ dumper.pc = "publish" /\ dumper \in DumperRecords
      /\ UNCHANGED <<throws, runs, made, missed, handled, replayed>>
      /\ dumper' = IF dumper.then = "none" THEN NoDumper ELSE [dumper EXCEPT !.pc = dumper.then]
      /\ recorded' = IF Callbacks THEN Append(recorded, dumper.record) ELSE recorded
  BY DEF Publish, Callbacks, DumperInv, Typed
<1>2. /\ c \in 1 .. n /\ volumes[c] \in Volumes /\ volumes[c].sized
      /\ dumper.at \in Nat /\ n \in Nat /\ Current = volumes[c]
      /\ volumes[c].pos \in Nat
  BY <1>1, DumperTyped, VolumeTyped DEF DumperInv, Located, Current
<1>3. y \in 0 .. FileSize /\ y >= dumper.at /\ y >= volumes[c].pos
  <2>1. StoredSize(dumper.record.size) \in Nat
    BY DumperTyped, RecordTyped, StoredSizes
  <2>2. y <= FileSize /\ (dumper.at = volumes[c].pos \/ volumes[c].pos = 0)
    BY <1>1, <1>2 DEF DumperInv, Placed, Fits
  <2>3. QED
    BY <1>2, <2>1, <2>2, StoredSizes DEF SizeSize
<1> HIDE DEF y
<1>4. x \in Volumes /\ x.sized = TRUE /\ x.pos = y /\ x.data = volumes[c].data
  BY <1>2, <1>3 DEF Volumes
<1>5. volumes' = [volumes EXCEPT ![c] = x]
  BY <1>2 DEF Publish, DumperInv, Typed, Volumes, y
<1> HIDE DEF x
<1>6. /\ volumes' \in Seq(Volumes) /\ Len(volumes') = n /\ (volumes' = <<>> <=> volumes = <<>>)
      /\ volumes'[c] = x /\ \A v \in 1 .. n : v # c => volumes'[v] = volumes[v]
  BY <1>2, <1>4, <1>5, VolumeStored
<1>7. \A v \in 1 .. n : volumes'[v].sized = volumes[v].sized /\ volumes'[v].data = volumes[v].data
  BY <1>2, <1>4, <1>6
<1>8. /\ recorded' \in Seq(Records)
      /\ Ids(recorded) \subseteq Ids(recorded')
      /\ Callbacks => dumper.record.id \in Ids(recorded')
  <2>1. CASE Callbacks
    <3>1. dumper.record \in Records /\ recorded \in Seq(Records)
      BY <2>1, DumperTyped DEF Callbacks, DumperInv, Typed
    <3>2. /\ recorded' \in Seq(Records) /\ Len(recorded) \in Nat
          /\ Len(recorded') = Len(recorded) + 1 /\ recorded'[Len(recorded) + 1] = dumper.record
          /\ \A i \in 1 .. Len(recorded) : recorded'[i] = recorded[i]
          /\ DOMAIN recorded = 1 .. Len(recorded) /\ DOMAIN recorded' = 1 .. Len(recorded')
      BY <1>1, <2>1, <3>1
    <3>3. \A i \in 1 .. Len(recorded) : i \in 1 .. Len(recorded')
      BY <3>2
    <3>4. Ids(recorded) \subseteq Ids(recorded')
      BY <3>2, <3>3 DEF Ids
    <3>5. Len(recorded) + 1 \in DOMAIN recorded'
      BY <3>2
    <3>6. dumper.record.id \in Ids(recorded')
      BY <3>2, <3>5 DEF Ids
    <3>7. QED
      BY <3>2, <3>4, <3>6
  <2>2. CASE ~Callbacks
    BY <1>1, <2>2 DEF DumperInv, Typed
  <2>3. QED
    BY <2>1, <2>2
<1>9. /\ dumper'.pc = dumper.then
      /\ dumper' \in DumperRecords
      /\ dumper.then = "none" => dumper' = NoDumper
      /\ dumper.then # "none" => /\ dumper'.record = dumper.record /\ dumper'.then = dumper.then
                                 /\ dumper'.current = c /\ dumper'.open = dumper.open
                                 /\ dumper'.replaying = dumper.replaying
  <2>1. CASE dumper.then = "none"
    BY <1>1, <2>1, NoDumperTyped DEF NoDumper
  <2>2. CASE dumper.then # "none"
    BY <1>1, <2>2 DEF DumperRecords, Pcs
  <2>3. QED
    BY <2>1, <2>2
<1>10. /\ NoDumper.pc = "none" /\ NoDumper.current = 1 /\ NoDumper.record = Control
       /\ NoDumper.then = "idle" /\ NoDumper.replaying = FALSE /\ NoDumper.open = FALSE
  BY DEF NoDumper
<1>11. dumper.then \in {"idle", "handle", "none"} /\ (dumper.then = "handle" <=> Callbacks)
  BY <1>1 DEF DumperInv, Recorded, DumperRecords
<1>12. Current' = x \/ dumper.then = "none"
  BY <1>6, <1>9 DEF Current
<1> HIDE DEF c, n
<1>13. Located'
  <2>1. CASE dumper.then = "none"
    BY <1>2, <1>6, <1>9, <1>10, <2>1 DEF Located, Writing, Storing, n
  <2>2. CASE dumper.then # "none"
    BY <1>1, <1>2, <1>4, <1>6, <1>9, <1>11, <1>12, <2>2
    DEF DumperInv, Located, Writing, Storing, Callbacks, c, n
  <2>3. QED
    BY <2>1, <2>2
<1>14. Recorded' /\ Placed'
  <2>1. /\ (dumper'.then = "handle" <=> Callbacks')
        /\ dumper'.pc = "handle" => dumper'.then = "handle" /\ dumper'.record.id \in Ids(recorded')
        /\ dumper'.pc \in {"idle", "handle", "none"}
        /\ dumper'.record.id \in {0} \cup Ids(recorded') \cup missed
    BY <1>1, <1>8, <1>9, <1>10, <1>11, StoredSizes DEF Callbacks
  <2>2. handled' \in {0} \cup Ids(recorded')
    BY <1>1, <1>8 DEF DumperInv, Recorded
  <2>3. QED
    BY <1>1, <2>1, <2>2 DEF Recorded, Placed, Writing, Storing
<1>15. Stores' /\ Sorted'
  <2>1. \A v \in 1 .. n, p \in 0 .. FileSize : Id(v, p)' = Id(v, p)
    BY <1>7 DEF Id
  <2>2. ASSUME NEW v \in 1 .. n, NEW p \in 0 .. FileSize, p <= volumes[v].pos
        PROVE  p <= volumes'[v].pos
    BY <1>2, <1>3, <1>4, <1>6, <2>2
  <2>3. dumper'.pc \notin Storing
    BY <1>9, <1>11 DEF Storing
  <2>4. Stores'
    BY <1>1, <1>6, <2>1, <2>2, <2>3 DEF DumperInv, Stores, n
  <2>5. Sorted'
    BY <1>6, <2>1 DEF DumperInv, Sorted, n
  <2>6. QED
    BY <2>4, <2>5
<1>16. Sizing'
  <2>1. ~throws => (\A v \in 1 .. n : volumes[v].sized) /\ Accounted /\ ~dumper.replaying
    BY <1>1 DEF DumperInv, Sizing, Located, Writing, Storing, n
  <2>2. ~throws => \A v \in 1 .. n : volumes'[v].sized
    BY <1>7, <2>1
  <2>3. ~throws => Accounted'
    <3>1. ~throws => 1 .. made \subseteq Ids(recorded) \cup missed \cup {dumper.record.id}
      BY <2>1 DEF Accounted
    <3>2. 0 \notin 1 .. made
      BY DumperTyped
    <3>3. dumper.record.id \in Ids(recorded') \cup {0}
      BY <1>8, StoredSizes DEF Callbacks
    <3>4. QED
      BY <1>1, <1>8, <3>1, <3>2, <3>3 DEF Accounted
  <2>4. dumper'.pc = "idle" => dumper'.replaying = dumper.replaying
    BY <1>9, <1>11
  <2>5. QED
    BY <1>1, <1>6, <2>1, <2>2, <2>3, <2>4 DEF Sizing
<1>17. dumper'.pc # "read"
  BY <1>9, <1>11
<1>18. QED
  BY <1>1, <1>6, <1>8, <1>9, <1>13, <1>14, <1>15, <1>16, <1>17, StoreStep DEF DumperInv, Typed

-----------------------------------------------------------------------------
\* A replay begins.
LEMMA ReplayStep ==
  ASSUME DumperInv, Replay
  PROVE  DumperInv'
<1>1. /\ dumper.pc = "idle" /\ dumper \in DumperRecords
      /\ UNCHANGED <<volumes, throws, runs, made, recorded, missed, handled>>
      /\ replayed' = <<>>
      /\ dumper' = [dumper EXCEPT !.replaying = TRUE, !.current = 1, !.at = HeaderSize,
                                  !.open = volumes[1].sized,
                                  !.pc = IF volumes[1].sized THEN "read" ELSE "idle"]
  BY DEF Replay, history, DumperInv, Typed
<1>2. HeaderSize \in 0 .. FileSize /\ 1 \in Nat \ {0}
  BY StoredSizes DEF Lengths, HeaderSize, SizeSize
<1>3. 1 \in 1 .. Len(volumes) /\ 1 <= Len(volumes) /\ volumes[1].sized \in BOOLEAN
  <2>1. Len(volumes) \in Nat \ {0}
    BY <1>1, DumperTyped DEF DumperInv, Located
  <2>2. 1 \in 1 .. Len(volumes) /\ 1 <= Len(volumes)
    BY <2>1
  <2>3. QED
    BY <2>2, DumperTyped, VolumeTyped
<1>4. /\ dumper'.replaying = TRUE /\ dumper'.current = 1 /\ dumper'.open = volumes[1].sized
      /\ dumper'.pc = (IF volumes[1].sized THEN "read" ELSE "idle")
      /\ dumper'.record = dumper.record /\ dumper'.then = dumper.then
      /\ dumper' \in DumperRecords
  BY <1>1, <1>2, <1>3 DEF DumperRecords, Pcs
<1>5. Typed'
  BY <1>1, <1>4, EmptySeq DEF DumperInv, Typed
<1>6. Located'
  BY <1>1, <1>3, <1>4, DumperTyped DEF DumperInv, Located, Writing, Storing, Current
<1>7. Recorded' /\ Placed'
  BY <1>1, <1>4 DEF DumperInv, Recorded, Placed, Writing, Storing, Callbacks
<1>8. dumper'.pc \notin Storing
  BY <1>4 DEF Storing
<1>9. Stores' /\ Sorted'
  BY <1>1, <1>8, VolumesKept
<1>10. Reading' /\ ReplayInOrder'
  <2>1. Len(replayed') = 0 /\ DOMAIN replayed' = {}
    BY <1>1, EmptySeq
  <2>2. QED
    BY <2>1 DEF Reading, ReplayInOrder
<1>11. Sizing'
  <2>1. ~throws => \A v \in 1 .. Len(volumes) : ~volumes[v].sized => v = Len(volumes)
    BY DEF DumperInv, Sizing
  <2>2. ~throws /\ (\A v \in 1 .. Len(volumes) : volumes[v].sized) => Accounted'
    BY <1>1, <1>4 DEF DumperInv, Sizing, Accounted
  <2>3. QED
    BY <1>1, <1>3, <1>4, <2>1, <2>2 DEF Sizing
<1>12. QED
  BY <1>5, <1>6, <1>7, <1>9, <1>10, <1>11 DEF DumperInv

\* The place of the next record: the one the last ended at, or the head of a
\* later volume.
LEMMA NextPlace ==
  ASSUME DumperInv, dumper.pc = "read"
  PROVE  LET i == BodyPlace[1]
             p == BodyPlace[2]
         IN  /\ i \in Nat /\ i >= dumper.current /\ p \in 0 .. FileSize
             /\ dumper.current \in 1 .. Len(volumes) /\ Current.sized
             /\ i = dumper.current => p = dumper.at
             /\ i \in 1 .. Len(volumes) =>
                   p + SizeSize + volumes[i].data[p].size \in 0 .. FileSize
             /\ i > Len(volumes) => volumes[Len(volumes)].sized /\ i = Len(volumes) + 1
<1> DEFINE c == dumper.current
           n == Len(volumes)
           Found(i, p) ==
             /\ i \in Nat /\ i >= c /\ p \in 0 .. FileSize
             /\ i = c => p = dumper.at
             /\ i \in 1 .. n => p + SizeSize + volumes[i].data[p].size \in 0 .. FileSize
             /\ i > n => volumes[n].sized /\ i = n + 1
<1>1. /\ c \in 1 .. n /\ n \in Nat /\ volumes[c].sized /\ dumper.at \in 0 .. FileSize
      /\ c \in Nat
  BY DumperTyped DEF DumperInv, Located, Current, Typed, DumperRecords
<1>2. HeaderSize \in 0 .. FileSize /\ SizeSize \in Nat /\ FileSize \in Nat
  BY StoredSizes DEF Lengths, HeaderSize, SizeSize
<1>3. \A v \in 1 .. n, p \in 0 .. FileSize :
          /\ volumes[v].data[p].size \in Nat /\ volumes[v].pos \in Nat /\ volumes[v].pos <= FileSize
          /\ HeaderSize + SizeSize + volumes[v].data[p].size \in 0 .. FileSize
  <2> SUFFICES ASSUME NEW v \in 1 .. n, NEW p \in 0 .. FileSize
               PROVE  /\ volumes[v].data[p].size \in Nat /\ volumes[v].pos \in Nat
                      /\ volumes[v].pos <= FileSize
                      /\ HeaderSize + SizeSize + volumes[v].data[p].size \in 0 .. FileSize
    OBVIOUS
  <2>1. volumes[v].data[p].size \in Lengths /\ volumes[v].pos \in Nat /\ volumes[v].pos <= FileSize
    BY DumperTyped, VolumeTyped
  <2>2. QED
    BY SMTT(30), <2>1, StoredSizes DEF HeaderSize, SizeSize
<1>4. DOMAIN volumes = 1 .. n
  BY LenProperties DEF DumperInv, Typed
<1>5. Current.sized
  BY <1>1 DEF Current
<1>6. ASSUME NEW v \in Nat, v > c, v > n => volumes[n].sized /\ v = n + 1
      PROVE  Found(v, HeaderSize)
  <2>1. v \in 1 .. n => HeaderSize + SizeSize + volumes[v].data[HeaderSize].size \in 0 .. FileSize
    BY <1>2, <1>3
  <2> HIDE DEF c, n
  <2>2. v >= c /\ v # c
    BY <1>1, <1>6
  <2>3. QED
    BY <1>2, <1>6, <2>1, <2>2
<1> SUFFICES Found(BodyPlace[1], BodyPlace[2])
  BY <1>1, <1>5
<1> HIDE DEF c, n, Found
<1>7. CASE NoHeader(c, dumper.at)
  <2>1. HeaderPlace = <<c + 1, HeaderSize>>
    BY <1>7 DEF HeaderPlace, c
  <2>2. CASE c + 1 \in DOMAIN volumes /\ volumes[c + 1].sized /\ NoBody(c + 1, HeaderSize)
    <3>1. BodyPlace = <<c + 2, HeaderSize>>
      BY <1>1, <2>1, <2>2 DEF BodyPlace
    <3>2. c + 2 \in Nat /\ c + 2 > c /\ (c + 2 > n => c + 2 = n + 1 /\ c + 1 = n)
      BY <1>1, <1>4, <2>2
    <3>3. QED
      BY <1>6, <2>2, <3>1, <3>2
  <2>3. CASE ~(c + 1 \in DOMAIN volumes /\ volumes[c + 1].sized /\ NoBody(c + 1, HeaderSize))
    <3>1. BodyPlace = <<c + 1, HeaderSize>>
      BY <2>1, <2>3 DEF BodyPlace
    <3>2. c + 1 \in Nat /\ c + 1 > c /\ (c + 1 > n => c = n)
      BY <1>1
    <3>3. QED
      BY <1>1, <1>6, <3>1, <3>2
  <2>4. QED
    BY <2>2, <2>3
<1>8. CASE ~NoHeader(c, dumper.at)
  <2>1. HeaderPlace = <<c, dumper.at>>
    BY <1>8 DEF HeaderPlace, c
  <2>2. CASE NoBody(c, dumper.at)
    <3>1. BodyPlace = <<c + 1, HeaderSize>>
      BY <1>1, <1>4, <2>1, <2>2 DEF BodyPlace
    <3>2. c + 1 \in Nat /\ c + 1 > c /\ (c + 1 > n => c = n)
      BY <1>1
    <3>3. QED
      BY <1>1, <1>6, <3>1, <3>2
  <2>3. CASE ~NoBody(c, dumper.at)
    <3>1. BodyPlace = <<c, dumper.at>>
      BY <2>1, <2>3 DEF BodyPlace
    <3>2. dumper.at + SizeSize + volumes[c].data[dumper.at].size \in 0 .. FileSize
      BY <1>1, <1>2, <1>3, <2>3 DEF NoBody, SizeAt
    <3>3. ~(c > n) /\ c >= c
      BY <1>1
    <3>4. QED
      BY <1>1, <3>1, <3>2, <3>3 DEF Found
  <2>4. QED
    BY <2>2, <2>3
<1>9. QED
  BY <1>7, <1>8

LEMMA ReadRecordStep ==
  ASSUME DumperInv, ReadRecord
  PROVE  DumperInv'
<1> DEFINE i == BodyPlace[1]
           p == BodyPlace[2]
           c == dumper.current
           n == Len(volumes)
           r == volumes[i].data[p]
           y == p + SizeSize + r.size
<1>1. /\ dumper.pc = "read" /\ dumper \in DumperRecords /\ volumes[i].sized
      /\ i \in DOMAIN volumes
      /\ UNCHANGED <<volumes, throws, runs, made, recorded, missed, handled>>
      /\ replayed' = IF r.id = 0 THEN replayed ELSE Append(replayed, r.id)
      /\ \/ dumper' = [dumper EXCEPT !.current = i, !.at = y]
         \/ throws /\ dumper' = [dumper EXCEPT !.current = i, !.pc = "idle"]
  BY DEF ReadRecord, history, DumperInv, Typed
<1>2. i \in 1 .. n /\ n \in Nat /\ i \in Nat
  BY <1>1, LenProperties DEF DumperInv, Typed
<1>3. /\ i >= c /\ p \in 0 .. FileSize /\ c \in 1 .. n /\ y \in 0 .. FileSize
      /\ i = c => p = dumper.at
  BY <1>1, <1>2, NextPlace
<1>4. /\ r.id \in {Blank} \cup 0 .. MaxRecords /\ r.id = Id(i, p) /\ y \in Nat /\ y > p
      /\ r.id \in Int
  <2>1. r.id \in {Blank} \cup 0 .. MaxRecords /\ r.size \in Nat /\ r.id \in Int
    BY <1>2, <1>3, DumperTyped, VolumeTyped, StoredSizes
  <2>2. r.id = Id(i, p)
    BY DEF Id
  <2>3. \A a, b \in Nat : a + SizeSize + b \in Nat /\ a + SizeSize + b > a
    BY DEF SizeSize
  <2>4. p \in Nat
    BY <1>3, SizesAssumption
  <2>5. y \in Nat /\ y > p
    BY <2>1, <2>3, <2>4
  <2>6. QED
    BY <2>1, <2>2, <2>5
<1> HIDE DEF i, p, c, n, r, y
<1>5. /\ dumper'.current = i /\ dumper'.record = dumper.record /\ dumper'.then = dumper.then
      /\ dumper'.open = dumper.open /\ dumper'.replaying = dumper.replaying
      /\ \/ dumper'.pc = "read" /\ dumper'.at = y
         \/ dumper'.pc = "idle" /\ throws
  BY <1>1 DEF DumperRecords
<1>6. dumper' \in DumperRecords
  <2>1. i \in Nat \ {0}
    BY <1>2
  <2>2. QED
    BY ZenonT(60), <1>1, <1>3, <2>1 DEF DumperRecords, Pcs
<1>7. /\ replayed' \in Seq(ReplayedIds) /\ Len(replayed) \in Nat
      /\ DOMAIN replayed' = 1 .. Len(replayed') /\ DOMAIN replayed = 1 .. Len(replayed)
      /\ \A k \in 1 .. Len(replayed') :
            \/ k \in 1 .. Len(replayed) /\ replayed'[k] = replayed[k]
            \/ k = Len(replayed) + 1 /\ replayed'[k] = r.id
  <2>1. replayed \in Seq(ReplayedIds) /\ Len(replayed) \in Nat
    BY LenProperties DEF DumperInv, Typed
  <2>2. CASE r.id = 0
    BY <1>1, <2>1, <2>2, LenProperties
  <2>3. CASE r.id # 0
    <3>1. r.id \in ReplayedIds
      BY <1>4, <2>3, BoundsAssumption DEF ReplayedIds
    <3>2. /\ replayed' \in Seq(ReplayedIds) /\ Len(replayed') = Len(replayed) + 1
          /\ replayed'[Len(replayed) + 1] = r.id
          /\ \A k \in 1 .. Len(replayed) : replayed'[k] = replayed[k]
      BY <1>1, <2>1, <2>3, <3>1
    <3>3. \A k \in 1 .. Len(replayed) + 1 : k = Len(replayed) + 1 \/ k \in 1 .. Len(replayed)
      BY <2>1
    <3>4. QED
      BY <2>1, <3>2, <3>3, LenProperties
  <2>4. QED
    BY <2>2, <2>3
<1>8. Typed'
  BY <1>1, <1>6, <1>7 DEF DumperInv, Typed
<1>9. Located'
  <2>1. dumper'.replaying /\ (dumper'.pc = "idle" => throws)
    BY <1>1, <1>5 DEF DumperInv, Located
  <2>2. i <= n /\ i <= n + 1 /\ volumes # <<>>
    BY <1>2, DumperTyped DEF n
  <2>3. QED
    BY <1>1, <1>5, <2>1, <2>2 DEF Located, Writing, Storing, Current, n
<1>10. Recorded' /\ Placed'
  BY <1>1, <1>5 DEF DumperInv, Recorded, Placed, Writing, Storing, Callbacks
<1>11. dumper'.pc \notin Storing
  BY <1>5 DEF Storing
<1>12. Stores' /\ Sorted'
  BY <1>1, <1>11, VolumesKept
\* The record read is behind all that was read, and before what is left.
<1>13. ~Before(i, p, c, dumper.at)
  BY <1>2, <1>3, DumperTyped DEF Before, c
<1>14. \A k \in 1 .. Len(replayed), v \in 1 .. n, q \in 0 .. FileSize :
           replayed[k] > 0 /\ Id(v, q) > 0 /\ ~Before(v, q, c, dumper.at) =>
               replayed[k] < Id(v, q)
  BY <1>1 DEF DumperInv, Reading, c, n
<1>15. Reading'
  <2> SUFFICES ASSUME NEW k \in 1 .. Len(replayed'), NEW v \in 1 .. n, NEW q \in 0 .. FileSize,
                      dumper'.pc = "read", replayed'[k] > 0, Id(v, q) > 0, ~Before(v, q, i, y)
               PROVE  replayed'[k] < Id(v, q)
    BY <1>1, <1>5 DEF Reading, Id, n
  <2>1. Before(i, p, v, q)
    BY <1>2, <1>3, <1>4 DEF Before
  <2>2. ~Before(v, q, c, dumper.at)
    BY <1>2, <1>3, <1>13, <2>1, DumperTyped DEF Before, c
  <2>3. r.id > 0 => r.id < Id(v, q)
    BY <1>2, <1>3, <1>4, <2>1 DEF DumperInv, Sorted, n
  <2>4. QED
    BY <1>7, <1>14, <2>2, <2>3
<1>16. ReplayInOrder'
  <2> SUFFICES ASSUME NEW j \in 1 .. Len(replayed'), NEW k \in 1 .. Len(replayed'),
                      j < k, replayed'[j] > 0, replayed'[k] > 0
               PROVE  replayed'[j] < replayed'[k]
    BY <1>7 DEF ReplayInOrder
  <2>1. CASE k \in 1 .. Len(replayed) /\ replayed'[k] = replayed[k]
    <3>1. j \in 1 .. Len(replayed) /\ replayed'[j] = replayed[j]
      BY <1>7, <2>1
    <3>2. QED
      BY <1>7, <2>1, <3>1 DEF DumperInv, ReplayInOrder
  <2>2. CASE k = Len(replayed) + 1 /\ replayed'[k] = r.id
    <3>1. j \in 1 .. Len(replayed) /\ replayed'[j] = replayed[j]
      BY <1>7, <2>2
    <3>2. QED
      BY <1>2, <1>3, <1>4, <1>13, <1>14, <2>2, <3>1
  <2>3. QED
    BY <1>7, <2>1, <2>2
<1>17. Sizing'
  <2>1. ~throws => \A v \in 1 .. Len(volumes) : ~volumes[v].sized => v = Len(volumes)
    BY DEF DumperInv, Sizing
  <2>2. ~throws /\ (\A v \in 1 .. Len(volumes) : volumes[v].sized) => Accounted'
    BY <1>1, <1>5 DEF DumperInv, Sizing, Accounted
  <2>3. QED
    BY <1>1, <1>5, <2>1, <2>2 DEF Sizing
<1>18. QED
  BY <1>8, <1>9, <1>10, <1>12, <1>15, <1>16, <1>17 DEF DumperInv

\* The replay ends, with the last volume or with one that has no size.
LEMMA ReadEndStep ==
  ASSUME DumperInv, ReadEnd \/ ReadFails
  PROVE  DumperInv'
<1> DEFINE i == BodyPlace[1]
           n == Len(volumes)
<1>1. /\ dumper.pc = "read" /\ dumper \in DumperRecords
      /\ UNCHANGED <<volumes, throws, runs, made, recorded, missed, handled, replayed>>
      /\ runs \in 0 .. MaxRuns /\ missed \subseteq 1 .. MaxRecords /\ handled \in 0 .. MaxRecords
  BY DEF ReadEnd, ReadFails, history, DumperInv, Typed
<1>2. n \in Nat /\ n >= 1 /\ volumes # <<>> /\ DOMAIN volumes = 1 .. n
  <2>1. n \in Nat \ {0} /\ volumes # <<>>
    BY <1>1, DumperTyped DEF DumperInv, Located
  <2>2. QED
    BY <2>1, LenProperties DEF DumperInv, Typed
<1>3. ~throws => \A v \in 1 .. n : ~volumes[v].sized => v = n
  BY DEF DumperInv, Sizing
<1>4. ~throws /\ (\A v \in 1 .. n : volumes[v].sized) => Accounted
  BY DEF DumperInv, Sizing
<1>5. CASE ReadEnd
  <2>1. dumper' = [dumper EXCEPT !.pc = "idle", !.replaying = FALSE, !.current = n]
    BY <1>5 DEF ReadEnd, LastId
  <2>2. /\ dumper'.pc = "idle" /\ dumper'.replaying = FALSE /\ dumper'.current = n
        /\ dumper'.open = dumper.open /\ dumper'.record = dumper.record
        /\ dumper'.then = dumper.then
    BY <1>1, <2>1 DEF DumperRecords
  <2>3. dumper' \in DumperRecords
    <3>1. n \in Nat \ {0}
      BY <1>2
    <3>2. QED
      BY <1>1, <2>1, <3>1 DEF DumperRecords, Pcs
  <2>4. volumes[n].sized
    BY <1>1, <1>5, NextPlace DEF ReadEnd, LastId
  <2>5. Located'
    BY <1>1, <1>2, <2>2, <2>4 DEF Located, Writing, Storing, Current
  <2>6. Recorded' /\ Placed'
    BY <1>1, <2>2 DEF DumperInv, Recorded, Placed, Writing, Storing, Callbacks
  <2>7. Sizing'
    BY <1>1, <1>3, <1>4, <2>2, <2>4 DEF Sizing, Accounted
  <2>8. QED
    BY <1>1, <2>2, <2>3, <2>5, <2>6, <2>7, DumperTyped, QuietStep DEF Storing
<1>6. CASE ReadFails
  <2>1. /\ dumper' = [dumper EXCEPT !.pc = "idle", !.open = FALSE, !.current = i]
        /\ i \in 1 .. n /\ ~volumes[i].sized
    BY <1>2, <1>6 DEF ReadFails
  <2>2. /\ dumper'.pc = "idle" /\ dumper'.open = FALSE /\ dumper'.current = i
        /\ dumper'.replaying = dumper.replaying /\ dumper'.record = dumper.record
        /\ dumper'.then = dumper.then
    BY <1>1, <2>1 DEF DumperRecords
  <2>3. dumper' \in DumperRecords
    <3>1. i \in Nat \ {0}
      BY <1>2, <2>1
    <3>2. QED
      BY <1>1, <2>1, <3>1 DEF DumperRecords, Pcs
  <2>4. Located'
    <3>1. i <= n + 1
      BY <1>2, <2>1
    <3>2. QED
      BY <1>1, <1>2, <2>2, <3>1 DEF Located, Writing, Storing
  <2>5. Recorded' /\ Placed'
    BY <1>1, <2>2 DEF DumperInv, Recorded, Placed, Writing, Storing, Callbacks
  <2>6. Sizing'
    BY <1>1, <1>3, <1>4, <2>1, <2>2 DEF Sizing, Accounted
  <2>7. QED
    BY <1>1, <2>2, <2>3, <2>4, <2>5, <2>6, DumperTyped, QuietStep DEF Storing
<1>7. QED
  BY <1>5, <1>6

-----------------------------------------------------------------------------
LEMMA DumperInvInit == Init => DumperInv
<1> SUFFICES ASSUME Init PROVE DumperInv
  OBVIOUS
<1>1. /\ Len(volumes) = 0 /\ DOMAIN replayed = {} /\ volumes \in Seq(Volumes)
      /\ recorded \in Seq(Records) /\ replayed \in Seq(ReplayedIds)
  BY EmptySeq DEF Init
<1>2. 0 \in 0 .. MaxRuns /\ 0 \in 0 .. MaxRecords /\ 1 .. 0 = {}
  BY BoundsAssumption
<1>3. Typed
  BY <1>1, <1>2, NoDumperTyped DEF Init, Typed
<1>4. Located /\ Placed /\ Reading
  BY <1>1 DEF Init, NoDumper, Located, Placed, Reading, Writing, Storing
<1>5. Recorded
  BY DEF Init, NoDumper, Recorded, Writing, Storing, Callbacks
<1>6. Stores /\ Sorted /\ ReplayInOrder
  BY <1>1 DEF Stores, Sorted, ReplayInOrder
<1>7. Sizing
  BY <1>1, <1>2 DEF Init, NoDumper, Sizing, Accounted
<1>8. QED
  BY <1>3, <1>4, <1>5, <1>6, <1>7 DEF DumperInv

LEMMA DumperInvStep == DumperInv /\ [Next]_vars => DumperInv'
<1> SUFFICES ASSUME DumperInv, [Next]_vars PROVE DumperInv'
  OBVIOUS
<1>1. CASE Next
  BY <1>1, ConstructStep, EndStep, CallbackStep, DestroyStep, WriteStep, CreateStep,
     CreateFailsStep, ResizeStep, HeaderStep, DataStep, PublishStep, HandleStep, ReplayStep,
     ReadRecordStep, ReadEndStep
  DEF Next
<1>2. CASE UNCHANGED vars
  BY <1>2
  DEF vars, history, DumperInv, Typed, Located, Recorded, Placed, Stores, Sorted, Reading,
      ReplayInOrder, Sizing, Accounted, Id, Callbacks, Current
<1>3. QED
  BY <1>1, <1>2

LEMMA DumperInvAlways == Spec => []DumperInv
BY DumperInvInit, DumperInvStep, PTL DEF Spec

\* Whenever the process dies, what the handler was told is in the volumes, and
\* no position or record goes beyond a volume's size: write_next comes before
\* the handler, and goes on to a new volume in time (dumper.cpp, write_next
\* and the callbacks).
THEOREM WhatIsHandledIsRecorded == Spec => []HandledIsRecorded
<1>1. DumperInv => HandledIsRecorded
  <2> SUFFICES ASSUME DumperInv PROVE HandledIsRecorded
    OBVIOUS
  <2>1. /\ DOMAIN volumes = 1 .. Len(volumes) /\ \A v \in DOMAIN volumes : volumes[v] \in Volumes
        /\ \A k \in DOMAIN recorded : recorded[k] \in Records
        /\ \A k \in DOMAIN replayed : replayed[k] \in ReplayedIds
    BY LenProperties, ElementOfSeq DEF DumperInv, Typed
  <2>2. dumper.current \in 1 .. Len(volumes) + 1
    BY DumperTyped DEF DumperInv, Located
  <2>3. TypeOK
    BY SMTT(30), <2>1, <2>2 DEF DumperInv, Typed, TypeOK, DumperRecords, Pcs, Records, ReplayedIds
  <2>4. QED
    BY <2>3 DEF HandledIsRecorded, DumperInv, Recorded
<1>2. QED
  BY <1>1, DumperInvAlways, PTL

\* A replay hands callbacks over in the order they came in, none twice, also
\* over volumes that an aborted replay has led a destructor to write into or
\* to truncate (dumper.cpp, read_next and replay_recorded_stream).
THEOREM ReplaysAreInOrder == Spec => []ReplayInOrder
<1>1. DumperInv => ReplayInOrder
  BY DEF DumperInv
<1>2. QED
  BY <1>1, DumperInvAlways, PTL

\* With a handler that does not throw, a callback is recorded, or is in
\* progress, or was when the process died or a file failed, as long as every
\* volume has its size.
THEOREM NoCallbackIsDropped == Spec => []NothingDropped
<1>1. DumperInv => NothingDropped
  <2> SUFFICES ASSUME DumperInv, ~throws, \A v \in DOMAIN volumes : volumes[v].sized
               PROVE  Accounted
    BY DEF NothingDropped, Accounted
  <2>1. DOMAIN volumes = 1 .. Len(volumes)
    BY LenProperties DEF DumperInv, Typed
  <2>2. QED
    BY <2>1 DEF DumperInv, Sizing
<1>2. QED
  BY <1>1, DumperInvAlways, PTL

-----------------------------------------------------------------------------
\* Where a record is, what is next to it, and how many callbacks there are up
\* to it and with it.
Links == [v : Nat \ {0}, p : 0 .. FileSize, end : Nat, n : Nat]

\* Before the first record: the end of the header of the first volume.
FirstLink == [v |-> 1, p |-> 0, end |-> HeaderSize, n |-> 0]

\* A record lies before the position of its volume.
Lies(y) ==
    /\ y.v \in 1 .. Len(volumes) /\ volumes[y.v].sized
    /\ y.p >= HeaderSize /\ y.end = y.p + SizeSize + SizeAt(y.v, y.p)
    /\ y.end <= volumes[y.v].pos

\* A record stands where the last one ends, or at the head of the volume after
\* one that ends with it.
Joins(x, y) ==
    \/ y.v = x.v /\ y.p = x.end
    \/ y.v = x.v + 1 /\ y.p = HeaderSize /\ volumes[x.v].pos = x.end

\* A record is a control record, or the next callback.
Counts(x, y) ==
    IF Id(y.v, y.p) = 0 THEN y.n = x.n
    ELSE y.n = x.n + 1 /\ y.n <= Len(recorded) /\ Id(y.v, y.p) = Stored(recorded[y.n]).id

Follows(x, y) == Lies(y) /\ Joins(x, y) /\ Counts(x, y)

\* The last record ends at the position of the last volume, or of the last but
\* one and the last has no record; a volume is added to one that has.
LastLink(x) ==
    /\ x.n = Len(recorded)
    /\ volumes # <<>> =>
          \/ x.v = Len(volumes) /\ volumes[x.v].pos = x.end
          \/ /\ dumper.pc # "create"
             /\ \/ x.v = Len(volumes) /\ volumes[x.v].pos = 0 /\ x.end = HeaderSize
                \/ /\ x.v + 1 = Len(volumes) /\ volumes[x.v].pos = x.end
                   /\ volumes[x.v + 1].pos \in {0, HeaderSize}

\* A replay is behind some record, and has handed over the callbacks up to it.
ReadUpTo(x) ==
    /\ dumper.current = x.v /\ dumper.at = x.end
    /\ Len(replayed) = x.n
    /\ \A i \in 1 .. x.n : i <= Len(recorded) /\ replayed[i] = Stored(recorded[i]).id

\* The first m links of a chain are the records, in the order of their volumes.
Chained(chain, m) ==
    /\ chain[0] = FirstLink
    /\ \A k \in 1 .. m : Follows(chain[k - 1], chain[k])
    /\ LastLink(chain[m])
    /\ dumper.pc = "read" => \E k \in 0 .. m : ReadUpTo(chain[k])

\* The position of a volume is 0 until a Dumper writes in it.
Begun ==
    /\ \A v \in 1 .. Len(volumes) : volumes[v].pos = 0 \/ volumes[v].pos >= HeaderSize
    /\ volumes # <<>> /\ volumes[Len(volumes)].sized /\ dumper.pc \notin {"none", "header"} =>
          volumes[Len(volumes)].pos >= HeaderSize
    /\ dumper.pc = "publish" => Current.data[dumper.at] = Stored(dumper.record)

HasChain == \E m \in Nat, chain \in [Nat -> Links] : Chained(chain, m)

ChainInv == ~throws => Begun /\ HasChain

\* Steps that keep what is stored up to the positions.
Grows ==
    /\ Len(volumes) <= Len(volumes')
    /\ \A v \in 1 .. Len(volumes) :
          /\ volumes[v].sized => volumes'[v].sized
          /\ volumes[v].pos <= volumes'[v].pos
          /\ v < Len(volumes) => volumes'[v].pos = volumes[v].pos
          /\ \A p \in 0 .. FileSize :
                p < volumes[v].pos => volumes'[v].data[p] = volumes[v].data[p]
    /\ Len(recorded) <= Len(recorded')
    /\ \A i \in 1 .. Len(recorded) : recorded'[i] = recorded[i]

-----------------------------------------------------------------------------
\* What is recorded stays so.
LEMMA LinkTyped ==
  ASSUME NEW x \in Links
  PROVE  x.v \in Nat /\ x.v >= 1 /\ x.p \in 0 .. FileSize /\ x.p \in Nat /\ x.end \in Nat /\ x.n \in Nat
<1>1. FileSize \in Nat
  BY SizesAssumption
<1>2. QED
  BY <1>1 DEF Links

LEMMA LinkKept ==
  ASSUME DumperInv, DumperInv', Grows, NEW x \in Links, NEW y \in Links, Follows(x, y)
  PROVE  Follows(x, y)'
<1> DEFINE n == Len(volumes)
           s == SizeAt(y.v, y.p)
<1>1. /\ n \in Nat /\ Len(volumes') \in Nat /\ n <= Len(volumes')
      /\ \A v \in 1 .. n : volumes[v] \in Volumes
      /\ \A v \in 1 .. Len(volumes') : volumes'[v] \in Volumes
  BY DumperTyped, LenProperties, ElementOfSeq DEF Grows, DumperInv, Typed
<1>2. /\ x.v \in Nat /\ x.v >= 1 /\ y.v \in Nat /\ y.v >= 1 /\ y.p \in 0 .. FileSize /\ y.p \in Nat
      /\ y.end \in Nat
  BY LinkTyped
<1>3. y.v \in 1 .. n /\ volumes[y.v].sized /\ y.p >= HeaderSize /\ y.end = y.p + SizeSize + s
      /\ y.end <= volumes[y.v].pos
  BY DEF Follows, Lies
<1>4. volumes[y.v].pos \in Nat /\ volumes'[y.v].pos \in Nat /\ s \in Nat /\ y.v \in 1 .. Len(volumes')
  <2>1. y.v \in 1 .. Len(volumes')
    BY <1>1, <1>3
  <2>2. s \in Lengths
    BY <1>1, <1>2, <1>3, VolumeTyped DEF SizeAt
  <2>3. QED
    BY <1>1, <1>3, <2>1, <2>2, VolumeTyped, StoredSizes
<1>5. y.p < volumes[y.v].pos
  <2>1. \A a, b, c, d \in Nat : c = a + SizeSize + b /\ c <= d => a < d
    BY DEF SizeSize
  <2>2. QED
    BY <1>2, <1>3, <1>4, <2>1
<1>6. volumes'[y.v].sized /\ volumes'[y.v].data[y.p] = volumes[y.v].data[y.p]
      /\ volumes[y.v].pos <= volumes'[y.v].pos
  BY <1>2, <1>3, <1>5 DEF Grows
<1>7. Lies(y)'
  <2>1. SizeAt(y.v, y.p)' = s
    BY <1>6 DEF SizeAt
  <2>2. y.end <= volumes'[y.v].pos
    BY <1>2, <1>3, <1>4, <1>6
  <2>3. QED
    BY <1>3, <1>4, <1>6, <2>1, <2>2 DEF Lies
<1>8. Joins(x, y)'
  <2>1. CASE y.v = x.v /\ y.p = x.end
    BY <2>1 DEF Joins
  <2>2. CASE y.v = x.v + 1 /\ y.p = HeaderSize /\ volumes[x.v].pos = x.end
    <3>1. x.v \in 1 .. n /\ x.v < n
      BY <1>1, <1>2, <1>3, <2>2
    <3>2. volumes'[x.v].pos = volumes[x.v].pos
      BY <3>1 DEF Grows
    <3>3. QED
      BY <2>2, <3>2 DEF Joins
  <2>3. QED
    BY <2>1, <2>2 DEF Follows, Joins
<1>9. Counts(x, y)'
  <2>1. Id(y.v, y.p)' = Id(y.v, y.p)
    BY <1>6 DEF Id
  <2>2. /\ Len(recorded) \in Nat /\ Len(recorded') \in Nat /\ Len(recorded) <= Len(recorded')
        /\ \A i \in 1 .. Len(recorded) : recorded'[i] = recorded[i]
    BY LenProperties DEF Grows, DumperInv, Typed
  <2>3. CASE Id(y.v, y.p) = 0
    BY <2>1, <2>3 DEF Follows, Counts
  <2>4. CASE Id(y.v, y.p) # 0
    <3>1. /\ y.n = x.n + 1 /\ y.n <= Len(recorded)
          /\ Id(y.v, y.p) = Stored(recorded[y.n]).id
      BY <2>4 DEF Follows, Counts
    <3>2. y.n \in 1 .. Len(recorded) /\ y.n <= Len(recorded')
      BY <2>2, <3>1, LinkTyped
    <3>3. recorded'[y.n] = recorded[y.n]
      BY <2>2, <3>2
    <3>4. Stored(recorded[y.n])' = Stored(recorded[y.n])
      BY <3>3 DEF Stored
    <3>5. QED
      BY <2>1, <2>4, <3>1, <3>2, <3>4 DEF Counts
  <2>5. QED
    BY <2>3, <2>4
<1>10. QED
  BY <1>7, <1>8, <1>9 DEF Follows

LEMMA ChainKept ==
  ASSUME DumperInv, DumperInv', Grows, NEW m \in Nat, NEW chain \in [Nat -> Links],
         Chained(chain, m), LastLink(chain[m])',
         dumper'.pc = "read" => \E k \in 0 .. m : ReadUpTo(chain[k])'
  PROVE  Chained(chain, m)'
<1>1. ASSUME NEW k \in 1 .. m
      PROVE  Follows(chain[k - 1], chain[k])'
  <2>1. chain[k - 1] \in Links /\ chain[k] \in Links
    OBVIOUS
  <2>2. Follows(chain[k - 1], chain[k])
    BY DEF Chained
  <2>3. QED
    BY <2>1, <2>2, LinkKept
<1>2. chain[0] = FirstLink
  BY DEF Chained
<1>3. QED
  BY <1>1, <1>2 DEF Chained, FirstLink

LEMMA SameGrows ==
  ASSUME DumperInv, UNCHANGED <<volumes, recorded>>
  PROVE  Grows
<1>1. Len(volumes) \in Nat /\ Len(recorded) \in Nat
  BY LenProperties DEF DumperInv, Typed
<1>2. \A v \in 1 .. Len(volumes) : volumes[v].pos \in Nat
  BY DumperTyped, VolumeTyped
<1>3. QED
  BY <1>1, <1>2 DEF Grows

\* Steps that neither record nor read.
LEMMA QuietChain ==
  ASSUME DumperInv, DumperInv', ~throws, ChainInv,
         UNCHANGED <<volumes, recorded>>, dumper'.pc \notin {"read", "publish"},
         dumper'.pc = "create" =>
            volumes = <<>> \/ volumes[Len(volumes)].pos \notin {0, HeaderSize},
         \/ dumper'.pc \in {"none", "header"}
         \/ dumper.pc \notin {"none", "header"}
         \/ volumes # <<>> => volumes[Len(volumes)].pos # 0
  PROVE  ChainInv'
<1> PICK m \in Nat, chain \in [Nat -> Links] : Chained(chain, m)
  BY DEF ChainInv, HasChain
<1>1. Begun
  BY DEF ChainInv
<1>2. Begun'
  <2>1. volumes # <<>> => Len(volumes) \in 1 .. Len(volumes)
    BY DumperTyped
  <2>2. QED
    BY <1>1, <2>1 DEF Begun
<1>3. LastLink(chain[m])'
  <2>1. LastLink(chain[m])
    BY DEF Chained
  <2>2. QED
    BY <2>1 DEF LastLink
<1>4. Chained(chain, m)'
  BY <1>3, SameGrows, ChainKept
<1>5. QED
  BY <1>2, <1>4 DEF ChainInv, HasChain

LEMMA QuietSteps ==
  ASSUME DumperInv, DumperInv', ChainInv,
         \/ Construct \/ Die \/ Destroy \/ CallbackReturns \/ Callback \/ CallbackDies
         \/ Write \/ CreateFails \/ Handle \/ ReadEnd \/ ReadFails
         \/ Replay /\ ~volumes[1].sized
  PROVE  ChainInv'
<1>1. UNCHANGED <<volumes, throws, recorded>> /\ dumper \in DumperRecords
  BY DEF Construct, Die, Destroy, CallbackReturns, Callback, CallbackDies, Write, CreateFails,
         Handle, ReadEnd, ReadFails, Replay, Goto, history, DumperInv, Typed
<1>2. CASE throws
  BY <1>1, <1>2 DEF ChainInv
<1>3. CASE ~throws /\ Construct
  <2>1. \/ dumper'.pc = "none"
        \/ dumper'.pc = "create" /\ volumes = <<>>
        \/ dumper'.pc = "header"
        \/ dumper'.pc = "write" /\ volumes[Len(volumes)].pos # 0
    BY <1>3 DEF Construct, NoDumper, LastId
  <2>2. QED
    BY <1>1, <1>3, <2>1, QuietChain
<1>4. CASE ~throws /\ Write
  <2>1. /\ dumper.pc = "write" /\ dumper.current = Len(volumes)
        /\ dumper'.pc = "data" \/ (dumper'.pc = "create" /\ ~Fits(Current.pos, dumper.record.size))
    BY <1>1, <1>4 DEF Write, DumperInv, Located, Writing, Storing, DumperRecords
  <2>2. Fits(0, dumper.record.size) /\ Fits(HeaderSize, dumper.record.size)
    <3>1. dumper.record.size \in Sizes \cup {ControlSize}
      BY DumperTyped, RecordTyped
    <3>2. /\ StoredSize(dumper.record.size) \in Nat /\ FileSize \in Nat
          /\ HeaderSize + SizeSize + StoredSize(dumper.record.size) <= FileSize
      BY <3>1, StoredSizes
    <3>3. QED
      BY <3>2 DEF HeaderSize, SizeSize, Fits
  <2>3. dumper'.pc = "create" => volumes[Len(volumes)].pos \notin {0, HeaderSize}
    BY <2>1, <2>2 DEF Current
  <2>4. QED
    BY <1>1, <1>4, <2>1, <2>3, QuietChain
<1>5. CASE ~throws /\ ~Construct /\ ~Write
  <2>1. dumper'.pc = "none" \/ (dumper.pc \notin {"none", "header"} /\ dumper'.pc \in {"idle", "write"})
    <3>1. NoDumper.pc = "none"
      BY DEF NoDumper
    <3>2. CASE Die \/ CallbackDies
      BY <3>1, <3>2 DEF Die, CallbackDies
    <3>3. CASE Destroy \/ CreateFails
      BY <1>1, <3>1, <3>3 DEF Destroy, CreateFails, DumperRecords
    <3>4. CASE CallbackReturns \/ Callback
      BY <1>1, <3>4 DEF CallbackReturns, Callback, DumperRecords
    <3>5. CASE Handle \/ ReadEnd \/ ReadFails
      BY <1>1, <3>5 DEF Handle, Goto, ReadEnd, ReadFails, DumperRecords
    <3>6. CASE Replay /\ ~volumes[1].sized
      BY <1>1, <3>6 DEF Replay, DumperRecords
    <3>7. QED
      BY <1>5, <3>2, <3>3, <3>4, <3>5, <3>6
  <2>2. QED
    BY <1>1, <1>5, <2>1, QuietChain
<1>6. QED
  BY <1>2, <1>3, <1>4, <1>5

-----------------------------------------------------------------------------
\* Where the chain ends, and where a record is written.
LEMMA ChainEnd ==
  ASSUME DumperInv, NEW m \in Nat, NEW chain \in [Nat -> Links], Chained(chain, m)
  PROVE  chain[m].end >= HeaderSize /\ (volumes = <<>> => m = 0 /\ chain[m] = FirstLink)
<1>1. CASE m = 0
  BY <1>1 DEF Chained, FirstLink, HeaderSize
<1>2. CASE m # 0
  <2>1. m \in 1 .. m
    BY <1>2
  <2>2. Lies(chain[m])
    BY <2>1 DEF Chained, Follows
  <2>3. chain[m] \in Links
    OBVIOUS
  <2>4. chain[m].v \in 1 .. Len(volumes) /\ SizeAt(chain[m].v, chain[m].p) \in Nat
    BY <2>2, <2>3, LinkTyped, DumperTyped, VolumeTyped, StoredSizes DEF Lies, SizeAt
  <2>5. \A a, b \in Nat : a >= HeaderSize => a + SizeSize + b >= HeaderSize
    BY DEF SizeSize, HeaderSize
  <2>6. QED
    BY <2>2, <2>3, <2>4, <2>5, LinkTyped, EmptySeq DEF Lies
<1>3. QED
  BY <1>1, <1>2

LEMMA InLastVolume ==
  ASSUME DumperInv, ~throws, dumper.pc \in {"resize", "header", "data", "publish"}
  PROVE  /\ dumper.current = Len(volumes) /\ Len(volumes) \in Nat
         /\ dumper.current \in 1 .. Len(volumes) /\ volumes # <<>>
         /\ ~dumper.replaying /\ volumes[dumper.current] \in Volumes
         /\ Current = volumes[dumper.current]
<1>1. ~dumper.replaying
  BY DEF DumperInv, Located, Writing, Storing
<1>2. dumper.current = Len(volumes) /\ volumes # <<>>
  BY <1>1 DEF DumperInv, Located, Writing, Storing
<1>3. dumper.current \in 1 .. Len(volumes)
  BY <1>2, DumperTyped
<1>4. QED
  BY <1>1, <1>2, <1>3, DumperTyped DEF Current

\* A new volume is empty, and the chain ends with the one before.
LEMMA CreateChain ==
  ASSUME DumperInv, DumperInv', ChainInv, ~throws, Create
  PROVE  ChainInv'
<1> DEFINE n == Len(volumes)
<1> PICK m \in Nat, chain \in [Nat -> Links] : Chained(chain, m)
  BY DEF ChainInv, HasChain
<1>1. /\ dumper.pc = "create" /\ dumper.current = n + 1 /\ n \in Nat
      /\ UNCHANGED <<throws, recorded>> /\ dumper'.pc = "resize"
  BY DumperTyped DEF Create, history, DumperInv, Typed, DumperRecords, Located, Writing, Storing
<1>2. volumes' = [i \in 1 .. n + 1 |-> IF i = n + 1 THEN EmptyVolume ELSE volumes[i]]
  <2>1. 1 .. n \cup {n + 1} = 1 .. n + 1
    BY <1>1
  <2>2. QED
    BY <1>1, <2>1 DEF Create
<1>3. /\ Len(volumes') = n + 1 /\ volumes'[n + 1] = EmptyVolume
      /\ \A v \in 1 .. n : volumes'[v] = volumes[v]
  <2>1. n + 1 \in Nat /\ n + 1 \in 1 .. n + 1 /\ \A v \in 1 .. n : v # n + 1 /\ v \in 1 .. n + 1
    BY <1>1
  <2> HIDE DEF n
  <2>2. Len(volumes') = n + 1
    BY <1>2, <2>1
  <2>3. QED
    BY <1>2, <2>1, <2>2
<1>4. EmptyVolume.sized = FALSE /\ EmptyVolume.pos = 0
  BY DEF EmptyVolume
<1>5. Grows
  <2>1. Len(recorded) \in Nat /\ \A v \in 1 .. n : volumes[v].pos \in Nat
    BY DumperTyped, VolumeTyped, LenProperties DEF DumperInv, Typed
  <2>2. QED
    BY <1>1, <1>3, <2>1 DEF Grows
<1>6. LastLink(chain[m])'
  <2>1. LastLink(chain[m])
    BY DEF Chained
  <2>2. CASE volumes = <<>>
    <3>1. chain[m].v = 1 /\ chain[m].end = HeaderSize /\ n = 0
      BY <2>2, ChainEnd, EmptySeq DEF FirstLink
    <3>2. QED
      BY <1>1, <1>3, <1>4, <2>1, <3>1 DEF LastLink
  <2>3. CASE volumes # <<>>
    <3>1. n \in 1 .. n
      BY <2>3, DumperTyped
    <3>2. chain[m].v = n /\ volumes[n].pos = chain[m].end
      BY <1>1, <2>1, <2>3 DEF LastLink
    <3>3. QED
      BY <1>1, <1>3, <1>4, <2>1, <3>1, <3>2 DEF LastLink
  <2>4. QED
    BY <2>2, <2>3
<1>7. Begun'
  <2>1. \A v \in 1 .. n + 1 : v \in 1 .. n \/ v = n + 1
    BY <1>1
  <2>2. QED
    BY <1>1, <1>3, <1>4, <2>1 DEF ChainInv, Begun
<1>8. Chained(chain, m)'
  BY <1>1, <1>5, <1>6, ChainKept
<1>9. QED
  BY <1>7, <1>8 DEF ChainInv, HasChain

\* A volume gets its size.
LEMMA ResizeChain ==
  ASSUME DumperInv, DumperInv', ChainInv, ~throws, Resize
  PROVE  ChainInv'
<1> DEFINE n == Len(volumes)
           x == [volumes[n] EXCEPT !.sized = TRUE]
<1> PICK m \in Nat, chain \in [Nat -> Links] : Chained(chain, m)
  BY DEF ChainInv, HasChain
<1>1. /\ dumper.pc = "resize" /\ UNCHANGED <<throws, recorded>> /\ dumper'.pc = "header"
  BY DEF Resize, history, DumperInv, Typed, DumperRecords
<1>2. dumper.current = n /\ n \in 1 .. n /\ n \in Nat /\ volumes[n] \in Volumes
  BY <1>1, InLastVolume
<1>3. x \in Volumes /\ x.sized = TRUE /\ x.pos = volumes[n].pos /\ x.data = volumes[n].data
  BY <1>2 DEF Volumes
<1>4. volumes' = [volumes EXCEPT ![dumper.current] = x]
  BY <1>2 DEF Resize, DumperInv, Typed, Volumes
<1> HIDE DEF x
<1>5. /\ Len(volumes') = n /\ (volumes' = <<>> <=> volumes = <<>>)
      /\ volumes'[n] = x /\ \A v \in 1 .. n : v # n => volumes'[v] = volumes[v]
  BY <1>2, <1>3, <1>4, VolumeStored
<1>6. \A v \in 1 .. n : /\ volumes'[v].pos = volumes[v].pos /\ volumes'[v].data = volumes[v].data
                        /\ volumes[v].sized => volumes'[v].sized
  BY <1>3, <1>5
<1>7. Grows
  <2>1. Len(recorded) \in Nat /\ \A v \in 1 .. n : volumes[v].pos \in Nat
    BY DumperTyped, VolumeTyped, LenProperties DEF DumperInv, Typed
  <2>2. QED
    BY <1>1, <1>2, <1>5, <1>6, <2>1 DEF Grows
<1>8. LastLink(chain[m])'
  <2>1. LastLink(chain[m])
    BY DEF Chained
  <2>2. chain[m].v + 1 = n => chain[m].v \in 1 .. n
    BY <1>2, LinkTyped
  <2>3. QED
    BY <1>1, <1>2, <1>5, <1>6, <2>1, <2>2 DEF LastLink
<1>9. Begun'
  BY <1>1, <1>5, <1>6 DEF ChainInv, Begun
<1>10. Chained(chain, m)'
  BY <1>1, <1>7, <1>8, ChainKept
<1>11. QED
  BY <1>9, <1>10 DEF ChainInv, HasChain

\* A position of 0 becomes that of the first record.
LEMMA HeaderChain ==
  ASSUME DumperInv, DumperInv', ChainInv, ~throws, Header
  PROVE  ChainInv'
<1> DEFINE n == Len(volumes)
           x == [volumes[n] EXCEPT !.pos = HeaderSize]
<1> PICK m \in Nat, chain \in [Nat -> Links] : Chained(chain, m)
  BY DEF ChainInv, HasChain
<1>1. /\ dumper.pc = "header" /\ UNCHANGED <<throws, recorded>> /\ dumper'.pc = "data"
  BY DEF Header, history, DumperInv, Typed, DumperRecords
<1>2. /\ dumper.current = n /\ n \in 1 .. n /\ n \in Nat /\ volumes[n] \in Volumes
      /\ ~dumper.replaying /\ volumes[n].pos = 0
  BY <1>1, InLastVolume DEF DumperInv, Placed
<1>3. /\ HeaderSize \in 0 .. FileSize /\ HeaderSize \in Nat /\ HeaderSize > 0
  BY StoredSizes DEF Lengths, HeaderSize, SizeSize
<1>4. x \in Volumes /\ x.sized = volumes[n].sized /\ x.pos = HeaderSize /\ x.data = volumes[n].data
  BY <1>2, <1>3 DEF Volumes
<1>5. volumes' = [volumes EXCEPT ![dumper.current] = x]
  BY <1>2 DEF Header, DumperInv, Typed, Volumes
<1> HIDE DEF x
<1>6. /\ Len(volumes') = n /\ (volumes' = <<>> <=> volumes = <<>>)
      /\ volumes'[n] = x /\ \A v \in 1 .. n : v # n => volumes'[v] = volumes[v]
  BY <1>2, <1>4, <1>5, VolumeStored
<1>7. \A v \in 1 .. n : volumes'[v].data = volumes[v].data /\ volumes'[v].sized = volumes[v].sized
  BY <1>4, <1>6
<1>8. Grows
  <2>1. Len(recorded) \in Nat /\ \A v \in 1 .. n : volumes[v].pos \in Nat
    BY DumperTyped, VolumeTyped, LenProperties DEF DumperInv, Typed
  <2>2. \A v \in 1 .. n : /\ volumes[v].pos <= volumes'[v].pos
                          /\ v < n => volumes'[v].pos = volumes[v].pos
    BY <1>2, <1>3, <1>4, <1>6, <2>1
  <2>3. QED
    BY <1>1, <1>2, <1>6, <1>7, <2>1, <2>2 DEF Grows
<1>9. LastLink(chain[m])'
  <2>1. LastLink(chain[m]) /\ chain[m].end >= HeaderSize /\ chain[m].end \in Nat
    BY ChainEnd, LinkTyped DEF Chained
  <2>2. chain[m].v + 1 = n => chain[m].v \in 1 .. n /\ chain[m].v # n
    BY <1>2, LinkTyped
  <2>3. volumes # <<>> /\ (chain[m].v = n /\ volumes[n].pos = chain[m].end => FALSE)
    BY <1>1, <1>2, <1>3, <2>1, InLastVolume
  <2>4. QED
    BY <1>1, <1>2, <1>4, <1>6, <2>1, <2>2, <2>3 DEF LastLink
<1>10. Begun'
  <2>1. \A v \in 1 .. n : volumes'[v].pos = 0 \/ volumes'[v].pos >= HeaderSize
    BY <1>3, <1>4, <1>6 DEF ChainInv, Begun
  <2>2. volumes'[n].pos >= HeaderSize
    BY <1>3, <1>4, <1>6
  <2>3. QED
    BY <1>1, <1>6, <2>1, <2>2 DEF Begun
<1>11. Chained(chain, m)'
  BY <1>1, <1>8, <1>9, ChainKept
<1>12. QED
  BY <1>10, <1>11 DEF ChainInv, HasChain

\* A record is stored at the position, behind the chain.
LEMMA DataChain ==
  ASSUME DumperInv, DumperInv', ChainInv, ~throws, Data
  PROVE  ChainInv'
<1> DEFINE n == Len(volumes)
           a == dumper.at
           e == Stored(dumper.record)
           x == [volumes[n] EXCEPT !.data = [volumes[n].data EXCEPT ![a] = e]]
<1> PICK m \in Nat, chain \in [Nat -> Links] : Chained(chain, m)
  BY DEF ChainInv, HasChain
<1>1. /\ dumper.pc = "data" /\ UNCHANGED <<throws, recorded>> /\ dumper'.pc = "publish"
      /\ dumper'.current = dumper.current /\ dumper'.at = a /\ dumper'.record = dumper.record
  BY DEF Data, Goto, history, DumperInv, Typed, DumperRecords
<1>2. /\ dumper.current = n /\ n \in 1 .. n /\ n \in Nat /\ volumes[n] \in Volumes
      /\ a = volumes[n].pos /\ a \in 0 .. FileSize
  BY <1>1, InLastVolume DEF DumperInv, Placed, Typed, DumperRecords
<1>3. e \in [id : {Blank} \cup 0 .. MaxRecords, size : Lengths] /\ e = Stored(dumper.record)'
  BY <1>1, DumperTyped, StoredTyped DEF Stored
<1> HIDE DEF e
<1>4. /\ x \in Volumes /\ x.sized = volumes[n].sized /\ x.pos = volumes[n].pos
      /\ \A p \in 0 .. FileSize : x.data[p] = IF p = a THEN e ELSE volumes[n].data[p]
  BY <1>2, <1>3 DEF Volumes
<1>5. volumes' = [volumes EXCEPT ![dumper.current] = x]
  BY <1>2 DEF Data, DumperInv, Typed, Volumes, e
<1> HIDE DEF x
<1>6. /\ Len(volumes') = n /\ (volumes' = <<>> <=> volumes = <<>>)
      /\ volumes'[n] = x /\ \A v \in 1 .. n : v # n => volumes'[v] = volumes[v]
  BY <1>2, <1>4, <1>5, VolumeStored
<1>7. \A v \in 1 .. n : volumes'[v].pos = volumes[v].pos /\ volumes'[v].sized = volumes[v].sized
  BY <1>4, <1>6
<1>8. Grows
  <2>1. Len(recorded) \in Nat /\ \A v \in 1 .. n : volumes[v].pos \in Nat
    BY DumperTyped, VolumeTyped, LenProperties DEF DumperInv, Typed
  <2>2. \A v \in 1 .. n, p \in 0 .. FileSize :
            p < volumes[v].pos => volumes'[v].data[p] = volumes[v].data[p]
    BY <1>2, <1>4, <1>6, <2>1
  <2>3. QED
    BY <1>1, <1>2, <1>6, <1>7, <2>1, <2>2 DEF Grows
<1>9. LastLink(chain[m])'
  <2>1. LastLink(chain[m])
    BY DEF Chained
  <2>2. chain[m].v + 1 = n => chain[m].v \in 1 .. n
    BY <1>2, LinkTyped
  <2>3. QED
    BY <1>1, <1>2, <1>6, <1>7, <2>1, <2>2 DEF LastLink
<1>10. Begun'
  <2>1. (Current.data[dumper.at])' = Stored(dumper.record)'
    BY <1>1, <1>2, <1>3, <1>4, <1>6 DEF Current
  <2>2. QED
    BY <1>1, <1>2, <1>6, <1>7, <2>1 DEF ChainInv, Begun
<1>11. Chained(chain, m)'
  BY <1>1, <1>8, <1>9, ChainKept
<1>12. QED
  BY <1>10, <1>11 DEF ChainInv, HasChain

\* The position is moved behind the record, which becomes the last link.
LEMMA PublishChain ==
  ASSUME DumperInv, DumperInv', ChainInv, ~throws, Publish
  PROVE  ChainInv'
<1> DEFINE n == Len(volumes)
           a == dumper.at
           r == dumper.record
           e == a + SizeSize + StoredSize(r.size)
           x == [volumes[n] EXCEPT !.pos = e]
<1> PICK m \in Nat, chain \in [Nat -> Links] : Chained(chain, m)
  BY DEF ChainInv, HasChain
<1>1. /\ dumper.pc = "publish" /\ throws' = throws /\ dumper'.pc \in {"none", "idle", "handle"}
      /\ recorded' = IF r = Control THEN recorded ELSE Append(recorded, r)
  <2>1. dumper'.pc = dumper.then
    BY DEF Publish, NoDumper, DumperInv, Typed, DumperRecords
  <2>2. QED
    BY <2>1, DumperTyped DEF Publish
<1>2. /\ dumper.current = n /\ n \in 1 .. n /\ n \in Nat /\ volumes[n] \in Volumes
      /\ volumes[n].sized /\ volumes # <<>>
      /\ a = volumes[n].pos /\ a \in 0 .. FileSize /\ a \in Nat
  <2>1. /\ dumper.current = n /\ n \in 1 .. n /\ n \in Nat /\ volumes[n] \in Volumes
        /\ volumes # <<>> /\ ~dumper.replaying /\ Current = volumes[n]
    BY <1>1, InLastVolume
  <2>2. Current.sized /\ a = Current.pos
    BY <1>1, <2>1 DEF DumperInv, Located, Placed
  <2>3. a \in 0 .. FileSize /\ a \in Nat
    BY DumperTyped DEF DumperInv, Typed, DumperRecords
  <2>4. QED
    BY <2>1, <2>2, <2>3
<1>3. /\ e \in 0 .. FileSize /\ e \in Nat /\ e > a /\ StoredSize(r.size) \in Nat
  <2>1. StoredSize(r.size) \in Nat
    BY DumperTyped, RecordTyped, StoredSizes
  <2>2. e <= FileSize
    BY <1>1 DEF DumperInv, Placed, Fits
  <2>3. \A b, c \in Nat : b + SizeSize + c \in Nat /\ b + SizeSize + c > b
    BY DEF SizeSize
  <2>4. e \in Nat /\ e > a
    BY <1>2, <2>1, <2>3
  <2>5. QED
    BY <2>1, <2>2, <2>4, StoredSizes
<1>4. /\ a >= HeaderSize /\ volumes[n].data[a] = Stored(r)
  BY <1>1, <1>2 DEF ChainInv, Begun, Current
<1> HIDE DEF e
<1>5. x \in Volumes /\ x.sized = volumes[n].sized /\ x.pos = e /\ x.data = volumes[n].data
  BY <1>2, <1>3 DEF Volumes
<1>6. volumes' = [volumes EXCEPT ![dumper.current] = x]
  BY <1>2 DEF Publish, DumperInv, Typed, Volumes, e
<1> HIDE DEF x
<1>7. /\ Len(volumes') = n /\ (volumes' = <<>> <=> volumes = <<>>)
      /\ volumes'[n] = x /\ \A v \in 1 .. n : v # n => volumes'[v] = volumes[v]
  BY <1>2, <1>5, <1>6, VolumeStored
<1>8. /\ \A v \in 1 .. n : /\ volumes'[v].data = volumes[v].data
                           /\ volumes'[v].sized = volumes[v].sized
      /\ volumes'[n].pos = e
  BY <1>5, <1>7
<1>9. /\ Len(recorded) \in Nat /\ Len(recorded') = Len(recorded) + (IF r = Control THEN 0 ELSE 1)
      /\ \A i \in 1 .. Len(recorded) : recorded'[i] = recorded[i]
      /\ r # Control => recorded'[Len(recorded) + 1] = r
  <2>1. recorded \in Seq(Records) /\ Len(recorded) \in Nat
    BY LenProperties DEF DumperInv, Typed
  <2>2. CASE r = Control
    BY <1>1, <2>1, <2>2
  <2>3. CASE r # Control
    <3>1. r \in Records
      BY <2>3, DumperTyped
    <3>2. QED
      BY <1>1, <2>1, <2>3, <3>1, AppendProperties
  <2>4. QED
    BY <2>2, <2>3
<1>10. Grows
  <2>1. \A v \in 1 .. n : volumes[v].pos \in Nat
    BY DumperTyped, VolumeTyped
  <2>2. \A v \in 1 .. n : /\ volumes[v].pos <= volumes'[v].pos
                          /\ v < n => volumes'[v].pos = volumes[v].pos
    BY <1>2, <1>3, <1>7, <1>8, <2>1
  <2>3. QED
    BY <1>2, <1>7, <1>8, <1>9, <2>2 DEF Grows
<1>11. Begun'
  <2>1. \A v \in 1 .. n : volumes[v].pos = 0 \/ volumes[v].pos >= HeaderSize
    BY DEF ChainInv, Begun
  <2>2. volumes'[n].pos >= HeaderSize
    BY <1>2, <1>3, <1>4, <1>8 DEF HeaderSize
  <2>3. \A v \in 1 .. n : volumes'[v].pos = 0 \/ volumes'[v].pos >= HeaderSize
    BY <1>7, <2>1, <2>2
  <2>4. QED
    BY <1>1, <1>7, <2>2, <2>3 DEF Begun
\* The chain with the new link.
<1>12. PICK y \in Links : y = [v |-> n, p |-> a, end |-> e, n |-> Len(recorded')]
  <2>1. n \in Nat \ {0} /\ Len(recorded') \in Nat
    BY <1>2, <1>9
  <2>2. QED
    BY <1>2, <1>3, <2>1 DEF Links
<1>13. y.v = n /\ y.p = a /\ y.end = e /\ y.n = Len(recorded')
  BY <1>12
<1>14. Lies(y)'
  <2>1. volumes'[y.v].data[y.p].size = StoredSize(r.size)
    BY <1>2, <1>4, <1>8, <1>13 DEF Stored
  <2>2. SizeAt(y.v, y.p)' = StoredSize(r.size)
    BY <2>1 DEF SizeAt
  <2>3. e <= volumes'[n].pos /\ volumes'[n].sized
    BY <1>2, <1>3, <1>8
  <2>4. /\ y.v \in 1 .. Len(volumes') /\ volumes'[y.v].sized /\ y.p >= HeaderSize
        /\ y.end <= volumes'[y.v].pos
    BY <1>2, <1>4, <1>7, <1>13, <2>3
  <2>5. y.end = y.p + SizeSize + SizeAt(y.v, y.p)'
    BY <1>13, <2>2 DEF e
  <2>6. QED
    BY <2>4, <2>5 DEF Lies
<1>15. LastLink(chain[m]) /\ chain[m].n = Len(recorded)
  BY DEF Chained, LastLink
<1>16. Joins(chain[m], y)'
  <2>1. volumes[n].pos >= HeaderSize /\ volumes[n].pos # 0
    BY <1>2, <1>4 DEF HeaderSize
  <2>2. CASE chain[m].v = n /\ volumes[n].pos = chain[m].end
    BY <1>2, <1>13, <2>2 DEF Joins
  <2>3. CASE /\ chain[m].v + 1 = n /\ volumes[chain[m].v].pos = chain[m].end
             /\ volumes[n].pos = HeaderSize
    <3>1. chain[m].v \in 1 .. n /\ chain[m].v # n
      BY <1>2, <2>3, LinkTyped
    <3>2. QED
      BY <1>2, <1>7, <1>13, <2>3, <3>1 DEF Joins
  <2>4. QED
    BY <1>2, <1>15, <2>1, <2>2, <2>3 DEF LastLink
<1>17. Counts(chain[m], y)'
  <2>1. Id(y.v, y.p)' = Stored(r).id
    BY <1>2, <1>4, <1>8, <1>13 DEF Id
  <2>2. r = Control => Stored(r).id = 0
    BY SizesAssumption DEF Stored, Control
  <2>3. r # Control => Stored(r).id # 0
    BY DumperTyped, RecordTyped DEF Stored, Blank
  <2>4. CASE r = Control
    BY <1>9, <1>13, <1>15, <2>1, <2>2, <2>4 DEF Counts
  <2>5. CASE r # Control
    <3>1. y.n = Len(recorded) + 1 /\ y.n <= Len(recorded')
      BY <1>9, <1>13, <2>5
    <3>2. recorded'[y.n] = r
      BY <1>9, <2>5, <3>1
    <3>3. Stored(recorded[y.n])' = Stored(r)
      BY <3>2 DEF Stored
    <3>4. QED
      BY <1>15, <2>1, <2>3, <2>5, <3>1, <3>3 DEF Counts
  <2>6. QED
    BY <2>4, <2>5
<1>18. Follows(chain[m], y)'
  BY <1>14, <1>16, <1>17 DEF Follows
<1>19. PICK new \in [Nat -> Links] : new = [chain EXCEPT ![m + 1] = y]
  OBVIOUS
<1>20. /\ m + 1 \in Nat /\ new[m + 1] = y /\ new[0] = chain[0]
       /\ \A k \in 0 .. m : new[k] = chain[k]
  BY <1>19
<1>21. ASSUME NEW k \in 1 .. m + 1
       PROVE  Follows(new[k - 1], new[k])'
  <2>1. CASE k = m + 1
    <3>1. k - 1 = m /\ m \in 0 .. m
      BY <2>1
    <3>2. QED
      BY <1>18, <1>20, <2>1, <3>1
  <2>2. CASE k \in 1 .. m
    <3>1. k - 1 \in 0 .. m /\ k \in 0 .. m /\ k - 1 \in Nat /\ k \in Nat
      BY <2>2
    <3>2. new[k - 1] = chain[k - 1] /\ new[k] = chain[k]
      BY <1>20, <3>1
    <3>3. Follows(chain[k - 1], chain[k])
      BY <2>2 DEF Chained
    <3>4. Follows(chain[k - 1], chain[k])'
      BY <1>10, <3>1, <3>3, LinkKept
    <3>5. QED
      BY <3>2, <3>4
  <2>3. QED
    BY <2>1, <2>2
<1>22. LastLink(new[m + 1])'
  <2>1. LastLink(y)'
    BY <1>2, <1>5, <1>7, <1>13 DEF LastLink
  <2>2. QED
    BY <1>20, <2>1
<1>23. Chained(new, m + 1)'
  BY <1>1, <1>20, <1>21, <1>22 DEF Chained, FirstLink
<1>24. QED
  BY <1>11, <1>20, <1>23 DEF ChainInv, HasChain

-----------------------------------------------------------------------------
\* A replay begins before the first link.
LEMMA ReplayChain ==
  ASSUME DumperInv, DumperInv', ChainInv, ~throws, Replay, volumes[1].sized
  PROVE  ChainInv' /\ dumper'.pc = "read"
<1> PICK m \in Nat, chain \in [Nat -> Links] : Chained(chain, m)
  BY DEF ChainInv, HasChain
<1>1. /\ dumper.pc = "idle" /\ UNCHANGED <<volumes, throws, recorded>> /\ replayed' = <<>>
      /\ dumper'.pc = "read" /\ dumper'.current = 1 /\ dumper'.at = HeaderSize
  BY DEF Replay, history, DumperInv, Typed, DumperRecords
<1>2. Begun'
  BY <1>1 DEF ChainInv, Begun
<1>3. LastLink(chain[m])'
  BY <1>1 DEF Chained, LastLink
<1>4. ReadUpTo(chain[0])'
  <2>1. /\ chain[0].v = 1 /\ chain[0].end = HeaderSize /\ chain[0].n = 0
    BY DEF Chained, FirstLink
  <2>2. Len(replayed') = 0
    BY <1>1, EmptySeq
  <2>3. QED
    BY <1>1, <2>1, <2>2 DEF ReadUpTo
<1>5. 0 \in 0 .. m
  OBVIOUS
<1>6. Chained(chain, m)'
  BY <1>1, <1>3, <1>4, <1>5, SameGrows, ChainKept
<1>7. QED
  BY <1>1, <1>2, <1>6 DEF ChainInv, HasChain

\* The checks of read_next lead to the next link, or past the last one.
LEMMA NextLink ==
  ASSUME DumperInv, dumper.pc = "read",
         NEW m \in Nat, NEW chain \in [Nat -> Links], Chained(chain, m),
         NEW k \in 0 .. m, ReadUpTo(chain[k])
  PROVE  /\ k < m => /\ BodyPlace = <<chain[k + 1].v, chain[k + 1].p>>
                     /\ Follows(chain[k], chain[k + 1])
         /\ k = m => /\ BodyPlace[1] > LastId \/ ~volumes[BodyPlace[1]].sized
                     /\ Len(replayed) = Len(recorded)
<1> DEFINE n == Len(volumes)
           x == chain[k]
           y == chain[k + 1]
<1>1. /\ x \in Links /\ y \in Links /\ n \in Nat /\ volumes # <<>> /\ DOMAIN volumes = 1 .. n
      /\ dumper.current = x.v /\ dumper.at = x.end /\ Len(replayed) = x.n
      /\ x.v \in 1 .. n
  <2>1. n \in Nat /\ volumes # <<>> /\ DOMAIN volumes = 1 .. n
    BY LenProperties DEF DumperInv, Typed, Located
  <2>2. k \in Nat /\ k + 1 \in Nat
    OBVIOUS
  <2>3. dumper.current \in 1 .. n
    BY DumperTyped DEF DumperInv, Located
  <2>4. QED
    BY <2>1, <2>2, <2>3 DEF ReadUpTo
<1>2. /\ x.v \in Nat /\ x.v >= 1 /\ x.end \in Nat /\ y.v \in Nat /\ y.p \in 0 .. FileSize
      /\ y.p \in Nat /\ y.end \in Nat
  BY <1>1, LinkTyped
<1>3. \A v \in 1 .. n : /\ volumes[v].pos \in Nat
                        /\ \A p \in 0 .. FileSize : SizeAt(v, p) \in Nat
  BY DumperTyped, VolumeTyped, StoredSizes DEF SizeAt
<1>4. HeaderSize \in Nat /\ HeaderSize \in 0 .. FileSize
  BY StoredSizes DEF Lengths, HeaderSize, SizeSize
<1>5. \A p, b, e \in Nat :
          /\ p + SizeSize + b <= e => ~(p + SizeSize > e) /\ ~(p + SizeSize + b > e)
          /\ p >= e => p + SizeSize > e /\ p + SizeSize + b > e
  BY DEF SizeSize
<1> HIDE DEF n, x, y
<1>6. CASE k < m
  <2>1. Follows(x, y)
    <3>1. k + 1 \in 1 .. m /\ (k + 1) - 1 = k
      BY <1>6
    <3>2. QED
      BY <3>1 DEF Chained, x, y
  <2>2. /\ y.v \in 1 .. n /\ volumes[y.v].sized
        /\ ~NoHeader(y.v, y.p) /\ ~NoBody(y.v, y.p)
    <3>1. /\ y.v \in 1 .. n /\ volumes[y.v].sized
          /\ y.p + SizeSize + SizeAt(y.v, y.p) <= volumes[y.v].pos
      BY <2>1 DEF Follows, Lies, n
    <3>2. QED
      BY <1>2, <1>3, <1>5, <3>1 DEF NoHeader, NoBody
  <2>3. HeaderPlace = <<y.v, y.p>>
    <3>1. CASE y.v = x.v /\ y.p = x.end
      BY <1>1, <2>2, <3>1 DEF HeaderPlace
    <3>2. CASE y.v = x.v + 1 /\ y.p = HeaderSize /\ volumes[x.v].pos = x.end
      <4>1. NoHeader(x.v, x.end)
        BY <1>1, <1>2, <1>4, <1>5, <3>2 DEF NoHeader
      <4>2. QED
        BY <1>1, <3>2, <4>1 DEF HeaderPlace
    <3>3. QED
      BY <2>1, <3>1, <3>2 DEF Follows, Joins
  <2>4. BodyPlace = <<y.v, y.p>>
    BY <2>2, <2>3 DEF BodyPlace
  <2>5. QED
    BY <1>6, <2>1, <2>4 DEF x, y
<1>7. CASE k = m
  <2>1. LastLink(x)
    BY <1>7 DEF Chained, x
  <2>2. CASE x.v = n /\ (volumes[x.v].pos = x.end \/ (volumes[x.v].pos = 0 /\ x.end = HeaderSize))
    <3>1. NoHeader(x.v, x.end)
      BY <1>1, <1>2, <1>3, <1>4, <1>5, <2>2 DEF NoHeader
    <3>2. HeaderPlace = <<n + 1, HeaderSize>>
      BY <1>1, <2>2, <3>1 DEF HeaderPlace
    <3>3. n + 1 \notin 1 .. n /\ n + 1 > n
      BY <1>1
    <3>4. BodyPlace = <<n + 1, HeaderSize>>
      BY <1>1, <3>2, <3>3 DEF BodyPlace
    <3>5. QED
      BY <1>1, <1>7, <2>1, <3>3, <3>4 DEF LastLink, LastId, n, x
  <2>3. CASE /\ x.v + 1 = n /\ volumes[x.v].pos = x.end /\ volumes[n].pos \in {0, HeaderSize}
    <3>1. NoHeader(x.v, x.end)
      BY SMTT(30), <1>1, <1>2, <1>3, <1>4, <1>5, <2>3 DEF NoHeader
    <3>2. HeaderPlace = <<n, HeaderSize>>
      BY <1>1, <2>3, <3>1 DEF HeaderPlace
    <3>3. n \in 1 .. n
      BY <1>1, <1>2, <2>3
    <3>4. NoBody(n, HeaderSize)
      BY <1>3, <1>4, <1>5, <2>3, <3>3 DEF NoBody
    <3>5. CASE volumes[n].sized
      <4>1. BodyPlace = <<n + 1, HeaderSize>>
        BY <1>1, <3>2, <3>3, <3>4, <3>5 DEF BodyPlace
      <4>2. QED
        BY <1>1, <1>7, <2>1, <4>1 DEF LastLink, LastId, n, x
    <3>6. CASE ~volumes[n].sized
      <4>1. BodyPlace = <<n, HeaderSize>>
        BY <1>1, <3>2, <3>3, <3>6 DEF BodyPlace
      <4>2. QED
        BY <1>1, <1>7, <2>1, <3>6, <4>1 DEF LastLink, LastId, n, x
    <3>7. QED
      BY <3>5, <3>6
  <2>4. QED
    BY <1>1, <2>1, <2>2, <2>3 DEF LastLink, n
<1>8. QED
  BY <1>6, <1>7

\* What is read is the next link: a control record, or the next callback.
LEMMA ReadRecordChain ==
  ASSUME DumperInv, DumperInv', ChainInv, ~throws, ReadRecord
  PROVE  /\ ChainInv' /\ dumper'.pc = "read"
         /\ \/ replayed' = replayed
            \/ /\ Len(replayed) < Len(recorded)
               /\ replayed' = Append(replayed, Stored(recorded[Len(replayed) + 1]).id)
<1> DEFINE i == BodyPlace[1]
           p == BodyPlace[2]
           r == volumes[i].data[p]
<1> PICK m \in Nat, chain \in [Nat -> Links] : Chained(chain, m)
  BY DEF ChainInv, HasChain
<1>1. /\ dumper.pc = "read" /\ i \in DOMAIN volumes /\ volumes[i].sized
      /\ UNCHANGED <<volumes, throws, recorded>> /\ dumper'.pc = "read"
      /\ dumper'.current = i /\ dumper'.at = p + SizeSize + r.size
      /\ replayed' = IF r.id = 0 THEN replayed ELSE Append(replayed, r.id)
  BY DEF ReadRecord, history, DumperInv, Typed, DumperRecords
<1>2. PICK k \in 0 .. m : ReadUpTo(chain[k])
  BY <1>1 DEF Chained
<1>3. k < m /\ k \in Nat /\ k + 1 \in 0 .. m /\ k + 1 \in Nat
  <2>1. i \in 1 .. LastId /\ LastId \in Nat
    BY <1>1, LenProperties DEF DumperInv, Typed, LastId
  <2>2. ~(i > LastId)
    BY <2>1
  <2>3. k # m
    BY <1>1, <1>2, <2>2, NextLink
  <2>4. QED
    BY <2>3
<1>4. PICK x \in Links : x = chain[k]
  BY <1>3
<1>5. PICK y \in Links : y = chain[k + 1]
  BY <1>3
<1>6. i = y.v /\ p = y.p /\ Follows(x, y)
  BY <1>1, <1>2, <1>3, <1>4, <1>5, NextLink
<1>7. dumper'.current = y.v /\ dumper'.at = y.end /\ r.id = Id(y.v, y.p)
  BY <1>1, <1>6 DEF Follows, Lies, SizeAt, Id
<1> HIDE DEF i, p, r
<1>8. /\ Len(replayed) = x.n /\ x.n \in Nat
      /\ \A j \in 1 .. x.n : j <= Len(recorded) /\ replayed[j] = Stored(recorded[j]).id
  BY <1>2, <1>4, LinkTyped DEF ReadUpTo
<1>9. /\ Len(replayed') = y.n
      /\ \A j \in 1 .. y.n : j <= Len(recorded) /\ replayed'[j] = Stored(recorded[j]).id
      /\ \/ replayed' = replayed
         \/ /\ Len(replayed) < Len(recorded)
            /\ replayed' = Append(replayed, Stored(recorded[Len(replayed) + 1]).id)
  <2>1. CASE r.id = 0
    BY <1>1, <1>6, <1>7, <1>8, <2>1 DEF Follows, Counts
  <2>2. CASE r.id # 0
    <3>1. /\ y.n = x.n + 1 /\ y.n <= Len(recorded) /\ r.id = Stored(recorded[y.n]).id
          /\ replayed' = Append(replayed, r.id)
      BY <1>1, <1>6, <1>7, <2>2 DEF Follows, Counts
    <3>2. Len(recorded) \in Nat /\ replayed \in Seq(Int)
      <4>1. ReplayedIds \subseteq Int
        BY DEF ReplayedIds, Blank
      <4>2. QED
        BY <4>1, LenProperties, SeqMonotonic DEF DumperInv, Typed
    <3>3. /\ Len(replayed') = x.n + 1 /\ replayed'[x.n + 1] = r.id
          /\ \A j \in 1 .. x.n : replayed'[j] = replayed[j]
      <4>1. r.id \in Int
        <5>1. y.v \in 1 .. Len(volumes) /\ y.p \in 0 .. FileSize
          BY <1>6, LinkTyped DEF Follows, Lies
        <5>2. QED
          BY <1>7, <5>1, DumperTyped, VolumeTyped DEF Id
      <4>2. QED
        BY <1>8, <3>1, <3>2, <4>1, AppendProperties
    <3>4. \A j \in 1 .. x.n + 1 : j \in 1 .. x.n \/ j = x.n + 1
      BY <1>8
    <3>5. x.n < Len(recorded)
      BY <1>8, <3>1, <3>2
    <3>6. QED
      BY <1>8, <3>1, <3>3, <3>4, <3>5
  <2>3. QED
    BY <2>1, <2>2
<1>10. ReadUpTo(y)'
  BY <1>1, <1>7, <1>9 DEF ReadUpTo
<1>11. ReadUpTo(chain[k + 1])'
  BY <1>5, <1>10
<1>12. LastLink(chain[m])'
  BY <1>1 DEF Chained, LastLink
<1>13. Chained(chain, m)'
  BY <1>1, <1>3, <1>11, <1>12, SameGrows, ChainKept
<1>14. Begun'
  BY <1>1 DEF ChainInv, Begun
<1>15. QED
  BY <1>1, <1>9, <1>13, <1>14 DEF ChainInv, HasChain

LEMMA ChainInvInit == Init => ChainInv
<1> SUFFICES ASSUME Init PROVE Begun /\ HasChain
  BY DEF ChainInv
<1>1. volumes = <<>> /\ recorded = <<>> /\ dumper.pc = "none" /\ Len(volumes) = 0 /\ Len(recorded) = 0
  BY EmptySeq DEF Init, NoDumper
<1>2. Begun
  BY <1>1 DEF Begun
<1>3. FirstLink \in Links
  <2>1. 0 \in 0 .. FileSize
    BY SizesAssumption
  <2>2. QED
    BY <2>1 DEF FirstLink, Links, HeaderSize
<1>4. PICK chain \in [Nat -> Links] : chain = [k \in Nat |-> FirstLink]
  BY <1>3
<1>5. Chained(chain, 0)
  BY <1>1, <1>4 DEF Chained, LastLink, FirstLink
<1>6. QED
  BY <1>2, <1>5 DEF HasChain

LEMMA ChainInvStep == DumperInv /\ DumperInv' /\ ChainInv /\ [Next]_vars => ChainInv'
<1> SUFFICES ASSUME DumperInv, DumperInv', ChainInv, [Next]_vars PROVE ChainInv'
  OBVIOUS
<1>1. throws' = throws
  BY DEF Next, vars, Construct, Die, Destroy, CallbackReturns, Callback, CallbackDies, Write,
         Create, CreateFails, Resize, Header, Data, Publish, Handle, Replay, ReadRecord,
         ReadEnd, ReadFails, Goto, history
<1>2. CASE throws
  BY <1>1, <1>2 DEF ChainInv
<1>3. CASE ~throws /\ Next
  <2>1. CASE Replay
    BY <1>3, <2>1, QuietSteps, ReplayChain
  <2>2. CASE ~Replay
    BY <1>3, <2>2, QuietSteps, CreateChain, ResizeChain, HeaderChain, DataChain, PublishChain,
       ReadRecordChain
    DEF Next
  <2>3. QED
    BY <2>1, <2>2
<1>4. CASE ~throws /\ UNCHANGED vars
  <2>1. UNCHANGED <<volumes, dumper, recorded, replayed>>
    BY <1>4 DEF vars, history
  <2>2. PICK m \in Nat, chain \in [Nat -> Links] : Chained(chain, m)
    BY <1>4 DEF ChainInv, HasChain
  <2>3. LastLink(chain[m])'
    BY <2>1, <2>2 DEF Chained, LastLink
  <2>4. dumper'.pc = "read" => \E k \in 0 .. m : ReadUpTo(chain[k])'
    <3>1. ASSUME NEW k \in 0 .. m, ReadUpTo(chain[k])
          PROVE  ReadUpTo(chain[k])'
      BY <2>1, <3>1 DEF ReadUpTo, Stored
    <3>2. QED
      BY <2>1, <2>2, <3>1 DEF Chained
  <2>5. Chained(chain, m)'
    BY <2>1, <2>2, <2>3, <2>4, SameGrows, ChainKept
  <2>6. Begun'
    BY <1>4, <2>1 DEF ChainInv, Begun, Current, Stored
  <2>7. QED
    BY <2>5, <2>6 DEF ChainInv, HasChain
<1>5. QED
  BY <1>2, <1>3, <1>4

LEMMA ChainInvAlways == Spec => []ChainInv
BY DumperInvInit, DumperInvStep, ChainInvInit, ChainInvStep, PTL DEF Spec

-----------------------------------------------------------------------------
\* What a replay finds of the records: the log of DumperLog.
Entries(s) == [i \in DOMAIN s |-> Stored(s[i]).id]

LEMMA EntriesTyped ==
  ASSUME NEW s \in Seq(Records)
  PROVE  /\ Entries(s) \in Seq(ReplayedIds) /\ Len(Entries(s)) = Len(s) /\ Len(s) \in Nat
         /\ \A i \in 1 .. Len(s) : Entries(s)[i] = Stored(s[i]).id
<1>1. /\ Len(s) \in Nat /\ DOMAIN s = 1 .. Len(s)
      /\ \A i \in 1 .. Len(s) : s[i] \in Records
  BY LenProperties, ElementOfSeq
<1>2. \A i \in 1 .. Len(s) : Stored(s[i]).id \in ReplayedIds
  BY <1>1 DEF Stored, Records, ReplayedIds
<1>3. QED
  BY <1>1, <1>2 DEF Entries

LEMMA EntriesAppend ==
  ASSUME NEW s \in Seq(Records), NEW r \in Records
  PROVE  /\ Stored(r).id \in ReplayedIds
         /\ Entries(Append(s, r)) = Append(Entries(s), Stored(r).id)
<1> DEFINE e == Stored(r).id
           t == Append(s, r)
<1>1. e \in ReplayedIds
  BY DEF Stored, Records, ReplayedIds
<1>2. /\ t \in Seq(Records) /\ Len(t) = Len(s) + 1 /\ t[Len(s) + 1] = r
      /\ \A i \in 1 .. Len(s) : t[i] = s[i]
  BY AppendProperties
<1> HIDE DEF e, t
<1>3. Len(s) \in Nat /\ \A i \in 1 .. Len(s) + 1 : i \in 1 .. Len(s) \/ i = Len(s) + 1
  BY EntriesTyped
<1>4. /\ Entries(t) \in Seq(ReplayedIds) /\ Len(Entries(t)) = Len(s) + 1
      /\ Entries(t)[Len(s) + 1] = e
      /\ \A i \in 1 .. Len(s) : Entries(t)[i] = Stored(s[i]).id
  <2>1. /\ Entries(t) \in Seq(ReplayedIds) /\ Len(Entries(t)) = Len(t)
        /\ \A i \in 1 .. Len(t) : Entries(t)[i] = Stored(t[i]).id
    BY <1>2, EntriesTyped
  <2>2. Len(s) + 1 \in 1 .. Len(t) /\ \A i \in 1 .. Len(s) : i \in 1 .. Len(t)
    BY <1>2, <1>3
  <2>3. QED
    BY <1>2, <2>1, <2>2 DEF e
<1>5. /\ Append(Entries(s), e) \in Seq(ReplayedIds) /\ Len(Append(Entries(s), e)) = Len(s) + 1
      /\ Append(Entries(s), e)[Len(s) + 1] = e
      /\ \A i \in 1 .. Len(s) : Append(Entries(s), e)[i] = Stored(s[i]).id
  BY <1>1, EntriesTyped, AppendProperties
<1>6. Entries(t) = Append(Entries(s), e)
  <2>1. \A i \in 1 .. Len(Entries(t)) : Entries(t)[i] = Append(Entries(s), e)[i]
    BY <1>3, <1>4, <1>5
  <2>2. QED
    BY <1>4, <1>5, <2>1, SeqEqual
<1>7. QED
  BY <1>1, <1>6 DEF e, t

\* A step of DumperLog, or none, for each kind of step.
LEMMA LogStutters ==
  ASSUME throws' = throws,
         throws \/ /\ UNCHANGED <<recorded, replayed>>
                   /\ dumper'.pc = "read" <=> dumper.pc = "read"
  PROVE  [Log!LogNext]_(Log!logVars)
<1>1. UNCHANGED Log!logVars
  BY DEF Log!logVars, Stored
<1>2. QED
  BY <1>1

LEMMA LogDies ==
  ASSUME ~throws, ~throws', recorded' = recorded, replayed' = <<>>, dumper'.pc # "read"
  PROVE  [Log!LogNext]_(Log!logVars)
<1>1. Log!Die
  BY DEF Log!Die, Stored
<1>2. QED
  BY <1>1 DEF Log!LogNext

LEMMA LogAppends ==
  ASSUME DumperInv, DumperInv', ~throws, Publish
  PROVE  [Log!LogNext]_(Log!logVars)
<1> DEFINE r == dumper.record
<1>1. /\ dumper.pc = "publish" /\ throws' = throws /\ replayed' = replayed /\ dumper'.pc # "read"
      /\ recorded' = IF r = Control THEN recorded ELSE Append(recorded, r)
  <2>1. dumper'.pc = dumper.then
    BY DEF Publish, NoDumper, DumperInv, Typed, DumperRecords
  <2>2. QED
    BY <2>1, DumperTyped DEF Publish
<1>2. CASE r = Control
  BY <1>1, <1>2, LogStutters
<1>3. CASE r # Control
  <2>1. r \in Records /\ recorded \in Seq(Records)
    BY <1>3, DumperTyped DEF DumperInv, Typed
  <2>2. PICK e \in ReplayedIds : e = Stored(r).id
    BY <2>1, EntriesAppend
  <2>3. Entries(recorded') = Append(Entries(recorded), e)
    BY <1>1, <1>3, <2>1, <2>2, EntriesAppend
  <2>4. [i \in DOMAIN recorded' |-> Stored(recorded'[i]).id] =
            Append([i \in DOMAIN recorded |-> Stored(recorded[i]).id], e)
    BY <2>3 DEF Entries
  <2>5. Log!AppendEntry
    BY <1>1, <2>2, <2>4 DEF Log!AppendEntry, Stored, ReplayedIds
  <2>6. QED
    BY <2>5 DEF Log!LogNext
<1>4. QED
  BY <1>2, <1>3

\* A replay hands over the next entry, or ends with the last.
LEMMA LogReads ==
  ASSUME DumperInv, DumperInv', ChainInv, ~throws, ReadRecord
  PROVE  [Log!LogNext]_(Log!logVars)
<1>1. /\ throws' = throws /\ recorded' = recorded /\ dumper.pc = "read" /\ dumper'.pc = "read"
  BY ReadRecordChain DEF ReadRecord, history
<1>2. CASE replayed' = replayed
  BY <1>1, <1>2, LogStutters
<1>3. CASE /\ Len(replayed) < Len(recorded)
           /\ replayed' = Append(replayed, Stored(recorded[Len(replayed) + 1]).id)
  <2>1. recorded \in Seq(Records) /\ Len(replayed) \in Nat
    BY LenProperties DEF DumperInv, Typed
  <2>2. /\ Len(Entries(recorded)) = Len(recorded)
        /\ Entries(recorded)[Len(replayed) + 1] = Stored(recorded[Len(replayed) + 1]).id
    <3>1. /\ Len(Entries(recorded)) = Len(recorded) /\ Len(recorded) \in Nat
          /\ \A i \in 1 .. Len(recorded) : Entries(recorded)[i] = Stored(recorded[i]).id
      BY <2>1, EntriesTyped
    <3>2. Len(replayed) + 1 \in 1 .. Len(recorded)
      BY <1>3, <2>1, <3>1
    <3>3. QED
      BY <3>1, <3>2
  <2>3. PICK entries : entries = Entries(recorded)
    OBVIOUS
  <2>4. /\ Len(replayed) < Len(entries) /\ replayed' = Append(replayed, entries[Len(replayed) + 1])
    BY <1>3, <2>2, <2>3
  <2>5. /\ entries = [i \in DOMAIN recorded |-> Stored(recorded[i]).id]
        /\ entries = [i \in DOMAIN recorded |-> Stored(recorded[i]).id]'
    BY <1>1, <2>3 DEF Entries, Stored
  <2>6. Log!Deliver
    BY <1>1, <2>4, <2>5 DEF Log!Deliver
  <2>7. QED
    BY <2>6 DEF Log!LogNext
<1>4. QED
  BY <1>2, <1>3, ReadRecordChain

LEMMA LogReadEnds ==
  ASSUME DumperInv, DumperInv', ChainInv, ~throws, ReadEnd \/ ReadFails
  PROVE  [Log!LogNext]_(Log!logVars)
<1>1. /\ throws' = throws /\ recorded' = recorded /\ replayed' = replayed
      /\ dumper.pc = "read" /\ dumper'.pc = "idle"
  BY DEF ReadEnd, ReadFails, history, DumperInv, Typed, DumperRecords
<1>2. Len(replayed) = Len(recorded)
      /\ \A i \in 1 .. Len(recorded) : replayed[i] = Stored(recorded[i]).id
  <2> PICK m \in Nat, chain \in [Nat -> Links] : Chained(chain, m)
    BY DEF ChainInv, HasChain
  <2>1. PICK k \in 0 .. m : ReadUpTo(chain[k])
    BY <1>1 DEF Chained
  <2>2. k = m
    <3>1. ASSUME k < m
          PROVE  FALSE
      <4>1. BodyPlace[1] = chain[k + 1].v /\ Follows(chain[k], chain[k + 1])
        BY <1>1, <2>1, <3>1, NextLink
      <4>2. BodyPlace[1] \in 1 .. Len(volumes) /\ volumes[BodyPlace[1]].sized
        BY <4>1 DEF Follows, Lies
      <4>3. BodyPlace[1] > Len(volumes)
        BY <4>2 DEF ReadEnd, ReadFails, LastId
      <4>4. QED
        BY <4>2, <4>3, DumperTyped
    <3>2. QED
      BY <3>1
  <2>3. Len(replayed) = Len(recorded)
    BY <1>1, <2>1, <2>2, NextLink
  <2>4. Len(replayed) = chain[k].n
        /\ \A i \in 1 .. chain[k].n : replayed[i] = Stored(recorded[i]).id
    BY <2>1 DEF ReadUpTo
  <2>5. QED
    BY <2>3, <2>4
<1>3. replayed = Entries(recorded)
  <2>1. recorded \in Seq(Records) /\ replayed \in Seq(ReplayedIds)
    BY DEF DumperInv, Typed
  <2>2. /\ Entries(recorded) \in Seq(ReplayedIds) /\ Len(Entries(recorded)) = Len(recorded)
        /\ \A i \in 1 .. Len(recorded) : Entries(recorded)[i] = Stored(recorded[i]).id
    BY <2>1, EntriesTyped
  <2>3. QED
    BY <1>2, <2>1, <2>2, SeqEqual
<1>4. Log!EndReplay
  BY <1>1, <1>3 DEF Log!EndReplay, Entries, Stored
<1>5. QED
  BY <1>4 DEF Log!LogNext

LEMMA LogBegins ==
  ASSUME DumperInv, ~throws, Replay
  PROVE  [Log!LogNext]_(Log!logVars)
<1>1. /\ throws' = throws /\ recorded' = recorded /\ replayed' = <<>>
      /\ dumper.pc = "idle" /\ dumper'.pc = IF volumes[1].sized THEN "read" ELSE "idle"
  BY DEF Replay, history, DumperInv, Typed, DumperRecords
<1>2. CASE ~volumes[1].sized
  BY <1>1, <1>2, LogDies
<1>3. CASE volumes[1].sized
  <2>1. Log!BeginReplay
    BY <1>1, <1>3 DEF Log!BeginReplay, Stored
  <2>2. QED
    BY <2>1 DEF Log!LogNext
<1>4. QED
  BY <1>2, <1>3

\* Every step of the Dumper is a step of DumperLog or none.
LEMMA LogStep ==
  ASSUME DumperInv, DumperInv', ChainInv, [Next]_vars
  PROVE  [Log!LogNext]_(Log!logVars)
<1>1. throws' = throws
  BY DEF Next, vars, Construct, Die, Destroy, CallbackReturns, Callback, CallbackDies, Write,
         Create, CreateFails, Resize, Header, Data, Publish, Handle, Replay, ReadRecord,
         ReadEnd, ReadFails, Goto, history
<1>2. CASE throws
  BY <1>1, <1>2, LogStutters
<1>3. ASSUME ~throws, Next
      PROVE  [Log!LogNext]_(Log!logVars)
  <2>1. CASE Die \/ CallbackDies
    BY <1>1, <1>3, <2>1, LogDies DEF Die, CallbackDies, NoDumper
  <2>2. CASE CreateFails
    <3>1. /\ recorded' = recorded /\ (replayed' = <<>> \/ replayed' = replayed)
          /\ dumper.pc # "read" /\ dumper'.pc # "read"
      BY <2>2 DEF CreateFails, NoDumper, DumperInv, Typed, DumperRecords
    <3>2. QED
      BY <1>1, <1>3, <3>1, LogDies, LogStutters
  <2>3. CASE Construct \/ Destroy \/ CallbackReturns \/ Callback \/ Handle
    <3>1. /\ UNCHANGED <<recorded, replayed>> /\ dumper.pc # "read" /\ dumper'.pc # "read"
      <4>1. CASE Construct
        BY <4>1 DEF Construct, NoDumper
      <4>2. CASE Destroy
        BY <4>2 DEF Destroy, NoDumper, history, DumperInv, Typed, DumperRecords
      <4>3. CASE CallbackReturns \/ Callback
        BY <4>3 DEF CallbackReturns, Callback, DumperInv, Typed, DumperRecords
      <4>4. CASE Handle
        BY <4>4 DEF Handle, Goto, DumperInv, Typed, DumperRecords
      <4>5. QED
        BY <2>3, <4>1, <4>2, <4>3, <4>4
    <3>2. QED
      BY <1>1, <3>1, LogStutters
  <2>4. CASE Write \/ Create \/ Resize \/ Header \/ Data
    <3>1. /\ UNCHANGED <<recorded, replayed>> /\ dumper.pc # "read" /\ dumper'.pc # "read"
      BY <2>4 DEF Write, Create, Resize, Header, Data, Goto, history, DumperInv, Typed,
                  DumperRecords
    <3>2. QED
      BY <1>1, <3>1, LogStutters
  <2>5. QED
    BY <1>3, <2>1, <2>2, <2>3, <2>4, LogAppends, LogBegins, LogReads, LogReadEnds DEF Next
<1>4. CASE UNCHANGED vars
  BY <1>1, <1>4, LogStutters DEF vars, history
<1>5. QED
  BY <1>2, <1>3, <1>4

LEMMA LogStarts == Init => Log!LogInit
<1> SUFFICES ASSUME Init PROVE Log!LogInit
  OBVIOUS
<1>1. recorded = <<>> /\ replayed = <<>> /\ dumper.pc = "none"
  BY DEF Init, NoDumper
<1>2. Entries(recorded) = <<>>
  BY <1>1, EntriesTyped, EmptySeq
<1>3. QED
  BY <1>1, <1>2 DEF Log!LogInit, Entries

\* A Dumper whose handler does not throw implements DumperLog: over deaths,
\* restarts, rotations and files that fail, and whatever the sizes, a replay
\* hands over every recorded callback, once and in order, and no half-written
\* one (dumper.cpp: write_next moves the position last, read_next goes by it).
THEOREM DumperRefinement == Spec => ImplementsLog
<1>1. Init => Log!LogInit
  BY LogStarts
<1>2. DumperInv /\ DumperInv' /\ ChainInv /\ [Next]_vars => [Log!LogNext]_(Log!logVars)
  BY LogStep
<1>3. QED
  BY <1>1, <1>2, DumperInvAlways, ChainInvAlways, PTL DEF Spec, ImplementsLog, Log!LogSpec

-----------------------------------------------------------------------------
(***************************************************************************)
(* The orderbook-dumper: a replay of a Dumper's file calls what was called *)
(* live, for any number of listeners, of failures and of messages.         *)
(*                                                                         *)
(* Three switches have to agree for that: of listener_base_callback, from  *)
(* a message to a callback; of the Dumper, from a callback to the type of  *)
(* a record; and of replay_recorded_stream, from the type to a callback.   *)
(* RoundTrip is that agreement, and no step of main or of the library      *)
(* writes a record but the one that passes its callback on.                *)
(***************************************************************************)
CONSTANTS MaxFaults, MaxMessages  \* of OrderbookDumper
VARIABLES conn, lsn, main, faults

OD == INSTANCE OrderbookDumper

ServicePlaces == {"start", "first", "loop", "conn close", "conn open", "read", "close",
                  "open", "process", "died"}
ServiceCallbacks == {OD!Dispatch(m) : m \in OD!Messages}
ServiceRecords == {OD!RecordType(OD!Dispatch(m)) : m \in OD!Messages}

\* The types of the variables, those of the two histories included.
ServiceTyped ==
    /\ Listeners \in Nat \ {0} /\ MaxFaults \in Nat
    /\ conn \in OD!State /\ lsn \in [OD!All -> OD!State]
    /\ main \in [pc : ServicePlaces, at : OD!All]
    /\ log \in [OD!All -> Seq(ServiceRecords)] /\ live \in [OD!All -> Seq(ServiceCallbacks)]
    /\ faults \in 0 .. MaxFaults

\* The file of a Dumper, record by record.
Faithful(l) ==
    /\ Len(live[l]) = Len(log[l])
    /\ \A i \in 1 .. Len(log[l]) : live[l][i] = OD!ReplayedAs(log[l][i])

ServiceInv == ServiceTyped /\ \A l \in OD!All : Faithful(l)

-----------------------------------------------------------------------------
\* The three switches agree: on_mq_timeout is not replayed as on_mq_reply, and
\* what has no case of its own is on_unknown_msg_type in all of them.
LEMMA RoundTrip ==
    \A m \in OD!Messages : OD!ReplayedAs(OD!RecordType(OD!Dispatch(m))) = OD!Dispatch(m)
  <1>1. ASSUME NEW m \in OD!Messages
        PROVE  OD!ReplayedAs(OD!RecordType(OD!Dispatch(m))) = OD!Dispatch(m)
    <2>1. OD!Dispatch(m) \in {"on_listener_open", "on_listener_close", "on_transaction_begin",
                           "on_transaction_commit", "on_stream_data", "on_repl_online",
                           "on_repl_lifenum", "on_repl_creardeleted", "on_repl_replstate",
                           "on_mq_reply", "on_mq_timeout", "on_unknown_msg_type"}
      BY DEF OD!Dispatch, OD!Messages
    <2>2. QED  BY <2>1 DEF OD!ReplayedAs, OD!RecordType
  <1>2. QED  BY <1>1

\* main goes on only to places that there are.
LEMMA AfterIsMain ==
    ASSUME ServiceTyped
    PROVE  OD!After \in [pc : ServicePlaces, at : OD!All]
  <1>1. main.at \in OD!All /\ Listeners \in Nat \ {0}
    BY DEF ServiceTyped
  <1>2. CASE main.at = Listeners
    BY <1>2 DEF OD!After, ServiceTyped, ServicePlaces
  <1>3. CASE main.at # Listeners
    <2>1. main.at + 1 \in OD!All  BY <1>1, <1>3 DEF OD!All
    <2>2. QED  BY <2>1, <1>3 DEF OD!After, ServicePlaces
  <1>4. QED  BY <1>2, <1>3

\* One call keeps a file faithful.
LEMMA CallIsRecorded ==
    ASSUME ServiceInv, NEW l \in OD!All, NEW m \in OD!Messages,
           log' = [log EXCEPT ![l] = Append(@, OD!RecordType(OD!Dispatch(m)))],
           live' = [live EXCEPT ![l] = Append(@, OD!Dispatch(m))]
    PROVE  /\ log' \in [OD!All -> Seq(ServiceRecords)] /\ live' \in [OD!All -> Seq(ServiceCallbacks)]
           /\ \A k \in OD!All : Faithful(k)'
  <1> DEFINE c == OD!Dispatch(m)
             r == OD!RecordType(c)
  <1>1. c \in ServiceCallbacks /\ r \in ServiceRecords /\ OD!ReplayedAs(r) = c
    BY RoundTrip DEF ServiceCallbacks, ServiceRecords
  <1>2. log[l] \in Seq(ServiceRecords) /\ live[l] \in Seq(ServiceCallbacks)
    BY DEF ServiceInv, ServiceTyped
  <1> HIDE DEF c, r
  <1>3. log' = [log EXCEPT ![l] = Append(log[l], r)] /\ live' = [live EXCEPT ![l] = Append(live[l], c)]
    BY DEF c, r
  <1>4. log' \in [OD!All -> Seq(ServiceRecords)] /\ live' \in [OD!All -> Seq(ServiceCallbacks)]
    BY <1>1, <1>2, <1>3 DEF ServiceInv, ServiceTyped
  <1>5. log'[l] = Append(log[l], r) /\ live'[l] = Append(live[l], c)
    BY <1>3 DEF ServiceInv, ServiceTyped
  <1>6. Faithful(l)'
    <2>1. Len(live[l]) = Len(log[l]) /\ \A i \in 1 .. Len(log[l]) : live[l][i] = OD!ReplayedAs(log[l][i])
      BY DEF ServiceInv, Faithful
    <2>2. Len(log'[l]) = Len(log[l]) + 1 /\ Len(live'[l]) = Len(log[l]) + 1
      BY <1>1, <1>2, <1>5, <2>1
    <2>3. ASSUME NEW i \in 1 .. Len(log[l]) + 1
          PROVE  live'[l][i] = OD!ReplayedAs(log'[l][i])
      <3>1. CASE i = Len(log[l]) + 1
        <4>1. log'[l][i] = r /\ live'[l][i] = c
          BY <1>1, <1>2, <1>5, <2>1, <3>1
        <4>2. QED  BY <4>1, <1>1
      <3>2. CASE i # Len(log[l]) + 1
        <4>1. i \in 1 .. Len(log[l])  BY <1>2, <3>2
        <4>2. log'[l][i] = log[l][i] /\ live'[l][i] = live[l][i]
          BY <1>1, <1>2, <1>5, <2>1, <4>1
        <4>3. QED  BY <4>1, <4>2, <2>1
      <3>3. QED  BY <3>1, <3>2
    <2>4. QED  BY <2>2, <2>3 DEF Faithful
  <1>7. ASSUME NEW k \in OD!All, k # l
        PROVE  Faithful(k)'
    <2>1. log'[k] = log[k] /\ live'[k] = live[k]
      BY <1>3, <1>7 DEF ServiceInv, ServiceTyped
    <2>2. QED  BY <2>1 DEF ServiceInv, Faithful
  <1>8. QED  BY <1>4, <1>6, <1>7

-----------------------------------------------------------------------------
LEMMA ServiceStarts ==
    ASSUME Listeners \in Nat \ {0}, MaxFaults \in Nat, OD!Init
    PROVE  ServiceInv
  <1>1. 1 \in OD!All /\ 0 \in 0 .. MaxFaults  BY DEF OD!All
  <1>2. main \in [pc : ServicePlaces, at : OD!All]  BY <1>1 DEF OD!Init, ServicePlaces
  <1>3. ServiceTyped  BY <1>1, <1>2 DEF OD!Init, ServiceTyped, OD!State
  <1>4. \A l \in OD!All : Faithful(l)  BY DEF OD!Init, Faithful
  <1>5. QED  BY <1>3, <1>4 DEF ServiceInv

\* A step that records nothing has only its types to keep.
LEMMA ServiceQuietStep ==
    ASSUME ServiceInv, UNCHANGED <<log, live>>,
           conn' \in OD!State, lsn' \in [OD!All -> OD!State],
           main' \in [pc : ServicePlaces, at : OD!All], faults' \in 0 .. MaxFaults
    PROVE  ServiceInv'
  <1>1. ServiceTyped'  BY DEF ServiceInv, ServiceTyped
  <1>2. \A l \in OD!All : Faithful(l)'  BY DEF ServiceInv, Faithful
  <1>3. QED  BY <1>1, <1>2 DEF ServiceInv

LEMMA GotoKeepsPlaces ==
    ASSUME ServiceTyped, NEW pc \in ServicePlaces, OD!Goto(pc)
    PROVE  main' \in [pc : ServicePlaces, at : OD!All]
  BY DEF ServiceTyped, OD!Goto

LEMMA FailuresAreBounded ==
    ASSUME ServiceInv, faults < MaxFaults, faults' = faults + 1
    PROVE  faults' \in 0 .. MaxFaults
  BY DEF ServiceInv, ServiceTyped

-----------------------------------------------------------------------------
LEMMA MainKeepsServiceInv == ServiceInv /\ OD!Main => ServiceInv'
  <1> SUFFICES ASSUME ServiceInv, OD!Main PROVE ServiceInv'  OBVIOUS
  <1>1. /\ ServiceTyped
        /\ conn \in OD!State /\ lsn \in [OD!All -> OD!State] /\ main \in [pc : ServicePlaces, at : OD!All]
        /\ main.at \in OD!All /\ faults \in 0 .. MaxFaults
        /\ Listeners \in Nat \ {0} /\ 1 \in OD!All
    BY DEF ServiceInv, ServiceTyped, OD!All
  <1>2. {"first", "loop", "died", "process", "read", "open", "close", "conn open",
         "conn close"} \subseteq ServicePlaces
    BY DEF ServicePlaces
  <1>3. CASE OD!Start
    <2>1. OD!Goto("first") /\ UNCHANGED <<conn, lsn, log, live, faults>>  BY <1>3 DEF OD!Start
    <2>2. QED  BY <1>1, <1>2, <2>1, GotoKeepsPlaces, ServiceQuietStep
  <1>4. CASE OD!OpenFirst
    <2>1. /\ lsn' = [lsn EXCEPT ![main.at] = "OPENING"]
          /\ UNCHANGED <<conn, log, live, faults>>
          /\ main' = IF main.at = Listeners THEN [pc |-> "loop", at |-> 1]
                     ELSE [main EXCEPT !.at = @ + 1]
      BY <1>4 DEF OD!OpenFirst
    <2>2. lsn' \in [OD!All -> OD!State]  BY <1>1, <2>1 DEF OD!State
    <2>3. main.at # Listeners => main.at + 1 \in OD!All  BY <1>1 DEF OD!All
    <2>4. main' \in [pc : ServicePlaces, at : OD!All]  BY <1>1, <1>2, <2>1, <2>3
    <2>5. QED  BY <1>1, <2>1, <2>2, <2>4, ServiceQuietStep
  <1>5. CASE OD!OpenThrows
    <2>1. OD!Goto("died") /\ UNCHANGED <<conn, lsn, log, live, faults>>  BY <1>5 DEF OD!OpenThrows
    <2>2. QED  BY <1>1, <1>2, <2>1, GotoKeepsPlaces, ServiceQuietStep
  <1>6. CASE OD!ReadConnection
    <2>1. UNCHANGED <<conn, lsn, log, live, faults>>  BY <1>6 DEF OD!ReadConnection
    <2>2. main' \in [pc : ServicePlaces, at : OD!All]  BY <1>1, <1>2, <1>6 DEF OD!ReadConnection
    <2>3. QED  BY <1>1, <2>1, <2>2, ServiceQuietStep
  <1>7. CASE OD!CloseConnection
    <2>1. /\ conn' = "CLOSED" /\ lsn' \in [OD!All -> OD!State] /\ OD!Goto("loop")
          /\ UNCHANGED <<log, live, faults>>
      BY <1>7 DEF OD!CloseConnection
    <2>2. conn' \in OD!State  BY <2>1 DEF OD!State
    <2>3. QED  BY <1>1, <1>2, <2>1, <2>2, GotoKeepsPlaces, ServiceQuietStep
  <1>8. CASE OD!OpenConnection
    <2>1. conn' = "OPENING" /\ OD!Goto("loop") /\ UNCHANGED <<lsn, log, live, faults>>
      BY <1>8 DEF OD!OpenConnection
    <2>2. conn' \in OD!State  BY <2>1 DEF OD!State
    <2>3. QED  BY <1>1, <1>2, <2>1, <2>2, GotoKeepsPlaces, ServiceQuietStep
  <1>9. CASE OD!ReadListener
    <2>1. UNCHANGED <<conn, lsn, log, live, faults>>  BY <1>9 DEF OD!ReadListener
    <2>2. main' \in [pc : ServicePlaces, at : OD!All]
      BY <1>1, <1>2, <1>9, AfterIsMain DEF OD!ReadListener
    <2>3. QED  BY <1>1, <2>1, <2>2, ServiceQuietStep
  <1>10. CASE OD!CloseListener
    <2>1. /\ lsn' = [lsn EXCEPT ![main.at] = "CLOSED"] /\ main' = OD!After
          /\ UNCHANGED <<conn, log, live, faults>>
      BY <1>10 DEF OD!CloseListener
    <2>2. lsn' \in [OD!All -> OD!State]  BY <1>1, <2>1 DEF OD!State
    <2>3. QED  BY <1>1, <2>1, <2>2, AfterIsMain, ServiceQuietStep
  <1>11. CASE OD!OpenListener
    <2>1. /\ lsn' = [lsn EXCEPT ![main.at] = "OPENING"] /\ main' = OD!After
          /\ UNCHANGED <<conn, log, live, faults>>
      BY <1>11 DEF OD!OpenListener
    <2>2. lsn' \in [OD!All -> OD!State]  BY <1>1, <2>1 DEF OD!State
    <2>3. QED  BY <1>1, <2>1, <2>2, AfterIsMain, ServiceQuietStep
  <1>12. CASE OD!Process
    <2>1. OD!Goto("loop") /\ UNCHANGED <<conn, lsn, log, live, faults>>  BY <1>12 DEF OD!Process
    <2>2. QED  BY <1>1, <1>2, <2>1, GotoKeepsPlaces, ServiceQuietStep
  <1>13. QED
    BY <1>3, <1>4, <1>5, <1>6, <1>7, <1>8, <1>9, <1>10, <1>11, <1>12 DEF OD!Main

LEMMA LibraryKeepsServiceInv == ServiceInv /\ OD!Library => ServiceInv'
  <1> SUFFICES ASSUME ServiceInv, OD!Library PROVE ServiceInv'  OBVIOUS
  <1>1. /\ ServiceTyped
        /\ conn \in OD!State /\ lsn \in [OD!All -> OD!State] /\ main \in [pc : ServicePlaces, at : OD!All]
        /\ faults \in 0 .. MaxFaults
    BY DEF ServiceInv, ServiceTyped
  <1>2. {"ERROR", "ACTIVE"} \subseteq OD!State /\ "loop" \in ServicePlaces  BY DEF OD!State, ServicePlaces
  <1>3. CASE OD!ConnectionUp
    <2>1. conn' \in OD!State /\ UNCHANGED <<lsn, main, log, live, faults>>
      BY <1>2, <1>3 DEF OD!ConnectionUp
    <2>2. QED  BY <1>1, <2>1, ServiceQuietStep
  <1>4. CASE OD!ConnectionFails
    <2>1. /\ faults < MaxFaults /\ faults' = faults + 1
          /\ conn' \in OD!State /\ lsn' \in [OD!All -> OD!State] /\ UNCHANGED <<main, log, live>>
      BY <1>2, <1>4 DEF OD!ConnectionFails
    <2>2. QED  BY <1>1, <2>1, FailuresAreBounded, ServiceQuietStep
  <1>5. ASSUME NEW l \in OD!All, OD!ListenerFails(l)
        PROVE  ServiceInv'
    <2>1. /\ faults < MaxFaults /\ faults' = faults + 1
          /\ lsn' = [lsn EXCEPT ![l] = "ERROR"] /\ UNCHANGED <<conn, main, log, live>>
      BY <1>5 DEF OD!ListenerFails
    <2>2. lsn' \in [OD!All -> OD!State]  BY <1>1, <1>2, <2>1
    <2>3. QED  BY <1>1, <2>1, <2>2, FailuresAreBounded, ServiceQuietStep
  <1>6. ASSUME NEW l \in OD!All, OD!ListenerUp(l)
        PROVE  ServiceInv'
    <2>1. /\ lsn' = [lsn EXCEPT ![l] = "ACTIVE"] /\ OD!Goto("loop")
          /\ UNCHANGED <<conn, log, live, faults>>
      BY <1>6 DEF OD!ListenerUp
    <2>2. lsn' \in [OD!All -> OD!State]  BY <1>1, <1>2, <2>1
    <2>3. QED  BY <1>1, <1>2, <2>1, <2>2, GotoKeepsPlaces, ServiceQuietStep
  <1>7. ASSUME NEW l \in OD!All, OD!Message(l)
        PROVE  ServiceInv'
    <2>1. PICK m \in OD!Messages :
             /\ log' = [log EXCEPT ![l] = Append(@, OD!RecordType(OD!Dispatch(m)))]
             /\ live' = [live EXCEPT ![l] = Append(@, OD!Dispatch(m))]
      BY <1>7 DEF OD!Message
    <2>2. OD!Goto("loop") /\ UNCHANGED <<conn, lsn, faults>>  BY <1>7 DEF OD!Message
    <2>3. /\ log' \in [OD!All -> Seq(ServiceRecords)] /\ live' \in [OD!All -> Seq(ServiceCallbacks)]
          /\ \A k \in OD!All : Faithful(k)'
      BY <2>1, CallIsRecorded
    <2>4. ServiceTyped'  BY <1>1, <1>2, <2>2, <2>3, GotoKeepsPlaces DEF ServiceTyped
    <2>5. QED  BY <2>3, <2>4 DEF ServiceInv
  <1>8. QED  BY <1>3, <1>4, <1>5, <1>6, <1>7 DEF OD!Library

LEMMA ServiceStutters == ServiceInv /\ UNCHANGED OD!vars => ServiceInv'
  BY DEF ServiceInv, ServiceTyped, Faithful, OD!vars

-----------------------------------------------------------------------------
LEMMA ServiceInvIsKept ==
    ASSUME Listeners \in Nat \ {0}, MaxFaults \in Nat
    PROVE  OD!Spec => []ServiceInv
  <1>1. ServiceInv /\ [OD!Next]_OD!vars => ServiceInv'
    BY MainKeepsServiceInv, LibraryKeepsServiceInv, ServiceStutters DEF OD!Next
  <1>2. OD!Init => ServiceInv  BY ServiceStarts
  <1>3. QED  BY <1>1, <1>2, PTL DEF OD!Spec

\* A replay of a file calls what the Dumper was called with live, in order and
\* in full, whatever failed and was opened again meanwhile (the callbacks of
\* cgatepp::Dumper and replay_recorded_stream).
THEOREM ReplaysCallWhatWasLive ==
    ASSUME Listeners \in Nat \ {0}, MaxFaults \in Nat
    PROVE  OD!Spec => [](OD!TypeOK /\ ReplayIsLive)
  <1>1. ServiceInv => OD!TypeOK /\ ReplayIsLive
    <2> SUFFICES ASSUME ServiceInv PROVE OD!TypeOK /\ ReplayIsLive  OBVIOUS
    <2>1. /\ main.pc \in ServicePlaces /\ main.at \in OD!All
          /\ conn \in OD!State /\ lsn \in [OD!All -> OD!State] /\ faults \in 0 .. MaxFaults
      BY DEF ServiceInv, ServiceTyped
    <2>2. ASSUME NEW l \in OD!All
          PROVE  /\ log[l] \in Seq(ServiceRecords) /\ live[l] \in Seq(ServiceCallbacks)
                 /\ DOMAIN log[l] = 1 .. Len(log[l]) /\ DOMAIN live[l] = 1 .. Len(log[l])
      BY DEF ServiceInv, ServiceTyped, Faithful
    <2>3. \A l \in OD!All : \A i \in DOMAIN log[l] : log[l][i] \in ServiceRecords
      BY <2>2
    <2>4. OD!TypeOK
      BY <2>1, <2>3 DEF OD!TypeOK, ServicePlaces, ServiceRecords
    <2>5. ASSUME NEW l \in OD!All
          PROVE  live[l] = [i \in DOMAIN log[l] |-> OD!ReplayedAs(log[l][i])]
      <3>1. \A i \in DOMAIN live[l] : live[l][i] = OD!ReplayedAs(log[l][i])
        BY <2>2 DEF ServiceInv, Faithful
      <3>2. live[l] = [i \in DOMAIN live[l] |-> live[l][i]]
        BY <2>2
      <3>3. QED  BY <2>2, <3>1, <3>2
    <2>6. \A l \in All : live[l] = [i \in DOMAIN log[l] |-> ReplayedAs(log[l][i])]
      BY <2>5 DEF All, OD!All, ReplayedAs, OD!ReplayedAs
    <2>7. QED  BY <2>4, <2>6 DEF ReplayIsLive
  <1>2. QED  BY ServiceInvIsKept, <1>1, PTL

=============================================================================
