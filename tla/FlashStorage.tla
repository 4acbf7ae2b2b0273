---------------------------- MODULE FlashStorage ----------------------------
(***************************************************************************)
(* The record storage on the AT45 data flash (flash_storage_at45dbxx.c):   *)
(* the catalog area and one record area, each a ring of slots that is      *)
(* appended to.  A slot is page_per_record pages.  At boot the newest      *)
(* catalog is searched for, the map of the area it holds is brought up to  *)
(* date by a search of the area itself, and the result is saved as a new   *)
(* catalog.  The power may fail at any moment, and a page that is being    *)
(* programmed then may be left torn or erased.                             *)
(***************************************************************************)
EXTENDS Naturals, FiniteSets

CONSTANTS
    CatSlots,   \* slots of the catalog area (32 in application.c)
    Slots,      \* slots of the record area (32, 960, 384)
    Span,       \* page_per_record of the record area (1 or 8)
    Sector,     \* how far a search looks past a stale slot, in pages (8)
    Retries,    \* MAX_RETRY_TIMES
    MaxWrites,  \* bound: records written
    MaxBoots    \* bound: catalogs written, one for each boot

ASSUME StorageAssumption ==
    /\ {CatSlots, Slots, Span, Sector, Retries, MaxWrites, MaxBoots} \subseteq Nat \ {0}
    /\ CatSlots > 1 /\ Slots > 1

VARIABLES
    cat,      \* the slots of the catalog area
    rec,      \* the slots of the record area
    catMap,   \* storage_maps[RECORD_CATALOG]
    map,      \* storage_maps of the record area
    pc,       \* "off", "ready", or inside write_record: "moved", "wrapped",
              \* "program", "verify"
    job,      \* the write in progress
    ask,      \* the read of the console in progress, NoAsk if none
    written,  \* number of the last record handed to write_record
    acked,    \* history: the last record write_record returned true for
    blanks,   \* history: slots left erased since the catalog in flash
    cut       \* history: the last power failure left one that is not counted yet

vars == <<cat, rec, catMap, map, pc, job, ask, written, acked, blanks, cut>>

Areas == {"catalog", "record"}
NoAsk == [index |-> Slots, page |-> 0]
Idle == [area |-> "record", tries |-> 0, intact |-> FALSE]

\* storage_map.current_id and current_page (as a slot) of an unused area
Unused == [id |-> 0, slot |-> 0]

\* A slot holds a record with a good CRC, or is torn, or erased (ILLEGAL_ID).
Good(id, body) == [kind |-> "good", id |-> id, body |-> body]
Torn == [kind |-> "torn"]
Blank == [kind |-> "blank"]

(***************************************************************************)
(* scan_flash                                                              *)
(***************************************************************************)
\* forward: how many slots that hold nothing newer a search passes
Forward(span) == IF Sector \div span < 2 THEN 2 ELSE Sector \div span

\* Faulty Look: a torn slot counts like a stale one.
ImpatientLook(ring, seen, k) ==
    LET r == ring[k] IN
    IF r.kind = "good" /\ r.id > seen.id
    THEN [seen EXCEPT !.id = r.id, !.slot = k] ELSE [seen EXCEPT !.left = @ - 1]

\* One turn of the search: what it knows after looking at slot k.
Look(ring, seen, k) ==
    LET r == ring[k] IN
    IF r.kind = "good"
    THEN IF r.id > seen.id
         THEN [seen EXCEPT !.id = r.id, !.slot = k]
         ELSE [seen EXCEPT !.left = @ - 1]
    ELSE IF r.kind = "blank" THEN [seen EXCEPT !.left = @ - 1] ELSE seen

\* What a search of a ring of n slots knows after k turns, begun with the map m.
Search(ring, n, m, span) ==
    LET Seen[k \in 0 .. n] ==
            IF k = 0 THEN [id |-> m.id, slot |-> m.slot, left |-> Forward(span)]
            ELSE IF Seen[k - 1].left = 0 THEN Seen[k - 1]
            ELSE Look(ring, Seen[k - 1], (m.slot + k - 1) % n)
    IN  Seen

\* The map it leaves.
ScanFlash(ring, n, m, span) ==
    LET end == Search(ring, n, m, span)[n] IN [id |-> end.id, slot |-> end.slot]

(***************************************************************************)
(* Boot: flash_storage_init                                                *)
(***************************************************************************)
\* Faulty Moved: the newest record is written over.
InPlaceMoved(m) == m

\* write_record: the map moves on before anything is written; an area that
\* was never written begins with its first slot.
Moved(m)      == IF m.id = 0 THEN m ELSE [m EXCEPT !.slot = @ + 1]
Wrapped(m, n) == IF m.slot = n THEN [m EXCEPT !.slot = 0] ELSE m
Counted(m)    == [m EXCEPT !.id = @ + 1]

Advance(m, n) == Counted(Wrapped(Moved(m), n))

Begin(area) == job' = [area |-> area, tries |-> Retries, intact |-> TRUE]

\* The catalog's own search, the map it holds, repair_map, and the first half
\* of the save.  Nothing is written before that, so one action does.
Boot ==
    LET found == ScanFlash(cat, CatSlots, Unused, 1)
        stored == IF found.id = 0 THEN Unused ELSE cat[found.slot].body
    IN
    /\ pc = "off" /\ found.id < MaxBoots
    /\ catMap' = Advance(found, CatSlots)
    /\ map' = ScanFlash(rec, Slots, stored, Span)
    /\ Begin("catalog")
    /\ pc' = "program"
    /\ UNCHANGED <<cat, rec, ask, written, acked, blanks, cut>>

(***************************************************************************)
(* flash_storage_entry: a record is taken from the mailbox and written with *)
(* the lock held.  The console has the higher priority: it may look at the *)
(* map between any two of these steps.                                     *)
(***************************************************************************)
WriteRecord ==
    /\ pc = "ready" /\ ask = NoAsk /\ written < MaxWrites
    /\ written' = written + 1
    /\ map' = Moved(map)
    /\ pc' = "moved"
    /\ UNCHANGED <<cat, rec, catMap, job, ask, acked, blanks, cut>>

Wrap ==
    /\ pc = "moved"
    /\ map' = Wrapped(map, Slots)
    /\ pc' = "wrapped"
    /\ UNCHANGED <<cat, rec, catMap, job, ask, written, acked, blanks, cut>>

Count ==
    /\ pc = "wrapped"
    /\ map' = Counted(map)
    /\ Begin("record")
    /\ pc' = "program"
    /\ UNCHANGED <<cat, rec, catMap, ask, written, acked, blanks, cut>>

\* What the program operation leaves in the slot of the job's area.
Leave(r) ==
    IF job.area = "catalog"
    THEN cat' = [cat EXCEPT ![catMap.slot] = r] /\ UNCHANGED rec
    ELSE rec' = [rec EXCEPT ![map.slot] = r] /\ UNCHANGED cat

\* The record tmp was filled with.
Record == IF job.area = "catalog" THEN Good(catMap.id, map) ELSE Good(map.id, written)

\* rt_device_write: succeeds, or leaves the slot torn or erased; a buffer that
\* is itself a failed read-back can leave no good record.  Assumed of the flash:
\* the erasure built into a write takes place, for check_crc compares no number and
\* would take the record that was in the slot before for the one written.
Program ==
    /\ pc = "program"
    /\ \E r \in {Record, Torn, Blank} : (r = Record => job.intact) /\ Leave(r)
    /\ pc' = "verify"
    /\ UNCHANGED <<catMap, map, job, ask, written, acked, blanks, cut>>

Target == IF job.area = "catalog" THEN cat[catMap.slot] ELSE rec[map.slot]

\* A search gives up after Forward slots that hold nothing newer; the slot it
\* starts from is one of them, so this many erased ones may lie before the newest.
Searchable == blanks < Forward(Span) - 1

\* The erased slot a power failure left counts when the next boot can not save its
\* catalog: the search after that has to pass it as well.
CountedCut == blanks' = (IF cut THEN blanks + 1 ELSE blanks) /\ cut' = FALSE

\* rt_device_read into the same buffer and check_crc.  (A saved catalog starts
\* the count of erased slots anew, unless they already hid a record.)
VerifyGood ==
    /\ pc = "verify" /\ Target.kind = "good"
    /\ pc' = "ready" /\ job' = Idle
    /\ IF job.area = "record" THEN acked' = written /\ UNCHANGED <<blanks, cut>>
       ELSE IF Searchable THEN blanks' = 0 /\ cut' = FALSE /\ UNCHANGED acked
       ELSE CountedCut /\ UNCHANGED acked
    /\ UNCHANGED <<cat, rec, catMap, map, ask, written>>

\* The CRC is wrong, of the slot or of the transfer: the next attempt writes
\* what was read.
VerifyBad ==
    /\ pc = "verify" /\ job.tries > 1
    /\ job' = [job EXCEPT !.tries = @ - 1, !.intact = FALSE]
    /\ pc' = "program"
    /\ UNCHANGED <<cat, rec, catMap, map, ask, written, acked, blanks, cut>>

\* After the last attempt the record is given up.
GiveUp ==
    /\ pc = "verify" /\ job.tries = 1
    /\ pc' = "ready" /\ job' = Idle
    /\ IF job.area = "catalog" THEN CountedCut
       ELSE /\ blanks' = IF Target.kind = "blank" THEN blanks + 1 ELSE blanks
            /\ UNCHANGED cut
    /\ UNCHANGED <<cat, rec, catMap, map, ask, written, acked>>

(***************************************************************************)
(* flash_storage_read                                                      *)
(***************************************************************************)
\* Faulty PageOf: the first page of the area counts as outside it.
OffByOnePageOf(index) ==
    LET back == index * Span
        page == map.slot * Span
    IN  IF back < page THEN page - back ELSE page + (Slots * Span - 1) - back

\* The page, counted from the start of the area, of the record written index
\* records ago.
PageOf(index) ==
    LET back == index * Span
        page == map.slot * Span
    IN  IF back <= page THEN page - back ELSE page + (Slots * Span - 1) - back

Served(index) == map.id > index /\ index < (Slots * Span - 1) \div Span

\* What is read at a page: a slot, or a torn one when the pages belong to two
\* records (check_crc).  Behind the area is no record of it: a record of several
\* pages can not be good there.  (One of one page could, of the next area; the areas
\* with such records are read at the start only.)
ReadPage(page) ==
    IF page % Span # 0 THEN Torn ELSE IF page = Slots * Span THEN Blank ELSE rec[page \div Span]

ReadRecord(index) == IF Served(index) THEN ReadPage(PageOf(index)) ELSE Torn

\* Faulty Unlocked: the lock is not waited for.
NeverLocked == pc # "off"

\* storage_lock
Unlocked == pc = "ready"

\* The console preempts the flash thread inside write_record, computes the page
\* and waits for the lock.  With the lock free it reads at once: ReadRecord.
ReadBegin ==
    /\ pc \in {"moved", "wrapped"} \/ (pc \in {"program", "verify"} /\ job.area = "record")
    /\ ask = NoAsk
    /\ \E n \in 0 .. Slots - 1 :
          Served(n) /\ ask' = [index |-> n, page |-> PageOf(n)]
    /\ UNCHANGED <<cat, rec, catMap, map, pc, job, written, acked, blanks, cut>>

\* Nothing comes between the release of the lock and the read.
ReadEnd ==
    /\ ask # NoAsk /\ Unlocked
    /\ ask' = NoAsk
    /\ UNCHANGED <<cat, rec, catMap, map, pc, job, written, acked, blanks, cut>>

\* The number of records the protocol reports (serial_util.c, command 0xd1).
Reported == IF map.id < Slots THEN map.id ELSE Slots

(***************************************************************************)
(* Power failure                                                           *)
(***************************************************************************)
\* Power failure or reset: the slot being programmed holds anything between
\* what it held and the new record; the maps in RAM are lost.
Crash ==
    /\ pc # "off"
    /\ \/ UNCHANGED <<cat, rec>>
       \/ pc = "program" /\ \E r \in {Torn, Blank} : Leave(r)
    /\ IF pc \notin {"program", "verify"} THEN UNCHANGED <<blanks, cut>>
       ELSE IF job.area = "catalog" THEN CountedCut
       ELSE cut' = (rec'[map.slot].kind = "blank") /\ UNCHANGED blanks
    /\ pc' = "off" /\ job' = Idle /\ map' = Unused /\ catMap' = Unused /\ ask' = NoAsk
    /\ UNCHANGED <<written, acked>>

Init ==
    /\ cat = [k \in 0 .. CatSlots - 1 |-> Blank]
    /\ rec = [k \in 0 .. Slots - 1 |-> Blank]
    /\ catMap = Unused /\ map = Unused
    /\ pc = "off" /\ job = Idle /\ ask = NoAsk
    /\ written = 0 /\ acked = 0 /\ blanks = 0 /\ cut = FALSE

Next == \/ Boot \/ WriteRecord \/ Wrap \/ Count \/ Program \/ VerifyGood \/ VerifyBad
        \/ GiveUp \/ ReadBegin \/ ReadEnd \/ Crash

Spec == Init /\ [][Next]_vars

Newest == rec[map.slot]

(***************************************************************************)
(* Properties                                                              *)
(***************************************************************************)
\* Fewer records in a row failed than the ring has slots.
RingNotLost == acked > 0 /\ written - acked < Slots

\* Whatever write the power failed in, and however many boots were interrupted,
\* the boot search ends at the newest record that write_record reported as
\* written, or at a later one that was complete without being reported.
NewestFound ==
    (pc \in {"program", "verify"} /\ job.area = "catalog" /\ Searchable /\ RingNotLost) =>
        Newest.kind = "good" /\ Newest.body >= acked

\* A record is never written over while it is the only one the next boot could
\* find: the last reported record stays in the flash until a newer one is good,
\* through retries, failed writes and crashes, unless the whole ring fails.
LastReportedKept ==
    (Searchable /\ RingNotLost) => \E k \in 0 .. Slots - 1 : rec[k].kind = "good" /\ rec[k].body >= acked

\* As far as the ring has not wrapped, index n reads the record written n
\* records before the newest, if it was written at all.
ReadsWithinLap ==
    pc = "ready" => \A n \in 0 .. Slots - 2 :
        (n <= map.slot /\ n < map.id /\ rec[map.slot - n].kind = "good") =>
            ReadRecord(n) = rec[map.slot - n]

\* As long as a boot finds the newest record, a read is answered with the record
\* asked for, counted from the newest when the answer is given, or with nothing:
\* though the page was computed while the map was moving, past the end of the area
\* for a moment, and before the lock was free, and though the way back over the
\* start of the area is a page short.
ReadsAskedOrNothing ==
    (Searchable /\ ask # NoAsk /\ Unlocked /\ ReadPage(ask.page).kind = "good") =>
        ReadPage(ask.page).id = map.id - ask.index

\* Command 0xd1 reports the number of fault records, command 0xE0 reads the
\* fault record of an index: each of those records that is in the flash can be read.
ReportedReadable ==
    pc = "ready" => \A n \in 0 .. Reported - 1 :
        (\E k \in 0 .. Slots - 1 : rec[k].kind = "good" /\ rec[k].id = map.id - n) =>
            ReadRecord(n).kind = "good" /\ ReadRecord(n).id = map.id - n

=============================================================================
