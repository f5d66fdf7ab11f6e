----------------------------- MODULE WalFormat -----------------------------
(***************************************************************************)
(* What a reader makes of WAL files: WALWriter::recoverUpTo                *)
(* (wal_writer.cpp:150-173) and the collector that StorageEngine::recover  *)
(* gives it (engine.cpp:67-79).  A file is a sequence of records, whose    *)
(* last one may be torn.  When records follow a torn one, because the file *)
(* was opened again, the reader takes them for the torn record's missing   *)
(* bytes and is out of step from there on: modelled as its stopping there. *)
(***************************************************************************)
EXTENDS Integers, Sequences, FiniteSetsExt, SequencesExt

CONSTANTS OversizedValues,  \* values of more than 64 KiB
          Torn,             \* a record of which only the first bytes were written
          Absent            \* a key that has no record

\* Faulty variant: up to the timestamp, exclusive
ReadableBefore(rec, maxTs) == /\ rec # Torn
                              /\ rec.ts < maxTs
                              /\ rec.val \notin OversizedValues

\* The record can be read and is not too new: the reader stops at the first
\* one that is not so
Readable(rec, maxTs) == /\ rec # Torn
                        /\ rec.ts <= maxTs
                        /\ rec.val \notin OversizedValues

\* The records of one file for which the reader calls back
Scan(file, maxTs) ==
  LET stops == {i \in 1 .. Len(file) : ~Readable(file[i], maxTs)} \cup {Len(file) + 1}
  IN  SubSeq(file, 1, Min(stops) - 1)

\* The records of a file that are whole
Intact(file) ==
  LET intact[i \in 0 .. Len(file)] ==
        IF i = 0 THEN <<>>
        ELSE IF file[i] = Torn THEN intact[i - 1]
        ELSE Append(intact[i - 1], file[i])
  IN  intact[Len(file)]

\* The files in the order in which the directory iterator returns them
Delivered(files, maxTs) == FlattenSeq([i \in DOMAIN files |-> Scan(files[i], maxTs)])

\* The value the collector ends up with for key k: that of the greatest
\* timestamp, and of the first such record in the order of delivery
Collected(records, k) ==
  LET its == {i \in DOMAIN records : records[i].key = k}
      latest == Max({records[i].ts : i \in its})
  IN  IF its = {} THEN Absent
      ELSE records[Min({i \in its : records[i].ts = latest})].val

\* What the log says of key k: the last record up to maxTs, as written
Logged(records, k, maxTs) ==
  LET its == {i \in DOMAIN records : records[i].key = k /\ records[i].ts <= maxTs}
  IN  IF its = {} THEN Absent ELSE records[Max(its)].val
=============================================================================
