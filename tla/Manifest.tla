------------------------------- MODULE Manifest -------------------------------
(***************************************************************************)
(* serialize and deserialize (src/src/index.cpp): the index of a pack as a *)
(* buffer and back.  A field of fixed size (a count, a length, an offset,  *)
(* a hash) is one cell of the buffer, and so is a byte of a path; lengths  *)
(* and positions are of a size_t with as many values as a cell has.        *)
(***************************************************************************)
EXTENDS Integers, Sequences, FiniteSets, SequencesExt

CONSTANTS
  SizeMax,     \* bound: the largest value of a cell, and of a size_t
  Indexes,     \* the indexes that are serialized
  Nothing      \* the value of out before anything was assigned to it

Cell == 0..SizeMax
kIndexMagic == SizeMax

EmptyIndex == [blobs |-> <<>>, paths |-> <<>>]

VARIABLES
  source,   \* the index that was serialized
  kind,     \* what has become of the buffer since
  d,        \* the buffer
  p,        \* the position in it
  pc,       \* what is read next
  left,     \* the entries that the loop has still to read
  idx,      \* the index read so far
  out,      \* where the result goes
  reached   \* history: the last cell read

readVars == <<source, kind, d, p, pc, left, idx, out, reached>>
buffer == <<source, kind, d>>

size == Len(d)

\* Faulty variants, each a bug one could write.
FitsBySum(q, len) == (q + len) % (SizeMax + 1) <= size
WithoutTime(i, nm) == <<Len(nm)>> \o nm \o <<i.paths[nm][1]>>
FitsOneMore(q, len) == len <= ((size - q) % (SizeMax + 1)) + 1

-----------------------------------------------------------------------------
\* serialize: the entry of a blob (its hash, offset, sizes and count), and of a
\* path (its length, the path, its hash and time).
BlobEntry(i, h) == <<h>> \o i.blobs[h]
PathEntry(i, nm) == <<Len(nm)>> \o nm \o i.paths[nm]

\* The entries come in the order of the maps' keys, which their reader does not
\* depend on.
Serialized(i) ==
  LET hs == SetToSeq(DOMAIN i.blobs)
      ns == SetToSeq(DOMAIN i.paths)
  IN <<kIndexMagic, Len(hs)>> \o FlattenSeq([k \in 1..Len(hs) |-> BlobEntry(i, hs[k])])
       \o <<Len(ns)>> \o FlattenSeq([k \in 1..Len(ns) |-> PathEntry(i, ns[k])])

\* blobs has for each hash an offset, two sizes and a count, paths for each path a
\* hash and a time.
IsIndex(i) ==
  /\ i = [blobs |-> i.blobs, paths |-> i.paths]
  /\ IsFiniteSet(DOMAIN i.blobs) /\ DOMAIN i.blobs \subseteq Cell
  /\ i.blobs \in [DOMAIN i.blobs -> [1..4 -> Cell]]
  /\ IsFiniteSet(DOMAIN i.paths) /\ DOMAIN i.paths \subseteq Seq(Cell)
  /\ i.paths \in [DOMAIN i.paths -> [1..2 -> Cell]]

\* An index and its buffer fit in memory.
ASSUME ManifestAssumption ==
  /\ SizeMax \in Nat
  /\ Nothing \notin Indexes
  /\ \A i \in Indexes :
       IsIndex(i) /\ Serialized(i) \in Seq(Cell) /\ Len(Serialized(i)) <= SizeMax

-----------------------------------------------------------------------------
\* get_u32, get_u64, get_bytes: after position q there are len more cells.  (The
\* first two add to q instead: 4 and 8 do not overflow over a buffer in memory.)  The
\* difference is a size_t: it wraps where q is past the end.
Fits(q, len) == len <= (size - q) % (SizeMax + 1)

\* The cells after position q; past the end of the buffer, whatever is there.
Cells(q, len) == [k \in 1..len |-> IF q + k <= size THEN d[q + k] ELSE 0]

\* Where the reader goes on after an entry of a loop, rest entries before its end.
After(state, rest) == IF rest > 0 THEN state ELSE IF state = "blob" THEN "npaths" ELSE "end"

Fail ==
  /\ pc' = "failed"
  /\ UNCHANGED <<buffer, p, left, idx, out, reached>>

\* len cells are read; the position is a size_t.
Take(len) ==
  /\ p' = (p + len) % (SizeMax + 1)
  /\ reached' = p + len
  /\ UNCHANGED <<buffer, out>>

ReadMagic ==
  /\ pc = "magic"
  /\ IF Fits(p, 1) /\ Cells(p, 1)[1] = kIndexMagic
       THEN Take(1) /\ pc' = "nblobs" /\ UNCHANGED <<left, idx>>
       ELSE Fail

\* A count, and whether its loop is entered at all.
ReadCount(count, entry) ==
  /\ pc = count
  /\ IF Fits(p, 1)
       THEN /\ Take(1)
            /\ left' = Cells(p, 1)[1]
            /\ pc' = After(entry, left')
            /\ UNCHANGED idx
       ELSE Fail

\* std::map::emplace keeps an entry that was there.
Emplaced(map, key, value) ==
  [k \in DOMAIN map \cup {key} |-> IF k \in DOMAIN map THEN map[k] ELSE value]

ReadBlob ==
  /\ pc = "blob"
  /\ IF Fits(p, 5)
       THEN /\ Take(5)
            /\ idx' = [idx EXCEPT !.blobs = Emplaced(@, Cells(p, 1)[1], Cells(p + 1, 4))]
            /\ left' = left - 1
            /\ pc' = After("blob", left')
       ELSE Fail

ReadPath ==
  LET len == Cells(p, 1)[1] IN
  /\ pc = "path"
  /\ IF Fits(p, 1) /\ Fits(p + 1, len) /\ Fits(p + 1 + len, 2)
       THEN /\ Take(1 + len + 2)
            /\ idx' = [idx EXCEPT !.paths = Emplaced(@, Cells(p + 1, len), Cells(p + 1 + len, 2))]
            /\ left' = left - 1
            /\ pc' = After("path", left')
       ELSE Fail

\* The result is assigned when all has been read; what follows it is not looked at.
Return ==
  /\ pc = "end"
  /\ out' = idx /\ pc' = "done"
  /\ UNCHANGED <<buffer, p, left, idx, reached>>

ReadInit ==
  /\ source \in Indexes
  /\ LET whole == Serialized(source) IN
     \/ kind = "whole" /\ d = whole
     \/ kind = "cut" /\ \E k \in 0..(Len(whole) - 1) : d = SubSeq(whole, 1, k)
     \/ kind = "altered" /\ \E k \in 1..Len(whole), c \in Cell : d = [whole EXCEPT ![k] = c]
  /\ p = 0 /\ pc = "magic" /\ left = 0
  /\ idx = EmptyIndex /\ out = Nothing /\ reached = 0

ReadNext ==
  \/ ReadMagic \/ ReadCount("nblobs", "blob") \/ ReadBlob
  \/ ReadCount("npaths", "path") \/ ReadPath \/ Return

ReadSpec == ReadInit /\ [][ReadNext]_readVars

-----------------------------------------------------------------------------
(* Properties.                                                             *)

\* A manifest is read back as the index it was written from, by the order and the
\* number of the fields alone.
RoundTrip == kind = "whole" /\ pc \in {"done", "failed"} => out = source

\* No part of a manifest passes for a manifest ("returns false on any truncation",
\* src/src/index.hpp).
TruncationFails == kind = "cut" => out = Nothing

\* Whatever the counts and lengths in it say, nothing after the buffer is read,
\* even if they add up to more than a size_t holds.
InBounds == reached <= size
=============================================================================
