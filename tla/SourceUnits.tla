---------------------------- MODULE SourceUnits ----------------------------
(***************************************************************************)
(* The source file of an elementary stream as its parsers see it: a        *)
(* sequence of units (frames, access units, segments, NAL units...), each  *)
(* a record with its size in bytes, laid out one after the other.          *)
(***************************************************************************)
EXTENDS Integers, Sequences, SequencesExt

\* tellPos() at the start of the k-th unit, and the length of the file.
Offset(units, k) == FoldLeft(LAMBDA off, u : off + u.size, 0, SubSeq(units, 1, k - 1))
FileSize(units) == Offset(units, Len(units) + 1)

\* isEof(): the reader stands exactly at the end of the file.
AtEof(units, pos) == pos = FileSize(units)

\* The units before a position, and where they end.
UnitsBefore(units, pos) ==
  FoldLeft(LAMBDA b, u : IF b.end < pos THEN [n |-> b.n + 1, end |-> b.end + u.size] ELSE b,
           [n |-> 0, end |-> 0], units)

\* The unit that starts where the reader stands; none when a parser went past
\* the end of a unit, or stopped before it.
AtUnit(units, pos) == LET b == UnitsBefore(units, pos) IN b.end = pos /\ b.n < Len(units)
UnitAt(units, pos) == units[UnitsBefore(units, pos).n + 1]

\* appendAddPesPayloadCommand(): a part of a PES packet copied from the source.
Extent(off, len) == [off |-> off, len |-> len]

\* The extents of the units that a test keeps, in the order of the file.
KeptExtents(units, Keep(_)) ==
  FoldLeftDomain(LAMBDA acc, k : IF Keep(units[k])
                                   THEN Append(acc, Extent(Offset(units, k), units[k].size))
                                   ELSE acc, <<>>, units)

\* Everything a script copies from the source, in its order.
Copied(script) == FoldLeft(LAMBDA acc, f : acc \o f.parts, <<>>, script)

\* No byte of the source is copied twice, or before one that precedes it.
Forward(extents) ==
  \A i \in 1..(Len(extents) - 1) : extents[i].off + extents[i].len <= extents[i + 1].off
=============================================================================
