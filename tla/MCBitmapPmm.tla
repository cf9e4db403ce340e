---------------------------- MODULE MCBitmapPmm ----------------------------
(* Small memory maps for BitmapPmm: words of 4 bits, int of 2, so that a    *)
(* summary word covers 16 frames and the fast range begins at frame 16.     *)
EXTENDS BitmapPmm

R(s, t) == [start |-> s, type |-> t]

\* The usual map: low memory, a hole, then memory up to frame 29 with a hole in it.
PlainMap ==
    <<R(31, "other"), R(25, "avail"), R(24, "other"), R(12, "avail"), R(8, "other"),
      R(0, "avail")>>

\* Low memory too small for the bitmaps: they go to the start of the fast range.  The
\* last entry is repeated.
BitmapsInRangeMap ==
    <<R(27, "other"), R(16, "avail"), R(15, "other"), R(13, "avail"), R(11, "other"),
      R(10, "avail"), R(8, "other"), R(7, "avail"), R(5, "other"), R(4, "avail"),
      R(2, "other"), R(0, "avail"), R(0, "other")>>

\* All memory that is available stores the bitmaps.
AllForBitmapsMap == <<R(20, "other"), R(17, "avail"), R(15, "other"), R(13, "other"),
                      R(11, "other"), R(9, "other"), R(7, "other"), R(5, "other"), 
                      R(3, "other"), R(1, "other"), R(0, "other")>>

\* No region is large enough.
NoSpaceMap == <<R(4, "other"), R(3, "avail"), R(2, "other"), R(1, "avail"), R(0, "other")>>

\* A summary word half of whose bits stay set from the start.
HalfSummaryMap ==
    <<R(32, "other"), R(30, "avail"), R(28, "other"), R(16, "avail"), R(8, "other"),
      R(0, "avail")>>

MCRegionMaps ==
    {PlainMap, BitmapsInRangeMap, AllForBitmapsMap, NoSpaceMap, HalfSummaryMap}
=============================================================================
