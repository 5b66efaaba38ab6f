------------------------------ MODULE BinSplit ------------------------------
(***************************************************************************)
(* package/app/CPPBox/src/BinSplit: the sizes of the units of a file that  *)
(* is read in pieces, each unit beginning with one of the heads (the start *)
(* codes 0001 and 001 of H.264).  A head may begin in one piece and end in *)
(* the next, so the end of a piece that could begin one is carried over.   *)
(*                                                                         *)
(* mBuf is bytes 0, 1, ... here; what lies behind the bytes read is        *)
(* indeterminate.                                                          *)
(***************************************************************************)
EXTENDS Integers, FiniteSets, SequencesExt

CONSTANTS
  Byte,           \* bound: the bytes of a file
  Files,          \* the files
  nuhVct,         \* the heads, in the order they are looked for
  bytesPerRead    \* 32 kB in the code

SplitAssumption ==
  /\ Byte # {} /\ Files \subseteq Seq(Byte)
  /\ nuhVct \in Seq(Seq(Byte) \ {<<>>}) /\ nuhVct # <<>>
  /\ bytesPerRead \in Nat \ {0}

VARIABLES
  file,
  at,            \* "check", "read", "find", "carry", "end"
  ftell,         \* bytes read
  feof,
  buf,           \* the bytes in mBuf that were read or carried over
  findStart,     \* findStartAddr, relative to mBuf
  findStartIdx,  \* the same place in the file
  mOldNuh, mNewNuh, \* sizes of the heads of the last two units
  preSize,       \* mMaxNuh->preSize: bytes carried over
  foundBytes,    \* bytes of the unit found in the pieces before
  nuSizeVct,     \* the sizes
  cuts           \* history: where in the file the units begin

vars == <<file, at, ftell, feof, buf, findStart, findStartIdx, mOldNuh, mNewNuh, preSize,
          foundBytes, nuSizeVct, cuts>>

Init ==
  /\ file \in Files
  /\ at = "check" /\ ftell = 0 /\ feof = FALSE /\ buf = <<>>
  /\ findStart = 0 /\ findStartIdx = 0 /\ mOldNuh = 0 /\ mNewNuh = 0 /\ preSize = 0
  /\ foundBytes = 0 /\ nuSizeVct = <<>> /\ cuts = <<>>

getMaxNaluhSzie == Max({Len(nuhVct[k]) : k \in DOMAIN nuhVct})

\* What memory may hold behind the bytes that were read.
Behind == [1 .. getMaxNaluhSzie -> Byte]

\* The file begins with one of the heads, or is refused.
checkAndPreread ==
  /\ at = "check"
  /\ \E junk \in Behind :
     LET first == {k \in DOMAIN nuhVct : IsPrefix(nuhVct[k], file \o junk)}
     IN IF first = {}
        THEN at' = "end" /\ UNCHANGED <<findStart, findStartIdx, mOldNuh, mNewNuh, cuts>>
        ELSE LET n == Len(nuhVct[CHOOSE k \in first : \A l \in first : k <= l])
             IN /\ at' = "read"
                /\ findStart' = n /\ findStartIdx' = n /\ mOldNuh' = n /\ mNewNuh' = n
                /\ cuts' = <<0>>
  /\ UNCHANGED <<file, ftell, feof, buf, preSize, foundBytes, nuSizeVct>>

\* fread: a short read sets feof, and then nothing is looked for in it.
Read ==
  /\ at = "read"
  /\ IF feof
     THEN at' = "last" /\ UNCHANGED <<ftell, feof, buf>>
     ELSE LET n == IF ftell + bytesPerRead <= Len(file) THEN bytesPerRead ELSE Len(file) - ftell
          IN /\ ftell' = ftell + n /\ feof' = (n < bytesPerRead)
             /\ buf' = SubSeq(buf, 1, preSize) \o SubSeq(file, ftell + 1, ftell + n)
             /\ at' = IF n < bytesPerRead THEN "last" ELSE "find"
  /\ UNCHANGED <<file, findStart, findStartIdx, mOldNuh, mNewNuh, preSize, foundBytes, nuSizeVct,
                 cuts>>

HeadAt(k, a) == a + Len(nuhVct[k]) <= Len(buf) /\ IsPrefix(nuhVct[k], SubSeq(buf, a + 1, Len(buf)))

\* memmem with one head after the other: the first place of the first head that is
\* there at all.
Hit(k, a) ==
  /\ a >= findStart /\ HeadAt(k, a)
  /\ \A b \in findStart .. a - 1 : ~HeadAt(k, b)
  /\ \A l \in 1 .. k - 1 : \A b \in findStart .. Len(buf) : ~HeadAt(l, b)

\* Mutant: the bytes found in the pieces before are not cleared.
FindKeeps ==
  /\ at = "find"
  /\ \E k \in DOMAIN nuhVct, a \in 0 .. Len(buf) :
       /\ Hit(k, a)
       /\ nuSizeVct' = Append(nuSizeVct, foundBytes + (a - findStart) + mNewNuh)
       /\ cuts' = Append(cuts, findStartIdx + (a - findStart))
       /\ findStartIdx' = findStartIdx + (a - findStart) + Len(nuhVct[k])
       /\ findStart' = a + Len(nuhVct[k])
       /\ mOldNuh' = mNewNuh /\ mNewNuh' = Len(nuhVct[k])
  /\ foundBytes' = foundBytes
  /\ UNCHANGED <<file, at, ftell, feof, buf, preSize>>

findNextNalu ==
  /\ at = "find"
  /\ \E k \in DOMAIN nuhVct, a \in 0 .. Len(buf) :
       /\ Hit(k, a)
       /\ nuSizeVct' = Append(nuSizeVct, foundBytes + (a - findStart) + mNewNuh)
       /\ cuts' = Append(cuts, findStartIdx + (a - findStart))
       /\ findStartIdx' = findStartIdx + (a - findStart) + Len(nuhVct[k])
       /\ findStart' = a + Len(nuhVct[k])
       /\ mOldNuh' = mNewNuh /\ mNewNuh' = Len(nuhVct[k])
  /\ foundBytes' = 0
  /\ UNCHANGED <<file, at, ftell, feof, buf, preSize>>

\* getPreSize: how much of the end could begin the head.  It looks at the n - 1 bytes
\* before bufEnd = findStartAddr + readedBytes, which is the end of the bytes in
\* mBuf only when findStartAddr = mBuf and nothing was carried: what
\* lies behind them is other[i].  A mismatch does not clear the count.
getPreSize(nuh, other) ==
  LET end == findStart + bytesPerRead
      byte(k) == IF end - k < Len(buf) THEN buf[end - k + 1] ELSE other[k]
      Back == 1 .. Len(nuh) - 1
      hit(j, k) == nuh[j[k] + 1] = byte(k)
      \* how many bytes before this one were found in a row
      j == CHOOSE j \in [Back -> 0 .. Len(nuh) - 2] : \A k \in Back :
             j[k] = IF k + 1 \in Back /\ hit(j, k + 1) THEN j[k + 1] + 1 ELSE 0
      hits == {k \in Back : hit(j, k)}
  IN IF 1 \in hits THEN Cardinality(hits) ELSE 0

\* updateMaxNuh: the first head of which the most could have begun; the rest of
\* the piece is passed over, and the next one is put behind what is carried.
updateMaxNuh ==
  /\ at = "find" /\ ~ \E k \in DOMAIN nuhVct, a \in 0 .. Len(buf) : Hit(k, a)
  /\ \E other \in [1 .. getMaxNaluhSzie - 1 -> Byte] :
       LET pre == [k \in DOMAIN nuhVct |-> getPreSize(nuhVct[k], other)]
           k   == CHOOSE k \in DOMAIN nuhVct : \A l \in DOMAIN nuhVct :
                    pre[l] < pre[k] \/ (pre[l] = pre[k] /\ k <= l)
       IN /\ preSize' = pre[k] /\ buf' = SubSeq(nuhVct[k], 1, pre[k])
          /\ foundBytes' = foundBytes + (ftell - findStartIdx - pre[k])
          /\ findStartIdx' = ftell - pre[k]
  /\ findStart' = 0 /\ at' = "read"
  /\ UNCHANGED <<file, ftell, feof, mOldNuh, mNewNuh, nuSizeVct, cuts>>

\* The last unit, to the end of the file.
LastUnit ==
  /\ at = "last" /\ at' = "end"
  /\ nuSizeVct' = Append(nuSizeVct, foundBytes + (ftell - findStartIdx) + mNewNuh)
  /\ UNCHANGED <<file, ftell, feof, buf, findStart, findStartIdx, mOldNuh, mNewNuh, preSize,
                 foundBytes, cuts>>

RunSplit == Read \/ findNextNalu \/ updateMaxNuh \/ LastUnit

Next == checkAndPreread \/ RunSplit

Spec == Init /\ [][Next]_vars
-----------------------------------------------------------------------------
\* The sizes partition the file: every unit is as long as the way from its head to the
\* next one, and the last one reaches to the end, however heads and pieces fall.
\* BinSplit_main reads the file again by these sizes.
SizesPartition ==
  /\ cuts # <<>> => cuts[1] = 0
  /\ \A k \in 1 .. Len(nuSizeVct) :
       nuSizeVct[k] = (IF k < Len(cuts) THEN cuts[k + 1] ELSE Len(file)) - cuts[k]
  /\ at = "end" => Len(nuSizeVct) = Len(cuts)

Straddles(c) ==
  \E n \in 1 .. Len(file) : c < n * bytesPerRead /\ n * bytesPerRead < c + getMaxNaluhSzie

\* A unit begins with a head: every cut is at a start code of the file, except
\* where the carried bytes were taken for the beginning of one.
CutsAtHeads ==
  \A j \in DOMAIN cuts :
    \/ \E k \in DOMAIN nuhVct : IsPrefix(nuhVct[k], SubSeq(file, cuts[j] + 1, Len(file)))
    \/ Straddles(cuts[j]) \/ Len(file) < getMaxNaluhSzie
=============================================================================
