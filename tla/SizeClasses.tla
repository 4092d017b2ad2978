----------------------------- MODULE SizeClasses ----------------------------
(***************************************************************************)
(* The size classes of the segregated heaps: heaplayers/dlheap.h and       *)
(* bins4k.h, bins8k.h, bins16k.h, bins64k.h.  A table is a sequence, so    *)
(* that class i of the code is element i + 1.  Pure operators.             *)
(***************************************************************************)
EXTENDS Integers, Sequences, FiniteSetsExt

CONSTANT BlockHeader     \* sizeof(Header) of the blocks that bins*.h divide

(* The sequence from, from + step ... that ends with to.                   *)
Steps(from, step, to) == [i \in 1 .. ((to - from) \div step) + 1 |-> from + step * (i - 1)]

-----------------------------------------------------------------------------
(* DLBigHeapNS.  The table's last entry, 2147483648, is past TLC's         *)
(* integers and left out.                                                  *)
dlBins ==
  Steps(8, 8, 512) \o Steps(576, 64, 2112) \o Steps(2560, 512, 10752)
  \o Steps(12288, 4096, 40960) \o Steps(65536, 32768, 163840)
  \o [i \in 1 .. 13 |-> 2 ^ (17 + i)]

RECURSIVE log2(_)
log2(sz) == IF sz <= 1 THEN 0 ELSE 1 + log2(sz \div 2)

dlClassSize(i) == dlBins[i + 1]

dlSizeClass(sz) ==
  LET sz1 == sz - 1 IN
  IF sz1 <= 513 THEN sz1 \div 8
  ELSE IF sz1 \div 64 <= 32 THEN 56 + (sz1 \div 64)
  ELSE IF sz1 \div 512 <= 20 THEN 91 + (sz1 \div 512)
  ELSE IF sz1 \div 4096 <= 10 THEN 104 + (sz1 \div 4096)
  ELSE IF sz1 \div 32768 <= 4 THEN 113 + (sz1 \div 32768)
  ELSE IF sz1 \div 262144 <= 2 THEN 118 + (sz1 \div 262144)
  ELSE 120 + log2(sz1 \div 524288)

(* DLSmallHeapNS                                                           *)
smallNumBins       == 8
smallSizeClass(sz) == (sz - 1) \div 8
smallClassSize(i)  == (i + 1) * 8

-----------------------------------------------------------------------------
(* The smallest class whose size is at least sz.                           *)
SlowLookup(bins, sz) == Min({i \in DOMAIN bins : bins[i] >= sz}) - 1

(* A table of the classes of the sizes 8 * i + 1 .. 8 * i + 8, given by    *)
(* the first i of each class.                                              *)
TableLookup(starts, i) == Max({c \in DOMAIN starts : starts[c] <= i}) - 1

bins4k == <<
   8, 16, 24, 32, 40, 48, 56, 64, 72, 80, 88, 96, 104, 112, 120, 128, 152, 176, 208, 248,
   296, 352, 416, 496, 592, 704, 856, 1024, 1224, 1712, 2048, 3416, 4096 - BlockHeader>>
sizeClass4k(sz) ==
  IF sz < 8 THEN 0 ELSE IF sz <= 128 THEN ((sz + 7) \div 8) - 1 ELSE SlowLookup(bins4k, sz)

bins8k == <<
   8, 16, 24, 32, 40, 48, 56, 64, 72, 80, 96, 112, 128, 152, 176, 208, 248, 296, 352,
   416, 496, 592, 704, 840, 1008, 1208, 1448, 1736, 2272, 2720, 3400, 4096 - BlockHeader>>
sizeclasses8k == <<
   0, 1, 2, 3, 4, 5, 6, 7, 8, 9, 10, 12, 14, 16, 19, 22, 26, 31, 37, 44, 52, 62, 74, 88,
   105, 126, 151, 181, 217, 284, 340, 425, 510, 850>>
sizeClass8k(sz) == TableLookup(sizeclasses8k, (sz - 1) \div 8)

bins16k == <<
   8, 16, 24, 32, 40, 56, 80, 112, 160, 224, 320, 456, 648, 920, 1312, 1864, 2656, 3784,
   5392, 5448, 7760, 8176, 11648, 16384 - BlockHeader>>
sizeclasses16k == <<
   0, 1, 2, 3, 4, 5, 7, 10, 14, 20, 28, 40, 57, 81, 115, 164, 233, 332, 473, 674, 681,
   970, 1022, 1456>>
sizeClass16k(sz) == TableLookup(sizeclasses16k, (sz - 1) \div 8)

bins64k ==
  <<8, 16, 24, 32, 40, 48, 56, 64, 72, 80, 96, 112, 128, 152, 176, 208, 248, 296, 352, 416, 496, 592,
    704, 840, 1008, 1208, 1448, 1736, 2080, 2496, 2992, 3584, 4096 - BlockHeader, 4912, 5888, 7064,
    8192 - BlockHeader, 9824, 11784, 12288 - BlockHeader, 14744, 16384 - BlockHeader, 19656,
    20480 - BlockHeader>> \o Steps(24576 - BlockHeader, 4096, 65536 - BlockHeader)
slowGetSizeClass(size) ==
  LET sz == IF size < 8 THEN 8 ELSE size IN
  IF sz <= 80 THEN (sz - 1) \div 8 ELSE SlowLookup(bins64k, sz)

-----------------------------------------------------------------------------
(* Class c of bins is the one for sz: an object of it is large enough, and *)
(* one of the class before is not.                                         *)
Fits(bins, c, sz) == c + 1 \in DOMAIN bins /\ bins[c + 1] >= sz /\ (c > 0 => bins[c] < sz)

(* An object of the class that a size is looked up in is large enough, up  *)
(* to the largest object; only dlheap.h's classes are not the smallest     *)
(* possible.                                                               *)
ClassesFit(sz) ==
  /\ sz <= 2 ^ 30 => dlClassSize(dlSizeClass(sz)) >= sz
  /\ sz <= 64 => /\ smallSizeClass(sz) < smallNumBins
                 /\ smallClassSize(smallSizeClass(sz)) \in sz .. sz + 7
  /\ sz <= 4096 - BlockHeader  => /\ Fits(bins4k, sizeClass4k(sz), sz)
                                  /\ Fits(bins8k, sizeClass8k(sz), sz)
  /\ sz <= 16384 - BlockHeader => Fits(bins16k, sizeClass16k(sz), sz)
  /\ sz <= 32768 - BlockHeader => Fits(bins64k, slowGetSizeClass(sz), sz)

(* The sizes around the end of each class, where a class is off by one.    *)
Boundaries ==
  UNION {{b - 1, b, b + 1} : b \in {dlBins[i] : i \in DOMAIN dlBins} \cup
         {bins4k[i] : i \in DOMAIN bins4k} \cup {bins8k[i] : i \in DOMAIN bins8k} \cup
         {bins16k[i] : i \in DOMAIN bins16k} \cup {bins64k[i] : i \in DOMAIN bins64k}}
=============================================================================
