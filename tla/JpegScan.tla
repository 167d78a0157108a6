------------------------------- MODULE JpegScan -------------------------------
(***************************************************************************)
(* How the driver finds the markers of a JPEG frame (cam_hal.c): the start *)
(* marker FF D8 FF from the front, and the end marker FF D9 either from    *)
(* the back or, with frames in PSRAM, forward through the last DMA block,  *)
(* four bytes at a time.                                                   *)
(*                                                                         *)
(* One scan of one frame.  Positions count from the start of the frame, as *)
(* cam_take uses them.                                                     *)
(***************************************************************************)
EXTENDS Integers, FiniteSets

CONSTANTS
    Bytes,   \* the byte values that occur
    MaxLen,  \* bound on the length of a frame
    Half     \* dma_node_buffer_size

ASSUME ScanAssumption ==
    /\ Bytes \subseteq 0..255
    /\ MaxLen \in Nat
    /\ Half \in Nat \ {0}

VARIABLES
    length,  \* dma_buffer->len
    frame,   \* the bytes of the frame
    scan,    \* "soi", "forward" (psram_mode) or "backward"
    loop,    \* the loop the scan is in
    i,       \* the position it looks at
    mask,    \* the candidates left in the word at i: offsets 0..3
    found    \* the result; -1 for none

scanVars == <<length, frame, scan, loop, i, mask, found>>
input == <<length, frame, scan>>

SoiLen == 3  \* JPEG_SOI_MARKER_LEN
EoiLen == 2  \* JPEG_EOI_MARKER_LEN

IsSoi(p) == frame[p] = 255 /\ frame[p + 1] = 216 /\ frame[p + 2] = 255
IsEoi(p) == frame[p] = 255 /\ frame[p + 1] = 217

\* Mutant: the window is the last block alone.
EoiProbeWindowShort(n) == IF Half > n THEN n ELSE Half

\* eoi_probe_window: the last block and the byte before it.
EoiProbeWindow(n) == IF Half + EoiLen - 1 > n THEN n ELSE Half + EoiLen - 1

\* Where a scan of n bytes starts, and in which loop; a frame that is too
\* short for a marker is not searched.
FirstPos(s, n) ==
    CASE s = "soi" -> 0
      [] s = "forward" -> n - EoiProbeWindow(n)
      [] s = "backward" -> n - EoiLen
FirstPc(s, n) ==
    IF s = "forward"
    THEN IF EoiProbeWindow(n) < EoiLen THEN "done" ELSE "word"
    ELSE IF n < (IF s = "soi" THEN SoiLen ELSE EoiLen) THEN "done" ELSE s

ScanInit ==
    /\ length \in 0..MaxLen
    /\ frame \in [0..length - 1 -> Bytes]
    /\ scan \in {"soi", "forward", "backward"}
    /\ loop = FirstPc(scan, length)
    /\ i = FirstPos(scan, length)
    /\ mask = {}
    /\ found = -1

\* The end of the scan, with result r.
Finish(r) == loop' = "done" /\ found' = r /\ UNCHANGED <<input, i, mask>>

\* The scan goes on at position p of loop l.
Move(l, p) == loop' = l /\ i' = p /\ UNCHANGED <<input, mask, found>>

-----------------------------------------------------------------------------
(* cam_verify_jpeg_soi *)

SoiStep ==
    /\ loop = "soi"
    /\ IF i > length - SoiLen THEN Finish(-1)
       ELSE IF IsSoi(i) THEN Finish(i) ELSE Move("soi", i + 1)

(* cam_verify_jpeg_eoi, search_forward *)

\* Byte k of x = w ^ 0xFFFFFFFF for the word at i; a borrow enters byte k of
\* x - 0x01010101 from a zero byte through bytes that are at most one.
X(k) == 255 - frame[i + k]
Borrow(k) ==
    IF \E j \in 0..k - 1 : X(j) = 0 /\ \A l \in j + 1..k - 1 : X(l) <= 1 THEN 1 ELSE 0

\* Bit 7 of byte k of ~x & (x - ONE): no high bit in x, one in the difference.
Candidate(k) == X(k) < 128 /\ (X(k) - 1 - Borrow(k)) % 256 >= 128

WordStep ==
    /\ loop = "word"
    /\ IF i + 4 <= length
       THEN /\ loop' = "mask" /\ mask' = {k \in 0..3 : Candidate(k)}
            /\ UNCHANGED <<input, i, found>>
       ELSE Move("tail", i)

\* __builtin_ctz: the lowest candidate.
Lowest(k) == k \in mask /\ \A l \in mask : k <= l

\* Mutant: a candidate in the last byte of the word is not looked at.
MaskStepInWord ==
    /\ loop = "mask"
    /\ IF mask = {} THEN Move("word", i + 4)
       ELSE \E k \in mask :
              /\ Lowest(k)
              /\ IF k < 3 /\ IsEoi(i + k) THEN Finish(i + k)
                 ELSE mask' = mask \ {k} /\ UNCHANGED <<input, loop, i, found>>

MaskStep ==
    /\ loop = "mask"
    /\ IF mask = {} THEN Move("word", i + 4)
       ELSE \E k \in mask :
              /\ Lowest(k)
              /\ IF i + k + EoiLen <= length /\ IsEoi(i + k) THEN Finish(i + k)
                 ELSE mask' = mask \ {k} /\ UNCHANGED <<input, loop, i, found>>

\* The bytes that do not fill a word.
TailStep ==
    /\ loop = "tail"
    /\ IF i + EoiLen > length THEN Finish(-1)
       ELSE IF IsEoi(i) THEN Finish(i) ELSE Move("tail", i + 1)

(* cam_verify_jpeg_eoi, backward *)

BackwardStep ==
    /\ loop = "backward"
    /\ IF IsEoi(i) THEN Finish(i)
       ELSE IF i = 0 THEN Finish(-1) ELSE Move("backward", i - 1)

Stop == loop = "done" /\ UNCHANGED scanVars

ScanNext == SoiStep \/ WordStep \/ MaskStep \/ TailStep \/ BackwardStep \/ Stop

ScanSpec == ScanInit /\ [][ScanNext]_scanVars

-----------------------------------------------------------------------------
(* Properties *)

ScanTypeOK ==
    /\ length \in Nat /\ frame \in [0..length - 1 -> Bytes]
    /\ scan \in {"soi", "forward", "backward"}
    /\ loop \in {"soi", "word", "mask", "tail", "backward", "done"}
    /\ i \in Int /\ mask \subseteq 0..3 /\ found \in Int
    /\ loop # "done" => i \in 0..length

\* The positions whose bytes the next step reads.
Reads ==
    CASE loop = "soi" /\ i <= length - SoiLen -> i..i + SoiLen - 1
      [] loop = "word" /\ i + 4 <= length -> i..i + 3
      [] loop = "mask" ->
           UNION {i + k..i + k + 1 : k \in {l \in mask : Lowest(l) /\ i + l + EoiLen <= length}}
      [] loop = "tail" /\ i + EoiLen <= length -> i..i + EoiLen - 1
      [] loop = "backward" -> i..i + EoiLen - 1
      [] OTHER -> {}

\* No scan reads a byte before or behind the frame, however short the frame
\* and however large the window (cam_verify_jpeg_soi, cam_verify_jpeg_eoi).
ReadsInside == Reads \subseteq 0..length - 1

\* What a scan has before it at most; a word of four bytes pays for its
\* candidates.
Left ==
    CASE loop \in {"soi", "tail"} -> length - i + 1
      [] loop = "backward" -> i + 1
      [] loop = "word" -> 2 * (length - i) + 2
      [] loop = "mask" -> 2 * (length - i) - 4 + Cardinality(mask)
      [] loop = "done" -> 0

\* Every step brings the end of the scan nearer, also where the forward scan
\* goes from loop to loop: no frame keeps cam_task or cam_take for ever.
ScanEnds == [][Left' \in Nat /\ Left' < Left]_scanVars

\* The marker a scan looks for begins at p.
Mark(p) == IF scan = "soi" THEN IsSoi(p) ELSE IsEoi(p)

\* r is the first, the last position in lo..hi with a marker, or -1.
None(lo, hi) == \A p \in lo..hi : ~Mark(p)
First(r, lo, hi) == (r \in lo..hi /\ Mark(r) /\ None(lo, r - 1)) \/ (r = -1 /\ None(lo, hi))
Last(r, lo, hi) == (r \in lo..hi /\ Mark(r) /\ None(r + 1, hi)) \/ (r = -1 /\ None(lo, hi))

\* What a byte-by-byte search would return.
Result(r) ==
    CASE scan = "soi" -> First(r, 0, length - SoiLen)
      [] scan = "backward" -> Last(r, 0, length - EoiLen)
      [] scan = "forward" -> First(r, length - EoiProbeWindow(length), length - EoiLen)

\* The scans find the first start marker, the last end marker and, four bytes
\* at a time, the first end marker of the window (cam_verify_jpeg_soi,
\* cam_verify_jpeg_eoi).
ScanCorrect == loop = "done" => Result(found)

\* An end marker that touches the last DMA block is never missed, not even
\* one that begins in the block before (cam_take on eoi_probe_window).
LastBlockCovered ==
    loop = "done" /\ scan = "forward" =>
        \A p \in 0..length - EoiLen :
            Mark(p) /\ p + EoiLen > length - Half => found \in 0..p

=============================================================================
