---------------------------- MODULE JpegScanProofs ----------------------------
(***************************************************************************)
(* For every length, content and block size: the marker scans return what  *)
(* a byte-by-byte search would, a marker that touches the last block is    *)
(* found, no byte outside the frame is read, and every scan ends.          *)
(***************************************************************************)
EXTENDS JpegScan, FiniteSetTheorems, TLAPS

\* The markers a scan has passed when it is in loop l at position p with
\* candidates m: none before its position, none at the offsets of the word
\* at hand that are no candidates any more.
Start == length - EoiProbeWindow(length)
Passed(l, p, m) ==
    /\ l = "soi" => scan = "soi" /\ p + SoiLen <= length + 1 /\ None(0, p - 1)
    /\ l \in {"word", "mask", "tail"} =>
         /\ scan = "forward" /\ Start <= p
         /\ \A q \in Start..p - 1 : q + EoiLen <= length => ~Mark(q)
    /\ l = "mask" =>
         /\ p + 4 <= length
         /\ \A k \in 0..3 \ m : p + k + EoiLen <= length => ~Mark(p + k)
    /\ l = "backward" =>
         scan = "backward" /\ p + EoiLen <= length /\ None(p + 1, length - EoiLen)

ScanInv == ScanTypeOK /\ Passed(loop, i, mask) /\ ScanCorrect

\* The window begins inside the frame and holds the last block.
LEMMA WindowLemma ==
    ASSUME NEW n \in Nat
    PROVE  /\ EoiProbeWindow(n) \in 0..n
           /\ EoiProbeWindow(n) = n \/ EoiProbeWindow(n) = Half + 1
BY ScanAssumption, SMT DEF EoiProbeWindow, EoiLen

\* A first marker byte is always a candidate, whatever borrows reach it.
LEMMA CandidateLemma ==
    ASSUME ScanTypeOK, i >= 0, i + 4 <= length, NEW k \in 0..3, frame[i + k] = 255
    PROVE  Candidate(k)
<1>1. X(k) = 0
  BY SMT DEF X
<1>2. Borrow(k) \in {0, 1}
  BY DEF Borrow
<1>3. (X(k) - 1 - Borrow(k)) % 256 >= 128
  <2> DEFINE d == X(k) - 1 - Borrow(k)
  <2>1. d \in {-1, -2}
    BY <1>1, <1>2, SMT
  <2> HIDE DEF d
  <2>2. \A z \in {-1, -2} : z % 256 >= 128
    BY Z3
  <2>3. d % 256 >= 128
    BY <2>1, <2>2
  <2>4. QED
    BY <2>3 DEF d
<1>4. QED
  BY <1>1, <1>3, SMT DEF Candidate

\* Marks and the window depend on the input alone.
LEMMA InputLemma ==
    ASSUME UNCHANGED input
    PROVE  /\ \A l, p, m : Passed(l, p, m)' <=> Passed(l, p, m)
           /\ \A r : Result(r)' <=> Result(r)
<1>1. \A p : Mark(p)' <=> Mark(p)
  BY DEF input, Mark, IsSoi, IsEoi
<1>2. Start' = Start /\ length' = length /\ scan' = scan
  BY DEF input, Start, EoiProbeWindow
<1>3. \A lo, hi : None(lo, hi)' <=> None(lo, hi)
  BY <1>1 DEF None
<1>4. \A l, p, m : Passed(l, p, m)' <=> Passed(l, p, m)
  BY <1>1, <1>2, <1>3 DEF Passed
<1>5. \A r : Result(r)' <=> Result(r)
  BY <1>1, <1>2, <1>3 DEF Result, First, Last, Start
<1>6. QED
  BY <1>4, <1>5

\* A scan may end with r if r is right.
LEMMA FinishLemma ==
    ASSUME ScanTypeOK, NEW r \in Int, Finish(r), Result(r)
    PROVE  ScanInv'
<1>1. ScanTypeOK'
  BY DEF ScanTypeOK, Finish, input
<1>2. Passed(loop, i, mask)'
  BY DEF Finish, Passed
<1>3. ScanCorrect'
  BY InputLemma DEF Finish, ScanCorrect
<1>4. QED
  BY <1>1, <1>2, <1>3 DEF ScanInv

\* A scan may go on at p if it has passed no marker.
LEMMA MoveLemma ==
    ASSUME ScanTypeOK, NEW l \in {"soi", "word", "tail", "backward"}, NEW p \in 0..length,
           Move(l, p), Passed(l, p, mask)
    PROVE  ScanInv'
<1>1. ScanTypeOK'
  BY SMT DEF ScanTypeOK, Move, input
<1>2. Passed(l, p, mask)'
  BY InputLemma DEF Move, Passed
<1>3. Passed(loop, i, mask)'
  BY <1>2 DEF Move
<1>4. ScanCorrect'
  BY DEF Move, ScanCorrect
<1>5. QED
  BY <1>1, <1>3, <1>4 DEF ScanInv

THEOREM ScanStarts == ScanInit => ScanInv
<1> SUFFICES ASSUME ScanInit PROVE ScanInv
  OBVIOUS
<1>0. length \in Nat
  BY ScanAssumption DEF ScanInit
<1>1. /\ EoiProbeWindow(length) \in 0..length
      /\ EoiProbeWindow(length) = length \/ EoiProbeWindow(length) = Half + 1
  BY <1>0, WindowLemma
<1>2. ScanTypeOK
  BY <1>0, <1>1, SMT DEF ScanInit, ScanTypeOK, FirstPc, FirstPos, SoiLen, EoiLen
<1>3. Passed(loop, i, mask)
  BY <1>0, <1>1, SMT DEF ScanInit, Passed, Start, None, FirstPc, FirstPos, SoiLen, EoiLen
<1>4. ScanCorrect
  <2> SUFFICES ASSUME loop = "done" PROVE Result(found)
    BY DEF ScanCorrect
  <2>1. found = -1
    BY DEF ScanInit
  <2>2. CASE scan = "soi"
    <3>1. length < 3
      BY <2>2 DEF ScanInit, FirstPc, SoiLen
    <3>2. None(0, length - SoiLen)
      BY <1>0, <3>1, SMT DEF None, SoiLen
    <3>3. QED
      BY <2>1, <2>2, <3>2 DEF Result, First
  <2>3. CASE scan = "backward"
    <3>1. length < 2
      BY <2>3 DEF ScanInit, FirstPc, EoiLen
    <3>2. None(0, length - EoiLen)
      BY <1>0, <3>1, SMT DEF None, EoiLen
    <3>3. QED
      BY <2>1, <2>3, <3>2 DEF Result, Last
  <2>4. CASE scan = "forward"
    <3>1. EoiProbeWindow(length) < 2
      BY <2>4 DEF ScanInit, FirstPc, EoiLen
    <3>2. None(length - EoiProbeWindow(length), length - EoiLen)
      BY <1>0, <1>1, <3>1, SMT DEF None, EoiLen
    <3>3. QED
      BY <2>1, <2>4, <3>2 DEF Result, First
  <2>5. QED
    BY <1>2, <2>2, <2>3, <2>4 DEF ScanTypeOK
<1>5. QED
  BY <1>2, <1>3, <1>4 DEF ScanInv

LEMMA SoiStepLemma == ScanInv /\ SoiStep => ScanInv'
<1> SUFFICES ASSUME ScanInv, SoiStep PROVE ScanInv'
  OBVIOUS
<1>0. /\ scan = "soi" /\ i \in 0..length /\ length \in Nat
      /\ i + 3 <= length + 1 /\ \A q \in 0..i - 1 : ~Mark(q)
  BY DEF ScanInv, ScanTypeOK, SoiStep, Passed, None, SoiLen
<1>1. CASE i > length - SoiLen
  <2>1. None(0, length - SoiLen)
    BY <1>0, <1>1, SMT DEF None, SoiLen
  <2>2. Result(-1)
    BY <1>0, <2>1 DEF Result, First
  <2>3. QED
    BY <1>1, <2>2, FinishLemma DEF SoiStep, ScanInv
<1>2. CASE ~(i > length - SoiLen) /\ IsSoi(i)
  <2>1. i \in 0..length - SoiLen /\ Mark(i) /\ None(0, i - 1)
    BY <1>0, <1>2, SMT DEF None, Mark, SoiLen
  <2>2. Result(i)
    BY <1>0, <2>1 DEF Result, First
  <2>3. QED
    BY <1>2, <2>2, FinishLemma DEF SoiStep, ScanInv, ScanTypeOK
<1>3. CASE ~(i > length - SoiLen) /\ ~IsSoi(i)
  <2>1. ~Mark(i)
    BY <1>0, <1>3 DEF Mark
  <2>2. i + 1 \in 0..length /\ (i + 1) + 3 <= length + 1
    BY <1>0, <1>3, SMT DEF SoiLen
  <2>3. \A q \in 0..(i + 1) - 1 : ~Mark(q)
    BY <1>0, <2>1, SMT
  <2>4. Passed("soi", i + 1, mask)
    BY <1>0, <2>2, <2>3 DEF Passed, None, SoiLen
  <2>5. Move("soi", i + 1)
    BY <1>3 DEF SoiStep
  <2>6. QED
    BY <2>2, <2>4, <2>5, MoveLemma DEF ScanInv
<1>4. QED
  BY <1>1, <1>2, <1>3

\* What the invariant says in the three loops of the forward scan.
LEMMA ForwardLemma ==
    ASSUME ScanInv, loop \in {"word", "mask", "tail"}
    PROVE  /\ scan = "forward" /\ length \in Nat /\ i \in 0..length
           /\ Start \in 0..length /\ Start <= i
           /\ \A q \in Start..i - 1 : q + EoiLen <= length => ~Mark(q)
<1>1. length \in Nat /\ i \in 0..length
  BY DEF ScanInv, ScanTypeOK
<1>2. Start \in 0..length
  BY <1>1, WindowLemma, SMT DEF Start
<1>3. QED
  BY <1>1, <1>2 DEF ScanInv, Passed

LEMMA WordStepLemma == ScanInv /\ WordStep => ScanInv'
<1> SUFFICES ASSUME ScanInv, WordStep PROVE ScanInv'
  OBVIOUS
<1>0. /\ scan = "forward" /\ length \in Nat /\ i \in 0..length
      /\ Start \in 0..length /\ Start <= i
      /\ \A q \in Start..i - 1 : q + EoiLen <= length => ~Mark(q)
  BY ForwardLemma DEF WordStep
<1>1. CASE i + 4 <= length
  <2>1. loop' = "mask" /\ mask' = {k \in 0..3 : Candidate(k)} /\ UNCHANGED <<input, i, found>>
    BY <1>1 DEF WordStep
  <2>2. \A k \in 0..3 : Mark(i + k) => Candidate(k)
    BY <1>0, <1>1, CandidateLemma DEF ScanInv, Mark, IsEoi
  <2>3. \A k \in 0..3 \ mask' : i + k + EoiLen <= length => ~Mark(i + k)
    BY <2>1, <2>2
  <2>4. UNCHANGED input
    BY <2>1
  <2>5. Passed(loop, i, mask)'
    BY <1>0, <1>1, <2>1, <2>3, <2>4, InputLemma DEF Passed, Start, EoiProbeWindow, Mark, IsEoi, IsSoi, input
  <2>6. ScanTypeOK'
    BY <1>0, <2>1 DEF ScanInv, ScanTypeOK, input
  <2>7. QED
    BY <2>1, <2>5, <2>6 DEF ScanInv, ScanCorrect
<1>2. CASE ~(i + 4 <= length)
  <2>1. Passed("tail", i, mask)
    BY <1>0 DEF Passed
  <2>2. QED
    BY <1>0, <1>2, <2>1, MoveLemma DEF WordStep, ScanInv
<1>3. QED
  BY <1>1, <1>2

LEMMA MaskStepLemma == ScanInv /\ MaskStep => ScanInv'
<1> SUFFICES ASSUME ScanInv, MaskStep PROVE ScanInv'
  OBVIOUS
<1>0. /\ scan = "forward" /\ length \in Nat /\ i \in 0..length
      /\ Start \in 0..length /\ Start <= i
      /\ \A q \in Start..i - 1 : q + EoiLen <= length => ~Mark(q)
  BY ForwardLemma DEF MaskStep
<1>m. /\ mask \subseteq 0..3 /\ i + 4 <= length
      /\ \A k \in 0..3 \ mask : i + k + EoiLen <= length => ~Mark(i + k)
  BY DEF ScanInv, ScanTypeOK, MaskStep, Passed
<1>1. CASE mask = {}
  <2>1. \A q \in Start..(i + 4) - 1 : q + EoiLen <= length => ~Mark(q)
    <3> SUFFICES ASSUME NEW q \in Start..(i + 4) - 1, q + EoiLen <= length PROVE ~Mark(q)
      OBVIOUS
    <3>1. CASE q < i
      BY <1>0, <3>1, SMT
    <3>2. CASE ~(q < i)
      <4>1. q - i \in 0..3 \ mask /\ i + (q - i) = q
        BY <1>0, <1>1, <3>2, SMT
      <4>2. QED
        BY <1>m, <4>1
    <3>3. QED
      BY <3>1, <3>2
  <2>2. i + 4 \in 0..length /\ Start <= i + 4
    BY <1>0, <1>m, SMT
  <2>3. Passed("word", i + 4, mask)
    BY <1>0, <2>1, <2>2 DEF Passed
  <2>4. QED
    BY <1>1, <2>2, <2>3, MoveLemma DEF MaskStep, ScanInv
<1>2. CASE mask # {}
  <2>1. PICK k \in mask :
          /\ Lowest(k)
          /\ IF i + k + EoiLen <= length /\ IsEoi(i + k) THEN Finish(i + k)
             ELSE mask' = mask \ {k} /\ UNCHANGED <<input, loop, i, found>>
    BY <1>2 DEF MaskStep
  <2>2. k \in 0..3 /\ \A l \in 0..3 : l < k => l \notin mask
    BY <1>m, <2>1, SMT DEF Lowest
  <2>3. CASE i + k + EoiLen <= length /\ IsEoi(i + k)
    <3>1. i + k \in Start..length - EoiLen /\ Mark(i + k) /\ i + k \in Int
      BY <1>0, <2>2, <2>3, SMT DEF Mark, EoiLen
    <3>2. None(Start, (i + k) - 1)
      <4> SUFFICES ASSUME NEW q \in Start..(i + k) - 1 PROVE ~Mark(q)
        BY DEF None
      <4>0. q + EoiLen <= length
        BY <1>0, <2>2, <2>3, SMT DEF EoiLen
      <4>1. CASE q < i
        BY <1>0, <4>0, <4>1, SMT
      <4>2. CASE ~(q < i)
        <5>1. q - i \in 0..3 \ mask /\ i + (q - i) = q
          BY <1>0, <2>2, <4>2, SMT
        <5>2. QED
          BY <1>m, <4>0, <5>1
      <4>3. QED
        BY <4>1, <4>2
    <3>3. Result(i + k)
      BY <1>0, <3>1, <3>2 DEF Result, First, Start
    <3>4. QED
      BY <2>1, <2>3, <3>1, <3>3, FinishLemma DEF ScanInv
  <2>4. CASE ~(i + k + EoiLen <= length /\ IsEoi(i + k))
    <3>1. mask' = mask \ {k} /\ UNCHANGED <<input, loop, i, found>>
      BY <2>1, <2>4
    <3>2. i + k + EoiLen <= length => ~Mark(i + k)
      BY <1>0, <2>4 DEF Mark
    <3>3. Passed("mask", i, mask')
      BY <1>0, <1>m, <3>1, <3>2 DEF Passed
    <3>4. Passed(loop, i, mask)'
      BY <3>1, <3>3 DEF MaskStep, Passed, None, Start, EoiProbeWindow, Mark, IsEoi, IsSoi, input
    <3>5. ScanTypeOK' /\ ScanCorrect'
      BY <3>1 DEF ScanInv, ScanTypeOK, ScanCorrect, MaskStep, input
    <3>6. QED
      BY <3>4, <3>5 DEF ScanInv
  <2>5. QED
    BY <2>3, <2>4
<1>3. QED
  BY <1>1, <1>2

LEMMA TailStepLemma == ScanInv /\ TailStep => ScanInv'
<1> SUFFICES ASSUME ScanInv, TailStep PROVE ScanInv'
  OBVIOUS
<1>0. /\ scan = "forward" /\ length \in Nat /\ i \in 0..length
      /\ Start \in 0..length /\ Start <= i
      /\ \A q \in Start..i - 1 : q + EoiLen <= length => ~Mark(q)
  BY ForwardLemma DEF TailStep
<1>1. CASE i + EoiLen > length
  <2>1. None(Start, length - EoiLen)
    BY <1>0, <1>1, SMT DEF None, EoiLen
  <2>2. Result(-1)
    BY <1>0, <2>1 DEF Result, First, Start
  <2>3. QED
    BY <1>1, <2>2, FinishLemma DEF TailStep, ScanInv
<1>2. CASE ~(i + EoiLen > length) /\ IsEoi(i)
  <2>1. i \in Start..length - EoiLen /\ Mark(i) /\ None(Start, i - 1)
    BY <1>0, <1>2, SMT DEF None, Mark, EoiLen
  <2>2. Result(i)
    BY <1>0, <2>1 DEF Result, First, Start
  <2>3. QED
    BY <1>2, <2>2, FinishLemma DEF TailStep, ScanInv, ScanTypeOK
<1>3. CASE ~(i + EoiLen > length) /\ ~IsEoi(i)
  <2>1. ~Mark(i)
    BY <1>0, <1>3 DEF Mark
  <2>2. i + 1 \in 0..length /\ Start <= i + 1
    BY <1>0, <1>3, SMT DEF EoiLen
  <2>3. \A q \in Start..(i + 1) - 1 : q + EoiLen <= length => ~Mark(q)
    BY <1>0, <2>1, SMT
  <2>4. Passed("tail", i + 1, mask)
    BY <1>0, <2>2, <2>3 DEF Passed
  <2>5. QED
    BY <1>3, <2>2, <2>4, MoveLemma DEF TailStep, ScanInv
<1>4. QED
  BY <1>1, <1>2, <1>3

LEMMA BackwardStepLemma == ScanInv /\ BackwardStep => ScanInv'
<1> SUFFICES ASSUME ScanInv, BackwardStep PROVE ScanInv'
  OBVIOUS
<1>0. /\ scan = "backward" /\ length \in Nat /\ i \in 0..length
      /\ i + EoiLen <= length /\ \A q \in i + 1..length - EoiLen : ~Mark(q)
  BY DEF ScanInv, ScanTypeOK, BackwardStep, Passed, None
<1>1. CASE IsEoi(i)
  <2>1. i \in 0..length - EoiLen /\ Mark(i) /\ None(i + 1, length - EoiLen)
    BY <1>0, <1>1, SMT DEF None, Mark, EoiLen
  <2>2. Result(i)
    BY <1>0, <2>1 DEF Result, Last
  <2>3. QED
    BY <1>1, <2>2, FinishLemma DEF BackwardStep, ScanInv, ScanTypeOK
<1>2. CASE ~IsEoi(i)
  <2>0. ~Mark(i)
    BY <1>0, <1>2 DEF Mark
  <2>1. None(i, length - EoiLen)
    BY <1>0, <2>0, SMT DEF None, EoiLen
  <2>2. CASE i = 0
    <3>1. Result(-1)
      BY <1>0, <2>1, <2>2 DEF Result, Last
    <3>2. QED
      BY <1>2, <2>2, <3>1, FinishLemma DEF BackwardStep, ScanInv
  <2>3. CASE i # 0
    <3>1. i - 1 \in 0..length /\ (i - 1) + EoiLen <= length /\ (i - 1) + 1 = i
      BY <1>0, <2>3, SMT DEF EoiLen
    <3>2. Passed("backward", i - 1, mask)
      BY <1>0, <2>1, <3>1 DEF Passed
    <3>3. QED
      BY <1>2, <2>3, <3>1, <3>2, MoveLemma DEF BackwardStep, ScanInv
  <2>4. QED
    BY <2>2, <2>3
<1>3. QED
  BY <1>1, <1>2

THEOREM ScanStep == ScanInv /\ [ScanNext]_scanVars => ScanInv'
<1> SUFFICES ASSUME ScanInv, [ScanNext]_scanVars PROVE ScanInv'
  OBVIOUS
<1>1. CASE UNCHANGED scanVars
  <2>1. UNCHANGED <<input, loop, i, mask, found>>
    BY <1>1 DEF scanVars, input
  <2>2. ScanTypeOK'
    BY <1>1 DEF scanVars, ScanInv, ScanTypeOK
  <2>3. Passed(loop, i, mask)'
    BY <1>1 DEF scanVars, ScanInv, Passed, None, Start, EoiProbeWindow, Mark, IsSoi, IsEoi
  <2>4. ScanCorrect'
    BY <2>1, InputLemma DEF ScanInv, ScanCorrect
  <2>5. QED
    BY <2>2, <2>3, <2>4 DEF ScanInv
<1>2. QED
  BY <1>1, SoiStepLemma, WordStepLemma, MaskStepLemma, TailStepLemma, BackwardStepLemma
  DEF ScanNext, Stop

\* ScanTypeOK and ScanCorrect hold in every reachable state: the scans agree
\* with a byte-by-byte search (cam_verify_jpeg_soi, cam_verify_jpeg_eoi).
THEOREM ScanCorrectness == ScanSpec => [](ScanTypeOK /\ ScanCorrect)
<1>1. ScanInv => ScanTypeOK /\ ScanCorrect
  BY DEF ScanInv
<1>2. QED
  BY <1>1, ScanStarts, ScanStep, PTL DEF ScanSpec

\* An end marker that touches the last block is found (eoi_probe_window).
THEOREM LastBlockTheorem == ScanSpec => []LastBlockCovered
<1>1. ScanInv => LastBlockCovered
  <2> SUFFICES ASSUME ScanInv, loop = "done", scan = "forward",
                      NEW p \in 0..length - EoiLen, Mark(p), p + EoiLen > length - Half
               PROVE  found \in 0..p
    BY DEF LastBlockCovered
  <2>1. /\ EoiProbeWindow(length) \in 0..length
        /\ EoiProbeWindow(length) = length \/ EoiProbeWindow(length) = Half + 1
    BY WindowLemma DEF ScanInv, ScanTypeOK
  <2>2. First(found, length - EoiProbeWindow(length), length - EoiLen)
    BY DEF ScanInv, ScanCorrect, Result
  <2>3. p \in length - EoiProbeWindow(length)..length - EoiLen
    BY <2>1, ScanAssumption, SMT DEF ScanInv, ScanTypeOK, EoiLen
  <2>4. found # -1
    BY <2>1, <2>2, <2>3, SMT DEF First, None, ScanInv, ScanTypeOK
  <2>5. found \in length - EoiProbeWindow(length)..length - EoiLen /\ None(length - EoiProbeWindow(length), found - 1)
    BY <2>2, <2>4 DEF First
  <2>6. ~(p < found)
    BY <2>1, <2>3, <2>5, SMT DEF None, ScanInv, ScanTypeOK, EoiLen
  <2>7. QED
    BY <2>1, <2>5, <2>6, SMT DEF ScanInv, ScanTypeOK, EoiLen
<1>2. QED
  BY <1>1, ScanStarts, ScanStep, PTL DEF ScanSpec

\* The types of a scan.
THEOREM ScanTyped == ScanSpec => []ScanTypeOK
<1>1. ScanInv => ScanTypeOK
  BY DEF ScanInv
<1>2. QED
  BY <1>1, ScanStarts, ScanStep, PTL DEF ScanSpec

\* Where a scan that is not over stands in the frame.
LEMMA PlaceLemma ==
    ASSUME ScanInv, loop # "done"
    PROVE  /\ length \in Nat /\ i \in 0..length /\ mask \subseteq 0..3
           /\ loop \in {"soi", "word", "mask", "tail", "backward"}
           /\ loop = "mask" => i + 4 <= length
           /\ loop = "backward" => i + EoiLen <= length
  BY DEF ScanInv, ScanTypeOK, Passed

\* No scan reads outside the frame, for any length and any size of the window
\* (cam_verify_jpeg_soi, cam_verify_jpeg_eoi).
THEOREM ScanReadsInside == ScanSpec => []ReadsInside
<1>1. ScanInv => ReadsInside
  <2> SUFFICES ASSUME ScanInv, NEW p \in Reads PROVE p \in 0..length - 1
    BY DEF ReadsInside
  <2>0. loop # "done"
    BY DEF Reads
  <2>1. /\ length \in Nat /\ i \in 0..length /\ mask \subseteq 0..3
        /\ loop \in {"soi", "word", "mask", "tail", "backward"}
        /\ loop = "mask" => i + 4 <= length
        /\ loop = "backward" => i + EoiLen <= length
    BY <2>0, PlaceLemma
  <2>2. CASE loop = "mask"
    <3>1. PICK k \in mask : i + k + EoiLen <= length /\ p \in i + k..i + k + 1
      BY <2>2 DEF Reads
    <3>2. QED
      BY <2>1, <3>1 DEF EoiLen
  <2>3. CASE loop = "soi"
    BY <2>1, <2>3 DEF Reads, SoiLen
  <2>4. CASE loop = "word"
    BY <2>1, <2>4 DEF Reads
  <2>5. CASE loop = "tail"
    BY <2>1, <2>5 DEF Reads, EoiLen
  <2>6. CASE loop = "backward"
    BY <2>1, <2>6 DEF Reads, EoiLen
  <2>7. QED
    BY <2>1, <2>2, <2>3, <2>4, <2>5, <2>6
<1>2. QED
  BY <1>1, ScanStarts, ScanStep, PTL DEF ScanSpec

\* A word has at most four candidates.
LEMMA CandidatesLemma ==
    ASSUME NEW m \in SUBSET (0..3)
    PROVE  /\ IsFiniteSet(m) /\ Cardinality(m) \in 0..4
           /\ \A k \in m : Cardinality(m \ {k}) = Cardinality(m) - 1
<1>1. IsFiniteSet(0..3) /\ Cardinality(0..3) = 4
  <2>1. \A a, b \in Int : /\ IsFiniteSet(a..b)
                          /\ Cardinality(a..b) = IF a > b THEN 0 ELSE b - a + 1
    BY FS_Interval
  <2>2. 3 - 0 + 1 = 4 /\ ~(0 > 3) /\ 0 \in Int /\ 3 \in Int
    OBVIOUS
  <2>3. /\ IsFiniteSet(0..3)
        /\ Cardinality(0..3) = IF 0 > 3 THEN 0 ELSE 3 - 0 + 1
    BY <2>1, <2>2, Zenon
  <2>4. QED
    BY <2>2, <2>3, Zenon
<1>2. IsFiniteSet(m) /\ Cardinality(m) <= 4
  BY <1>1, FS_Subset
<1>3. Cardinality(m) \in Nat
  BY <1>2, FS_CardinalityType
<1>4. QED
  BY <1>2, <1>3, FS_RemoveElement

\* Each step but the last one's repetition comes nearer to the end, so no scan
\* takes more than 2 * length + 2 steps.
THEOREM ScanTerminates == ScanSpec => ScanEnds
<1>1. ScanInv /\ [ScanNext]_scanVars => [Left' \in Nat /\ Left' < Left]_scanVars
  <2> SUFFICES ASSUME ScanInv, ScanNext, scanVars' # scanVars PROVE Left' \in Nat /\ Left' < Left
    OBVIOUS
  <2>0. loop # "done"
    BY DEF ScanNext, Stop, SoiStep, WordStep, MaskStep, TailStep, BackwardStep
  <2>1. /\ length \in Nat /\ i \in 0..length /\ mask \subseteq 0..3
        /\ loop \in {"soi", "word", "mask", "tail", "backward"}
        /\ loop = "mask" => i + 4 <= length
        /\ loop = "backward" => i + EoiLen <= length
    BY <2>0, PlaceLemma
  <2>2. Left \in Nat /\ Left > 0
    BY <2>1, CandidatesLemma DEF Left
  <2>3. ASSUME NEW r, Finish(r) PROVE Left' \in Nat /\ Left' < Left
    BY <2>2, <2>3 DEF Finish, Left
  <2>4. CASE SoiStep
    <3>1. CASE i <= length - SoiLen /\ Move("soi", i + 1)
      BY <2>1, <2>4, <3>1 DEF SoiStep, Move, input, Left, SoiLen
    <3>2. QED
      BY <2>1, <2>3, <2>4, <3>1 DEF SoiStep, SoiLen
  <2>5. CASE WordStep
    <3>1. CASE i + 4 <= length
      <4>1. mask' \in SUBSET (0..3) /\ loop' = "mask" /\ i' = i /\ length' = length
        BY <2>5, <3>1 DEF WordStep, input
      <4>2. Cardinality(mask') \in 0..4
        BY <4>1, CandidatesLemma
      <4>3. QED
        BY <2>1, <2>5, <3>1, <4>1, <4>2 DEF WordStep, Left
    <3>2. CASE ~(i + 4 <= length)
      BY <2>1, <2>5, <3>2 DEF WordStep, Move, input, Left
    <3>3. QED
      BY <3>1, <3>2
  <2>6. CASE MaskStep
    <3>0. Cardinality(mask) \in 0..4
      BY <2>1, CandidatesLemma
    <3>1. CASE mask = {}
      BY <2>1, <2>6, <3>0, <3>1 DEF MaskStep, Move, input, Left
    <3>2. CASE mask # {}
      <4>1. PICK k \in mask :
              \/ Finish(i + k)
              \/ mask' = mask \ {k} /\ UNCHANGED <<input, loop, i, found>>
        BY <2>6, <3>2 DEF MaskStep
      <4>2. CASE mask' = mask \ {k} /\ UNCHANGED <<input, loop, i, found>>
        <5>1. Cardinality(mask') = Cardinality(mask) - 1 /\ Cardinality(mask') \in 0..4
          BY <2>1, <4>2, CandidatesLemma
        <5>2. loop = "mask" /\ loop' = "mask" /\ i' = i /\ length' = length
          BY <2>6, <4>2 DEF MaskStep, input
        <5>3. QED
          BY <2>1, <3>0, <5>1, <5>2 DEF Left
      <4>3. QED
        BY <2>3, <4>1, <4>2
    <3>3. QED
      BY <3>1, <3>2
  <2>7. CASE TailStep
    <3>1. CASE i + EoiLen <= length /\ Move("tail", i + 1)
      BY <2>1, <2>7, <3>1 DEF TailStep, Move, input, Left, EoiLen
    <3>2. QED
      BY <2>1, <2>3, <2>7, <3>1 DEF TailStep, EoiLen
  <2>8. CASE BackwardStep
    <3>1. CASE i # 0 /\ Move("backward", i - 1)
      BY <2>1, <2>8, <3>1 DEF BackwardStep, Move, input, Left
    <3>2. QED
      BY <2>3, <2>8, <3>1 DEF BackwardStep
  <2>9. QED
    BY <2>0, <2>4, <2>5, <2>6, <2>7, <2>8 DEF ScanNext, Stop
<1>2. QED
  BY <1>1, ScanStarts, ScanStep, PTL DEF ScanSpec, ScanEnds

=============================================================================
