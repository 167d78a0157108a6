--------------------------- MODULE WifiStreamProofs ---------------------------
(***************************************************************************)
(* Proofs about WifiStream for every width of the header's fields and      *)
(* every size of a fragment: the types, that headers identify fragments    *)
(* although sequence number and index wrap, and that fragments with all    *)
(* indices under one sequence number are one frame.                        *)
(***************************************************************************)
EXTENDS WifiStream, TLAPS

-----------------------------------------------------------------------------
(* Numbers *)

\* A number below the modulus is its own remainder, and the next one wraps.
LEMMA NextMod ==
    ASSUME NEW m \in Nat \ {0}, NEW x \in 0..(m - 1)
    PROVE  /\ (x + 1) % m = IF x + 1 = m THEN 0 ELSE x + 1
           /\ (x + 1) % m \in 0..(m - 1)
  OBVIOUS

LEMMA ModRange ==
    ASSUME NEW m \in Nat \ {0}, NEW x \in Nat
    PROVE  x % m \in 0..(m - 1)
  OBVIOUS

\* There is room for the index after that of a fragment that is not the last.
LEMMA RoomForIndex ==
    ASSUME NEW p \in Nat \ {0}, NEW m \in Nat \ {0}, NEW i \in Nat, p * i < (m - 1) * p
    PROVE  i < m - 1
  OBVIOUS

LEMMA NextOffset ==
    ASSUME NEW p \in Nat, NEW i \in Nat
    PROVE  p * (i + 1) = p * i + p /\ p * i \in Nat
  OBVIOUS

\* A quotient, by what it is between.
LEMMA Quotient ==
    ASSUME NEW p \in Nat \ {0}, NEW x \in Nat
    PROVE  /\ x \div p \in Nat
           /\ p * (x \div p) <= x /\ x < p * (x \div p) + p
  OBVIOUS

LEMMA TimesMonotone ==
    ASSUME NEW p \in Nat, NEW i \in Nat, NEW j \in Nat, i <= j
    PROVE  p * i \in Nat /\ p * j \in Nat /\ p * i <= p * j
  OBVIOUS

\* The number of fragments of n bytes: the last one begins before the end of
\* the frame, and they reach the end.
LEMMA FragmentCount ==
    ASSUME NEW p \in Nat \ {0}, NEW m \in Nat \ {0}, NEW n \in 1..((m - 1) * p)
    PROVE  \E t \in 1..(m - 1) :
             /\ t = (n + p - 1) \div p /\ t % m = t
             /\ p * (t - 1) < n /\ n <= p * t
  <1> DEFINE t == (n + p - 1) \div p
  <1>1. n \in Nat /\ n > 0 /\ n + p - 1 \in Nat /\ (m - 1) * p \in Nat
    OBVIOUS
  <1>2. t \in Nat /\ p * t <= n + p - 1 /\ n + p - 1 < p * t + p
    BY <1>1, Quotient
  <1> HIDE DEF t
  <1>3. n <= p * t
    <2>1. p * t \in Nat
      BY <1>2
    <2> QED  BY <1>1, <1>2, <2>1
  <1>4. t > 0
    <2>1. t = 0 => p * t = 0
      OBVIOUS
    <2> QED  BY <1>1, <1>2, <1>3, <2>1
  <1>5. p * (t - 1) < n
    <2>1. p * ((t - 1) + 1) = p * (t - 1) + p /\ p * (t - 1) \in Nat
      BY <1>2, <1>4, NextOffset
    <2>2. (t - 1) + 1 = t
      BY <1>2
    <2> QED  BY <1>1, <1>2, <2>1, <2>2
  <1>6. t < m
    <2> SUFFICES ASSUME t >= m PROVE FALSE
      BY <1>2
    <2>1. m - 1 \in Nat /\ t - 1 \in Nat /\ m - 1 <= t - 1
      BY <1>2, <1>4
    <2>2. p * (m - 1) <= p * (t - 1) /\ p * (m - 1) \in Nat /\ p * (t - 1) \in Nat
      BY <2>1, TimesMonotone
    <2>3. p * (m - 1) = (m - 1) * p
      OBVIOUS
    <2> QED  BY <1>1, <1>5, <2>2, <2>3
  <1>7. t % m = t
    BY <1>2, <1>6
  <1>8. t \in 1..(m - 1) /\ t = (n + p - 1) \div p
    BY <1>2, <1>4, <1>6 DEF t
  <1> QED  BY <1>3, <1>5, <1>7, <1>8

-----------------------------------------------------------------------------
(* The inductive invariant *)

\* frame_seq, a frames ago.
SeqOf(a) == IF a <= seq THEN seq - a ELSE seq - a + SeqMod

Count(n) == ((n + Payload - 1) \div Payload) % IndexMod

\* All fields of a datagram follow from its age, index and frame length.
DatagramInv(d) ==
    /\ d.seq = SeqOf(d.age)
    /\ d.off = Payload * d.idx
    /\ d.size = IF d.len - d.off > Payload THEN Payload ELSE d.len - d.off
    /\ d.length = d.len % LengthMod
    /\ d.last = (d.off + d.size >= d.len)
    /\ d.total = Count(d.len)

\* Datagrams of one age are of one frame.
AgeInv == \A p, q \in air : p.age = q.age => p.len = q.len

\* The call that runs is the one of age 0; its offset follows from its index.
CallInv ==
    /\ call = NoCall => \A d \in air : d.age > 0
    /\ call # NoCall =>
         /\ call.total = Count(call.len)
         /\ call.sent < call.len => call.sent = Payload * call.idx
         /\ \A d \in air : d.age = 0 => d.len = call.len

StreamInv ==
    StreamTypeOK /\ (\A d \in air : DatagramInv(d)) /\ AgeInv /\ CallInv

-----------------------------------------------------------------------------
(* Steps *)

LEMMA StreamStarts == StreamInit => StreamInv
  <1> SUFFICES ASSUME StreamInit PROVE StreamInv
    OBVIOUS
  <1> USE DEF StreamInit
  <1>1. seq \in 0..(SeqMod - 1)
    BY StreamAssumption
  <1>2. StreamTypeOK
    BY <1>1 DEF StreamTypeOK
  <1>3. (\A d \in air : DatagramInv(d)) /\ AgeInv /\ CallInv
    BY DEF AgeInv, CallInv
  <1> QED  BY <1>2, <1>3 DEF StreamInv

LEMMA StartKeeps == StreamInv /\ StreamStart => StreamInv'
  BY DEF StreamInv, StreamStart, StreamTypeOK, DatagramInv, SeqOf, AgeInv, CallInv

LEMMA SendFrameKeeps ==
    ASSUME StreamInv, NEW n \in Lengths, SendFrame(n)
    PROVE  StreamInv'
  <1> USE StreamAssumption DEF StreamInv, SendFrame
  <1>1. n \in Nat /\ n + Payload - 1 \in Nat
    OBVIOUS
  <1>2. (n + Payload - 1) \div Payload \in Nat
    BY <1>1
  <1>3. Count(n) \in 0..(IndexMod - 1)
    BY <1>2, ModRange DEF Count
  <1>4. call' = [len |-> n, sent |-> 0, idx |-> 0, total |-> Count(n)]
    BY DEF Count
  <1>5. StreamTypeOK'
    BY <1>3, <1>4 DEF StreamTypeOK
  <1>6. (\A d \in air : DatagramInv(d))'
    BY DEF DatagramInv, SeqOf
  <1>7. AgeInv' /\ CallInv'
    BY <1>4 DEF AgeInv, CallInv, NoCall, StreamTypeOK, Datagrams
  <1> QED  BY <1>5, <1>6, <1>7

LEMMA SendFragmentKeeps == StreamInv /\ SendFragment => StreamInv'
  <1> SUFFICES ASSUME StreamInv, SendFragment PROVE StreamInv'
    OBVIOUS
  <1> USE StreamAssumption DEF StreamInv, SendFragment
  <1>1. call # NoCall
    BY DEF NoCall
  <1>2. /\ call.len \in Lengths /\ call.sent \in Nat /\ call.idx \in 0..(IndexMod - 1)
        /\ call.total \in 0..(IndexMod - 1) /\ call.len \in Nat
        /\ call = [len |-> call.len, sent |-> call.sent, idx |-> call.idx, total |-> call.total]
    BY <1>1 DEF StreamTypeOK
  <1>3. call.sent = Payload * call.idx /\ call.total = Count(call.len)
    BY <1>1 DEF CallInv
  <1>4. call.idx < IndexMod - 1
    BY <1>2, <1>3, RoomForIndex
  <1>5. FragmentSize \in 1..Payload /\ call.sent + FragmentSize <= call.len
    BY <1>2 DEF FragmentSize
  <1>6. (call.idx + 1) % IndexMod = call.idx + 1
    BY <1>2, <1>4, NextMod
  <1>7. call' = [len |-> call.len, sent |-> call.sent + FragmentSize,
                 idx |-> call.idx + 1, total |-> call.total]
    BY <1>2, <1>6
  <1>8. Datagram \in Datagrams
    <2>1. call.len % LengthMod \in 0..(LengthMod - 1)
      BY <1>2, ModRange
    <2> QED  BY <1>2, <1>5, <2>1 DEF Datagram, Datagrams, StreamTypeOK
  <1>9. DatagramInv(Datagram)
    BY <1>2, <1>3 DEF DatagramInv, Datagram, FragmentSize, SeqOf, StreamTypeOK
  <1>10. StreamTypeOK'
    BY <1>2, <1>4, <1>5, <1>7, <1>8 DEF StreamTypeOK
  <1>11. (\A d \in air : DatagramInv(d))'
    BY <1>9 DEF DatagramInv, SeqOf
  <1>12. \A d \in air' : d.age = 0 => d.len = call.len
    BY <1>1 DEF CallInv, Datagram
  <1>13. AgeInv'
    BY <1>12 DEF AgeInv, Datagram
  <1>14. CallInv'
    <2>1. call'.sent < call'.len => call'.sent = Payload * call'.idx
      <3>1. SUFFICES ASSUME call'.sent < call'.len PROVE call'.sent = Payload * call'.idx
        OBVIOUS
      <3>2. FragmentSize = Payload
        BY <1>2, <1>7, <3>1 DEF FragmentSize
      <3>3. Payload * (call.idx + 1) = Payload * call.idx + Payload
        BY <1>2, NextOffset
      <3>4. call'.sent = call.sent + FragmentSize /\ call'.idx = call.idx + 1
        BY ONLY <1>7
      <3> QED  BY <1>3, <3>2, <3>3, <3>4
    <2>2. call' # NoCall
      BY <1>2, <1>7 DEF NoCall
    <2> QED  BY <1>3, <1>7, <1>12, <2>1, <2>2 DEF CallInv, Count
  <1> QED  BY <1>10, <1>11, <1>13, <1>14

LEMMA EndFrameKeeps == StreamInv /\ EndFrame => StreamInv'
  <1> SUFFICES ASSUME StreamInv, EndFrame PROVE StreamInv'
    OBVIOUS
  <1> USE StreamAssumption DEF StreamInv, EndFrame
  <1>1. seq' = (IF seq + 1 = SeqMod THEN 0 ELSE seq + 1) /\ seq' \in 0..(SeqMod - 1)
    BY NextMod DEF StreamTypeOK
  <1>2. \A d \in air' : \E e \in air :
          /\ e.age < MaxAge /\ d = [e EXCEPT !.age = @ + 1]
          /\ e \in Datagrams /\ d \in Datagrams /\ d.age = e.age + 1
          /\ d.off = e.off /\ d.size = e.size /\ d.len = e.len /\ d.seq = e.seq
          /\ d.length = e.length /\ d.last = e.last /\ d.idx = e.idx /\ d.total = e.total
    BY DEF Older, StreamTypeOK, Datagrams
  <1>3. StreamTypeOK'
    BY <1>1, <1>2 DEF StreamTypeOK
  <1>4. ASSUME NEW d \in air' PROVE DatagramInv(d)'
    <2>1. PICK e \in air :
            /\ e.age < MaxAge /\ e \in Datagrams /\ d.age = e.age + 1
            /\ d.off = e.off /\ d.size = e.size /\ d.len = e.len /\ d.seq = e.seq
            /\ d.length = e.length /\ d.last = e.last /\ d.idx = e.idx /\ d.total = e.total
      BY <1>2
    <2>2. d.seq = SeqOf(d.age)'
      <3>1. e.age \in Nat /\ e.age + 1 < SeqMod /\ seq \in 0..(SeqMod - 1) /\ e.seq = SeqOf(e.age)
        BY <2>1 DEF Datagrams, StreamTypeOK, DatagramInv
      <3> QED  BY <1>1, <2>1, <3>1 DEF SeqOf
    <2> QED  BY <2>1, <2>2 DEF DatagramInv, Count
  <1>5. AgeInv'
    <2> SUFFICES ASSUME NEW p \in air', NEW q \in air', p.age = q.age PROVE p.len = q.len
      BY DEF AgeInv
    <2>1. PICK e \in air : e.age \in Nat /\ p.age = e.age + 1 /\ p.len = e.len
      BY <1>2 DEF Datagrams
    <2>2. PICK f \in air : f.age \in Nat /\ q.age = f.age + 1 /\ q.len = f.len
      BY <1>2 DEF Datagrams
    <2>3. e.age = f.age
      <3>1. e.age + 1 = f.age + 1  BY <2>1, <2>2
      <3> QED  BY <2>1, <2>2, <3>1
    <2> QED  BY <2>1, <2>2, <2>3 DEF AgeInv
  <1>6. CallInv'
    BY <1>2 DEF CallInv, Datagrams
  <1> QED  BY <1>3, <1>4, <1>5, <1>6

LEMMA StreamStep == StreamInv /\ [StreamNext]_streamVars => StreamInv'
  <1> SUFFICES ASSUME StreamInv, [StreamNext]_streamVars PROVE StreamInv'
    OBVIOUS
  <1>1. CASE UNCHANGED streamVars
    BY <1>1 DEF streamVars, StreamInv, StreamTypeOK, DatagramInv, SeqOf, AgeInv, CallInv
  <1> QED
    BY <1>1, StartKeeps, SendFrameKeeps, SendFragmentKeeps, EndFrameKeeps DEF StreamNext

-----------------------------------------------------------------------------
(* The theorems *)

\* Every datagram that can arrive is determined by its age, its index and the
\* length of its frame.
THEOREM StreamInvariant == StreamSpec => []StreamInv
  BY StreamStarts, StreamStep, PTL DEF StreamSpec

\* The types: every field of the header fits its width.
THEOREM StreamTyped == StreamSpec => []StreamTypeOK
  <1>1. StreamInv => StreamTypeOK  BY DEF StreamInv
  <1> QED  BY <1>1, StreamInvariant, PTL

\* The sequence number tells the age, hence the frame.
LEMMA SameSeqSameFrame ==
    ASSUME StreamInv, NEW p \in air, NEW q \in air, p.seq = q.seq
    PROVE  p.age = q.age /\ p.len = q.len
  <1> USE StreamAssumption DEF StreamInv, StreamTypeOK
  <1>1. p \in Datagrams /\ q \in Datagrams /\ DatagramInv(p) /\ DatagramInv(q)
    OBVIOUS
  <1>2. p.age = q.age
    <2>1. p.age \in 0..MaxAge /\ q.age \in 0..MaxAge
      BY <1>1 DEF Datagrams
    <2>2. SeqOf(p.age) = SeqOf(q.age)
      BY <1>1 DEF DatagramInv
    <2> QED  BY <2>1, <2>2 DEF SeqOf
  <1> QED  BY <1>2 DEF AgeInv

\* Two datagrams that can arrive at one time never share sequence number and
\* index, although both numbers wrap.
THEOREM StreamHeadersIdentify == StreamSpec => []HeadersIdentify
  <1>1. StreamInv => HeadersIdentify
    <2> SUFFICES ASSUME StreamInv, NEW p \in air, NEW q \in air, p.seq = q.seq, p.idx = q.idx
                 PROVE  p = q
      BY DEF HeadersIdentify
    <2>1. p \in Datagrams /\ q \in Datagrams /\ DatagramInv(p) /\ DatagramInv(q)
      BY DEF StreamInv, StreamTypeOK
    <2>2. p.age = q.age /\ p.len = q.len
      BY SameSeqSameFrame
    <2>3. p.off = q.off /\ p.size = q.size /\ p.length = q.length /\ p.total = q.total
      BY <2>1, <2>2 DEF DatagramInv
    <2>4. p.last = q.last
      BY <2>1, <2>2, <2>3 DEF DatagramInv
    <2> QED  BY <2>1, <2>2, <2>3, <2>4 DEF Datagrams
  <1> QED  BY <1>1, StreamInvariant, PTL

\* What a datagram says of its place in a frame of n bytes and t fragments.
LEMMA DatagramPlace ==
    ASSUME StreamInv, NEW d \in air
    PROVE  /\ d.len \in Lengths /\ d.len \in Nat /\ d.idx \in Nat /\ d.off \in Nat
           /\ d.total \in Nat \ {0} /\ d.total = Count(d.len)
           /\ Payload * (d.total - 1) < d.len /\ d.len <= Payload * d.total
           /\ d.off = Payload * d.idx /\ d.length = d.len % LengthMod
           /\ d.size \in 1..Payload /\ d.off + d.size <= d.len
           /\ d.off + d.size = d.len \/ d.size = Payload
           /\ d.last <=> d.len <= Payload * (d.idx + 1)
  <1> USE StreamAssumption DEF StreamInv, StreamTypeOK
  <1>1. d \in Datagrams /\ DatagramInv(d)
    OBVIOUS
  <1>2. /\ d.len \in Lengths /\ d.len \in Nat /\ d.idx \in Nat /\ d.off \in Nat
        /\ d.size \in 1..Payload
    <2>1. d.len \in Lengths /\ d.off \in Nat /\ d.size \in 1..Payload
      BY <1>1 DEF Datagrams
    <2>2. d.idx \in 0..(IndexMod - 1)
      BY <1>1 DEF Datagrams
    <2>3. d.len \in Nat /\ d.idx \in Nat
      <3>1. (IndexMod - 1) * Payload \in Int /\ IndexMod - 1 \in Int
        OBVIOUS
      <3>2. d.len \in 0..((IndexMod - 1) * Payload)
        BY <2>1
      <3> QED  BY ONLY <2>2, <3>1, <3>2
    <2> QED  BY ONLY <2>1, <2>2, <2>3
  <1>3. /\ d.off = Payload * d.idx /\ d.length = d.len % LengthMod
        /\ d.size = IF d.len - d.off > Payload THEN Payload ELSE d.len - d.off
        /\ d.last = (d.off + d.size >= d.len)
        /\ d.total = Count(d.len)
    BY <1>1 DEF DatagramInv
  <1>4. d.off + d.size <= d.len /\ (d.off + d.size = d.len \/ d.size = Payload)
    BY <1>2, <1>3
  <1>5. d.len \in 1..((IndexMod - 1) * Payload)
    <2>1. d.len \in 0..((IndexMod - 1) * Payload)
      BY <1>2
    <2>2. d.len > 0
      BY <1>2, <1>4
    <2> QED  BY <2>1, <2>2
  <1>6. /\ d.total \in Nat \ {0} /\ Payload * (d.total - 1) < d.len
        /\ d.len <= Payload * d.total
    <2>1. PICK t \in 1..(IndexMod - 1) :
            /\ t = (d.len + Payload - 1) \div Payload /\ t % IndexMod = t
            /\ Payload * (t - 1) < d.len /\ d.len <= Payload * t
      BY <1>5, FragmentCount
    <2>2. d.total = t
      BY <1>3, <2>1 DEF Count
    <2> QED  BY <2>1, <2>2
  <1>7. d.last <=> d.len <= Payload * (d.idx + 1)
    <2>1. Payload * (d.idx + 1) = d.off + Payload
      BY <1>2, <1>3, NextOffset
    <2>2. d.last <=> d.off + d.size >= d.len
      BY <1>3
    <2> QED  BY <1>2, <1>3, <2>1, <2>2
  <1> QED  BY <1>2, <1>3, <1>4, <1>6, <1>7

\* A receiver that has all the indices a count announces, under one sequence
\* number, has one whole frame in the right order, whatever the network lost,
\* duplicated, delayed or reordered.
THEOREM StreamReassembles == StreamSpec => []Reassembles
  <1>1. StreamInv => Reassembles
    <2> SUFFICES ASSUME StreamInv, NEW s \in 0..(SeqMod - 1),
                        NEW R \in SUBSET {p \in air : p.seq = s}, Collected(R)
                 PROVE  IsFrame(R)
      BY DEF Reassembles
    <2>1. PICK p \in R : {q.idx : q \in R} = 0..(p.total - 1)
      BY DEF Collected
    <2>2. PICK n \in Nat, t \in Nat \ {0} :
            /\ n = p.len /\ t = p.total /\ n \in Lengths /\ t = Count(n)
            /\ Payload * (t - 1) < n /\ n <= Payload * t
      BY DatagramPlace
    <2>3. ASSUME NEW q \in R
          PROVE  /\ q.age = p.age /\ q.len = n /\ q.total = t /\ q.length = n % LengthMod
                 /\ q.idx \in 0..(t - 1) /\ q.idx \in Nat
                 /\ q.off = Payload * q.idx /\ q.off \in Nat
                 /\ q.size \in 1..Payload /\ q.off + q.size <= n
                 /\ q.off + q.size = n \/ q.size = Payload
                 /\ q.last <=> n <= Payload * (q.idx + 1)
      <3>1. q \in air /\ p \in air /\ q.seq = p.seq
        BY <2>1
      <3>2. q.age = p.age /\ q.len = n
        BY <2>2, <3>1, SameSeqSameFrame
      <3>3. q.idx \in 0..(t - 1)
        BY <2>1, <2>2
      <3> QED  BY <2>2, <3>1, <3>2, <3>3, DatagramPlace
    <2>4. \A q \in R : q.last <=> q.idx = q.total - 1
      <3> SUFFICES ASSUME NEW q \in R PROVE n <= Payload * (q.idx + 1) <=> q.idx = t - 1
        BY <2>3
      <3>1. CASE q.idx = t - 1
        <4>1. q.idx + 1 = t
          BY <2>2, <3>1
        <4> QED  BY <2>2, <3>1, <4>1
      <3>2. CASE q.idx # t - 1
        <4>1. q.idx + 1 \in Nat /\ t - 1 \in Nat /\ q.idx + 1 <= t - 1
          BY <2>2, <2>3, <3>2
        <4>2. /\ Payload * (q.idx + 1) <= Payload * (t - 1)
              /\ Payload * (q.idx + 1) \in Nat /\ Payload * (t - 1) \in Nat
          BY <4>1, StreamAssumption, TimesMonotone
        <4> QED  BY <2>2, <3>2, <4>2
      <3> QED  BY <3>1, <3>2
    <2>5. UNION {q.off..(q.off + q.size - 1) : q \in R} = 0..(n - 1)
      <3>1. ASSUME NEW q \in R, NEW x \in q.off..(q.off + q.size - 1)
            PROVE  x \in 0..(n - 1)
        BY <2>2, <2>3, <3>1, StreamAssumption
      <3>2. ASSUME NEW x \in 0..(n - 1)
            PROVE  \E q \in R : x \in q.off..(q.off + q.size - 1)
        <4>1. PICK j \in Nat : Payload * j <= x /\ x < Payload * j + Payload /\ Payload * j \in Nat
          <5> DEFINE j == x \div Payload
          <5>1. x \in Nat
            BY <2>2
          <5>2. j \in Nat /\ Payload * j <= x /\ x < Payload * j + Payload
            BY <5>1, StreamAssumption, Quotient
          <5> HIDE DEF j
          <5>3. Payload * j \in Nat
            BY <5>2, StreamAssumption, TimesMonotone
          <5> QED  BY <5>2, <5>3
        <4>2. j \in 0..(t - 1)
          <5>1. SUFFICES ASSUME j >= t PROVE FALSE
            BY <2>2, <4>1
          <5>2. Payload * t <= Payload * j /\ Payload * t \in Nat
            BY <2>2, <4>1, <5>1, StreamAssumption, TimesMonotone
          <5> QED  BY <2>2, <4>1, <5>2
        <4>3. PICK q \in R : q.idx = j
          BY <2>1, <2>2, <4>2
        <4>4. q.off = Payload * j /\ (q.off + q.size = n \/ q.size = Payload)
          BY <2>3, <4>3
        <4> QED  BY <2>2, <2>3, <4>1, <4>4, StreamAssumption
      <3> QED  BY <3>1, <3>2
    <2> QED  BY <2>2, <2>3, <2>4, <2>5 DEF IsFrame
  <1> QED  BY <1>1, StreamInvariant, PTL

=============================================================================
