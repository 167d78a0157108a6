------------------------------ MODULE WifiStream ------------------------------
(***************************************************************************)
(* Video frames in UDP broadcasts (wifi_stream.c): a frame is cut into     *)
(* fragments with an 8 byte header.  The sequence number and the length    *)
(* in the header have 16 bits, fragment index and count have 8.            *)
(*                                                                         *)
(* The network may lose, duplicate and reorder datagrams, and delivers one *)
(* at most MaxAge frames after its own: what a receiver holds at some time *)
(* is any part of "air".  One task sends (no lock protects frame_seq).     *)
(***************************************************************************)
EXTENDS Integers

CONSTANTS
    Payload,   \* bytes of data in a fragment (1024)
    IndexMod,  \* values of the fragment index and of the count (2^8)
    LengthMod, \* values of the length field (2^16)
    SeqMod,    \* values of the sequence number (2^16)
    Lengths,   \* the lengths of frames
    MaxAge     \* how many frames later a datagram may still arrive

ASSUME StreamAssumption ==
    /\ Payload \in Nat \ {0} /\ IndexMod \in Nat \ {0} /\ LengthMod \in Nat \ {0}
    /\ SeqMod \in Nat \ {0} /\ MaxAge \in 0..(SeqMod - 1)
    /\ Lengths \subseteq 0..((IndexMod - 1) * Payload)

VARIABLES
    active, \* active
    sock,   \* udp_sock >= 0
    seq,    \* frame_seq
    call,   \* the locals of the wifi_stream_send_frame that runs, or NoCall
    air     \* the datagrams that can still arrive; "age" (frames since), "off"
            \* and "len" (true offset and frame length) are not in the header

streamVars == <<active, sock, seq, call, air>>

NoCall == [len |-> 0, sent |-> 0, idx |-> 0, total |-> -1]

StreamInit ==
    /\ active = FALSE /\ sock = FALSE
    /\ seq = 0 /\ call = NoCall /\ air = {}

\* wifi_stream_start: a socket that fails replaces one that works, and active
\* stays.
StreamStart ==
    /\ call = NoCall
    /\ sock' \in BOOLEAN /\ active' = (active \/ sock')
    /\ UNCHANGED <<seq, call, air>>

\* Mutant: the count of fragments is rounded down.
SendFrameRoundsDown(len) ==
    /\ call = NoCall /\ active /\ sock
    /\ call' = [len |-> len, sent |-> 0, idx |-> 0, total |-> (len \div Payload) % IndexMod]
    /\ UNCHANGED <<active, sock, seq, air>>

\* wifi_stream_send_frame up to its loop.
SendFrame(len) ==
    /\ call = NoCall /\ active /\ sock
    /\ call' = [len |-> len, sent |-> 0, idx |-> 0,
                total |-> ((len + Payload - 1) \div Payload) % IndexMod]
    /\ UNCHANGED <<active, sock, seq, air>>

FragmentSize == IF call.len - call.sent > Payload THEN Payload ELSE call.len - call.sent

\* The header, with what it belongs to.
Datagram ==
    [age |-> 0, off |-> call.sent, size |-> FragmentSize, len |-> call.len,
     seq |-> seq, length |-> call.len % LengthMod,
     last |-> call.sent + FragmentSize >= call.len,
     idx |-> call.idx, total |-> call.total]

\* One round of the loop.  A failing sendto is a datagram that is lost.
SendFragment ==
    /\ call.sent < call.len
    /\ air' = air \cup {Datagram}
    /\ call' = [call EXCEPT !.idx = (@ + 1) % IndexMod, !.sent = @ + FragmentSize]
    /\ UNCHANGED <<active, sock, seq>>

\* A frame later: datagrams that are too old are gone.
Older == {[d EXCEPT !.age = @ + 1] : d \in {e \in air : e.age < MaxAge}}

\* Mutant: the sequence number is not advanced.
EndFrameSameSeq ==
    /\ call # NoCall /\ call.sent >= call.len
    /\ air' = Older /\ call' = NoCall
    /\ UNCHANGED <<active, sock, seq>>

\* The end of wifi_stream_send_frame.
EndFrame ==
    /\ call # NoCall /\ call.sent >= call.len
    /\ seq' = (seq + 1) % SeqMod
    /\ air' = Older /\ call' = NoCall
    /\ UNCHANGED <<active, sock>>

StreamNext ==
    \/ StreamStart
    \/ \E len \in Lengths : SendFrame(len)
    \/ SendFragment \/ EndFrame

StreamSpec == StreamInit /\ [][StreamNext]_streamVars

-----------------------------------------------------------------------------
(* Properties *)

Datagrams ==
    [age : 0..MaxAge, off : Nat, size : 1..Payload, len : Lengths, seq : 0..(SeqMod - 1),
     length : 0..(LengthMod - 1), last : BOOLEAN, idx : 0..(IndexMod - 1),
     total : 0..(IndexMod - 1)]

StreamTypeOK ==
    /\ active \in BOOLEAN /\ sock \in BOOLEAN /\ seq \in 0..(SeqMod - 1)
    /\ \/ call = NoCall
       \/ call \in [len : Lengths, sent : Nat, idx : 0..(IndexMod - 1), total : 0..(IndexMod - 1)]
    /\ air \subseteq Datagrams

\* The header identifies the fragment: of the datagrams that can arrive at one
\* time, no two from different places of one frame or of different frames
\* share sequence number and index, although both numbers wrap.
HeadersIdentify ==
    \A p, q \in air : p.seq = q.seq /\ p.idx = q.idx => p = q

\* What a receiver takes for a frame: all indices the count announces, under
\* one sequence number.
Collected(R) == \E p \in R : {q.idx : q \in R} = 0..(p.total - 1)

\* R, in the order of the indices, is one frame, and the mark of the last
\* fragment and the length in the header say where it ends.
IsFrame(R) ==
    /\ \A p, q \in R : p.age = q.age
    /\ \A q \in R : q.off = Payload * q.idx /\ (q.last <=> q.idx = q.total - 1)
    /\ \E n \in Lengths :
         /\ UNION {q.off..(q.off + q.size - 1) : q \in R} = 0..(n - 1)
         /\ \A q \in R : q.len = n /\ q.length = n % LengthMod

\* Whatever is lost, duplicated or reordered, a receiver that has collected a
\* frame has that frame, whole and unmixed (wifi_stream_send_frame).
Reassembles ==
    \A s \in 0..(SeqMod - 1) :
        \A R \in SUBSET {p \in air : p.seq = s} : Collected(R) => IsFrame(R)

=============================================================================
