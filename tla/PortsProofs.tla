---------------------------- MODULE PortsProofs ----------------------------
(***************************************************************************)
(* Proofs about Ports, for any number of senders and listeners and any     *)
(* packets that the code can make.                                         *)
(*                                                                         *)
(* What a thread does undisturbed is followed octet by octet: from the     *)
(* packet into sendingbuf (Assembled), from there into a datagram          *)
(* (InFlight), and out of that into tmpBuffer and the arrays of pkt        *)
(* (Handled).  What others do at the same time can spoil it, but not       *)
(* without leaving a mark: OneSender and OneListener say that a thread     *)
(* which has no mark is the only one at work.  Even then the length in     *)
(* front of a header is that of some packet, since the first octet of a    *)
(* buffer is only ever written as such, and listeners that relay at once   *)
(* count at most one octet each (Grown), so that no array is overrun.      *)
(***************************************************************************)
EXTENDS Ports, TLAPS, FiniteSetTheorems, SequenceTheorems, WellFoundedInduction

-----------------------------------------------------------------------------
(* The inductive invariant.                                                *)

\* Array or sequence b holds the octets of s from position i.
Holds(b, i, s) == \A k \in 1 .. Len(s) : b[i + k - 1] = s[k]

\* What the first octet of a datagram may be.
Lengths == {HeaderLength(p) : p \in Packets}

OneSender ==
  \A t, u \in Sender : doing[t] # "idle" /\ ~torn[t] /\ doing[u] # "idle" => u = t

Assembled ==
  \A t \in Sender : doing[t] # "idle" =>
    LET p == sending[t]
    IN  /\ p \in Packets /\ sendingbuf[1] \in Lengths
        /\ ~torn[t] =>
             /\ sendingbuf[1] = Len(p.hdr)
             /\ doing[t] \in {"payload", "sendto"} => Holds(sendingbuf, 2, p.hdr)
             /\ doing[t] = "sendto" => Holds(sendingbuf, 2 + Len(p.hdr), p.payload)

\* A datagram is as long as its packet, and its image if nobody disturbed the sender.
Whole(d) ==
  /\ d \in Datagram /\ d.of \in Packets
  /\ Len(d.octets) = 1 + Len(d.of.hdr) + Len(d.of.payload)
  /\ d.octets[1] \in Lengths
  /\ ~d.torn => /\ d.octets[1] = Len(d.of.hdr)
                /\ Holds(d.octets, 2, d.of.hdr)
                /\ Holds(d.octets, 2 + Len(d.of.hdr), d.of.payload)

InFlight == \A i \in DOMAIN channel : Whole(channel[i])

OneListener ==
  \A l, k \in Listener : at[l] # "idle" /\ ~crossed[l] /\ at[k] # "idle" => k = l

\* What each listener has at hand.
AtHand ==
  \A l \in Listener : at[l] # "idle" =>
    Whole(got[l]) /\ len[l] = Len(got[l].octets) /\ tmpBuffer[1] \in Lengths

\* What listener l has done for the packet it received, if nobody disturbed it.
InOrder(l) ==
  LET p == got[l].of
  IN  /\ at[l] \in {"extract", "fill"} =>
           /\ tmpBuffer[1] = Len(p.hdr)
           /\ Holds(tmpBuffer, 2, p.hdr) /\ Holds(tmpBuffer, 2 + Len(p.hdr), p.payload)
      /\ at[l] \in {"fill", "handle", "relay"} => size = Len(p.hdr) /\ Holds(info, 1, p.hdr)
      /\ at[l] \in {"handle", "relay", "send"} =>
           /\ psize = Len(p.payload) /\ Holds(payload, 1, p.payload)
           /\ psize <= longest
      /\ at[l] \in {"relay", "send"} => IsLSP(p) /\ TTL(p.hdr) # 0
      /\ at[l] = "relay" => ttl[l] = TTL(p.hdr)
      /\ at[l] = "send" => /\ size = Len(p.hdr) + 1
                           /\ Holds(info, 1, [p.hdr EXCEPT ![2] = NextTTL(TTL(p.hdr))])

Handled == \A l \in Listener : at[l] # "idle" /\ Undisturbed(l) => InOrder(l)

\* The listeners that may yet count an octet more before a header is extracted again.
Pending == {l \in Listener : at[l] \in {"fill", "handle", "relay"}}
Grown == size + Cardinality(Pending) < Size

\* Behind the longest payload the array is as it was when it was new.
Behind == longest < Size /\ \A k \in longest + 1 .. Size : payload[k] = payload[Size]

KeptOut ==
  \A l \in Listener : IsData(out[l]) /\ Undisturbed(l) => Len(got[l].of.payload) <= longest

SenderInv == OneSender /\ Assembled /\ InFlight

ListenerInv ==
  /\ OneListener /\ AtHand /\ Handled /\ Grown /\ Behind
  /\ RecordedAsSent /\ RelayedRight /\ PayloadKept /\ KeptOut

IInv == TypeOK /\ SenderInv /\ ListenerInv
-----------------------------------------------------------------------------
(* Arrays and sequences of octets.                                         *)

LEMMA LeastNumber ==
  ASSUME NEW T, T \subseteq Nat, T # {}
  PROVE  \E n \in T : \A m \in T : n <= m
<1>1. PICK n \in T : \A m \in T : ~(<<m, n>> \in OpToRel(<, Nat))
  BY NatLessThanWellFounded, WFMin
<1>2. \A m \in T : ~(m < n)
  BY <1>1 DEF OpToRel
<1>3. QED
  BY <1>2

LEMMA StrLenFacts ==
  ASSUME NEW s \in Seq(Octet)
  PROVE  /\ StrLen(s) \in 0 .. Len(s)
         /\ StrLen(s) = Len(s) \/ s[StrLen(s) + 1] = 0
         /\ \A i \in 1 .. StrLen(s) : s[i] # 0
<1> DEFINE T == {n \in 0 .. Len(s) : n = Len(s) \/ s[n + 1] = 0}
<1>1. Len(s) \in T /\ T \subseteq Nat
  OBVIOUS
<1>2. PICK n \in T : \A m \in T : n <= m
  BY <1>1, LeastNumber
<1>3. \A i \in 1 .. n : s[i] # 0
  <2> SUFFICES ASSUME NEW i \in 1 .. n, s[i] = 0 PROVE FALSE
    OBVIOUS
  <2>1. i - 1 \in T
    BY <1>2
  <2>2. n <= i - 1
    BY <1>2, <2>1
  <2>3. QED
    BY <1>2, <2>2
<1>4. n \in 0 .. Len(s) /\ (n = Len(s) \/ s[n + 1] = 0)
  BY <1>2
<1>5. \E k \in 0 .. Len(s) : (k = Len(s) \/ s[k + 1] = 0) /\ \A i \in 1 .. k : s[i] # 0
  BY <1>3, <1>4
<1>6. QED
  BY <1>5 DEF StrLen

LEMMA Numbers ==
  /\ Size \in Nat /\ Room \in Nat /\ MaxSends \in Nat /\ MaxTTL \in Nat /\ Size >= 8
  /\ Cardinality(Listener) \in Nat
BY SizesAssumption, ListenerAssumption, FS_CardinalityType

LEMMA ArrayFacts ==
  ASSUME NEW b \in Array
  PROVE  /\ b \in Seq(Octet) /\ Len(b) = Size /\ DOMAIN b = 1 .. Size
         /\ \A k \in 1 .. Size : b[k] \in Octet
BY Numbers DEF Array

LEMMA CopiedFacts ==
  ASSUME NEW b \in Array, NEW s \in Seq(Octet), NEW i \in Nat \ {0}
  PROVE  /\ Copied(b, s, i) \in Array
         /\ \A k \in 1 .. Size : Copied(b, s, i)[k] =
              IF k \in i .. i + Len(s) - 1 THEN s[k - i + 1] ELSE b[k]
<1>1. DOMAIN b = 1 .. Size /\ \A k \in 1 .. Size : b[k] \in Octet
  BY ArrayFacts
<1>2. Copied(b, s, i) = [k \in 1 .. Size |-> IF k \in i .. i + Len(s) - 1 THEN s[k - i + 1] ELSE b[k]]
  BY <1>1 DEF Copied
<1>3. \A k \in i .. i + Len(s) - 1 : s[k - i + 1] \in Octet
  OBVIOUS
<1>4. QED
  BY <1>1, <1>2, <1>3 DEF Array

\* What is copied is there, and what lies before or behind it is kept.
LEMMA HoldsCopied ==
  ASSUME NEW b \in Array, NEW s \in Seq(Octet), NEW i \in Nat \ {0}, i + Len(s) - 1 <= Size
  PROVE  Holds(Copied(b, s, i), i, s)
<1> SUFFICES ASSUME NEW k \in 1 .. Len(s) PROVE Copied(b, s, i)[i + k - 1] = s[k]
  BY DEF Holds
<1>1. i + k - 1 \in 1 .. Size /\ i + k - 1 \in i .. i + Len(s) - 1 /\ (i + k - 1) - i + 1 = k
  BY Numbers
<1>2. QED
  BY <1>1, CopiedFacts

LEMMA HoldsKept ==
  ASSUME NEW b \in Array, NEW s \in Seq(Octet), NEW i \in Nat \ {0},
         NEW r \in Seq(Octet), NEW j \in Nat \ {0}, j + Len(r) - 1 <= Size, Holds(b, j, r),
         j + Len(r) <= i \/ i + Len(s) <= j
  PROVE  Holds(Copied(b, s, i), j, r)
<1> SUFFICES ASSUME NEW k \in 1 .. Len(r) PROVE Copied(b, s, i)[j + k - 1] = r[k]
  BY DEF Holds
<1>1. j + k - 1 \in 1 .. Size /\ j + k - 1 \notin i .. i + Len(s) - 1
  BY Numbers
<1>2. \A n \in 1 .. Size : Copied(b, s, i)[n] =
        IF n \in i .. i + Len(s) - 1 THEN s[n - i + 1] ELSE b[n]
  BY CopiedFacts
<1>3. Copied(b, s, i)[j + k - 1] = b[j + k - 1]
  BY <1>1, <1>2
<1>4. QED
  BY <1>3 DEF Holds

\* A part of an array.
LEMMA SubFacts ==
  ASSUME NEW b \in Array, NEW m \in 1 .. Size, NEW n \in Nat, m <= n + 1, n <= Size
  PROVE  /\ SubSeq(b, m, n) \in Seq(Octet) /\ Len(SubSeq(b, m, n)) = n - m + 1
         /\ \A k \in 1 .. n - m + 1 : SubSeq(b, m, n)[k] = b[m + k - 1]
<1>1. \A k \in m .. n : b[k] \in Octet
  BY ArrayFacts, Numbers
<1>2. m \in Int /\ n \in Int
  BY Numbers
<1>3. Len(SubSeq(b, m, n)) = IF m <= n THEN n - m + 1 ELSE 0
  BY <1>1, <1>2, SubSeqProperties
<1>4. QED
  BY <1>1, <1>2, <1>3, SubSeqProperties

\* The part of an array where it holds a sequence is that sequence.
LEMMA HoldsSub ==
  ASSUME NEW b \in Array, NEW s \in Seq(Octet), NEW i \in 1 .. Size, i + Len(s) - 1 <= Size,
         Holds(b, i, s)
  PROVE  SubSeq(b, i, i + Len(s) - 1) = s
<1> DEFINE n == i + Len(s) - 1
           r == SubSeq(b, i, n)
<1>0. n \in Nat /\ i <= n + 1 /\ n <= Size
  BY Numbers
<1> HIDE DEF n
<1>1. r \in Seq(Octet) /\ Len(r) = n - i + 1 /\ \A k \in 1 .. n - i + 1 : r[k] = b[i + k - 1]
  BY <1>0, SubFacts
<1> USE DEF n
<1>2. Len(r) = Len(s)
  BY <1>1, Numbers
<1>3. \A k \in 1 .. Len(s) : r[k] = s[k]
  BY <1>1, <1>2 DEF Holds
<1> HIDE DEF r
<1>4. QED
  BY <1>1, <1>2, <1>3

LEMMA PacketFacts ==
  ASSUME NEW p \in Packets
  PROVE  /\ p \in Packet /\ p.hdr \in Seq(Octet) /\ p.payload \in Seq(Octet)
         /\ Len(p.hdr) \in 1 .. 127 /\ Len(p.payload) \in Nat
         /\ 1 + Len(p.hdr) + Len(p.payload) + Cardinality(Listener) <= Size
         /\ HeaderLength(p) = Len(p.hdr)
         /\ \A i \in DOMAIN p.payload : p.payload[i] # 0
         /\ IsLSP(p) \/ IsData(p) => 4 <= Len(p.hdr)
         /\ IsLSP(p) => /\ 4 + p.hdr[4] <= Len(p.hdr) /\ GrownByHops(p)
                        /\ TTL(p.hdr) \in 0 .. MaxTTL /\ p.payload = <<>>
         /\ IsData(p) => p.hdr[4] - Char.zero \in 1 .. 3
         /\ p # None
<1>1. p \in Packet /\ p.hdr \in Seq(Octet) /\ p.payload \in Seq(Octet)
  BY PacketsAssumption DEF Packet
<1>2. /\ Len(p.hdr) \in 1 .. 127
      /\ 1 + Len(p.hdr) + Len(p.payload) + Cardinality(Listener) <= Size
      /\ \A i \in DOMAIN p.payload : p.payload[i] # 0
  BY PacketsAssumption
<1>3. /\ IsLSP(p) \/ IsData(p) => 4 <= Len(p.hdr)
      /\ IsLSP(p) => /\ 4 + p.hdr[4] <= Len(p.hdr) /\ GrownByHops(p)
                     /\ TTL(p.hdr) \in 0 .. MaxTTL /\ p.payload = <<>>
      /\ IsData(p) => p.hdr[4] - Char.zero \in 1 .. 3
  BY PacketsAssumption
<1>4. Len(p.payload) \in Nat
  BY <1>1
<1>5. \A n \in 1 .. 127 : n % 256 = n
  OBVIOUS
<1>6. HeaderLength(p) = Len(p.hdr)
  BY <1>2, <1>5 DEF HeaderLength
<1>7. p # None
  <2> SUFFICES ASSUME p = None PROVE FALSE
    OBVIOUS
  <2>1. p.hdr = <<>>
    BY DEF None
  <2>2. Len(p.hdr) = 0
    BY <2>1
  <2>3. QED
    BY <1>2, <2>2
<1>8. QED
  BY <1>1, <1>2, <1>3, <1>4, <1>6, <1>7

\* Numbers of octets, and places in an array.
LEMMA PacketRoom ==
  ASSUME NEW p \in Packets
  PROVE  /\ p.hdr \in Seq(Octet) /\ p.payload \in Seq(Octet)
         /\ Len(p.hdr) \in Nat /\ Len(p.payload) \in Nat
         /\ 2 + Len(p.hdr) - 1 <= Size
         /\ 2 + Len(p.hdr) \in Nat \ {0} /\ 2 + Len(p.hdr) > 1
         /\ (2 + Len(p.hdr)) + Len(p.payload) - 1 <= Size
<1>1. p.hdr \in Seq(Octet) /\ p.payload \in Seq(Octet) /\ Len(p.hdr) \in Nat /\ Len(p.payload) \in Nat
  <2>1. p.hdr \in Seq(Octet) /\ p.payload \in Seq(Octet)
    BY PacketFacts
  <2>2. QED
    BY <2>1
<1>2. 1 + Len(p.hdr) + Len(p.payload) + Cardinality(Listener) <= Size
  BY PacketFacts
<1>3. \A x, y, c, n \in Nat : 1 + x + y + c <= n =>
        2 + x - 1 <= n /\ 2 + x \in Nat \ {0} /\ 2 + x > 1 /\ (2 + x) + y - 1 <= n
  OBVIOUS
<1>4. Cardinality(Listener) \in Nat /\ Size \in Nat
  BY Numbers
<1>5. QED
  BY <1>1, <1>2, <1>3, <1>4

LEMMA LengthsFacts ==
  ASSUME NEW a \in Lengths
  PROVE  a \in Octet /\ a \in 1 .. 127 /\ 1 + a + Cardinality(Listener) <= Size
<1>1. PICK p \in Packets : a = HeaderLength(p)
  BY DEF Lengths
<1>2. a = Len(p.hdr) /\ Len(p.hdr) \in 1 .. 127 /\ Len(p.payload) \in Nat
  BY <1>1, PacketFacts
<1>3. 1 + Len(p.hdr) + Len(p.payload) + Cardinality(Listener) <= Size
  BY <1>1, PacketFacts
<1>4. a \in 1 .. 127 /\ a \in Octet
  BY <1>2 DEF Octet
<1>5. 1 + a + Cardinality(Listener) <= Size
  <2>1. \A x \in 1 .. 127, y, c, n \in Nat : 1 + x + y + c <= n => 1 + x + c <= n
    OBVIOUS
  <2>2. Cardinality(Listener) \in Nat /\ Size \in Nat
    BY Numbers
  <2>3. QED
    BY <1>2, <1>3, <2>1, <2>2
<1>6. QED
  BY <1>4, <1>5

LEMMA PendingFacts ==
  IsFiniteSet(Pending) /\ Pending \subseteq Listener
    /\ Cardinality(Pending) \in Nat /\ Cardinality(Pending) <= Cardinality(Listener)
<1>1. Pending \subseteq Listener
  BY DEF Pending
<1>2. QED
  BY <1>1, ListenerAssumption, FS_Subset, FS_CardinalityType

\* A sequence that an array holds within its first octets is held by these as well.
LEMMA HoldsWithin ==
  ASSUME NEW b \in Array, NEW n \in Nat, n <= Size, NEW i \in Nat \ {0}, NEW s \in Seq(Octet),
         i + Len(s) - 1 <= n, Holds(b, i, s)
  PROVE  Holds(SubSeq(b, 1, n), i, s)
<1> SUFFICES ASSUME NEW k \in 1 .. Len(s) PROVE SubSeq(b, 1, n)[i + k - 1] = s[k]
  BY DEF Holds
<1>1. 1 \in 1 .. Size /\ 1 <= n + 1
  BY Numbers
<1>2. \A j \in 1 .. n - 1 + 1 : SubSeq(b, 1, n)[j] = b[1 + j - 1]
  BY <1>1, SubFacts
<1>3. i + k - 1 \in 1 .. n - 1 + 1 /\ 1 + (i + k - 1) - 1 = i + k - 1
  OBVIOUS
<1>4. SubSeq(b, 1, n)[i + k - 1] = b[i + k - 1]
  BY <1>2, <1>3
<1>5. QED
  BY <1>4 DEF Holds

-----------------------------------------------------------------------------
(* Where nothing is at work.                                               *)

LEMMA InitInvariant == Init => IInv
<1> SUFFICES ASSUME Init PROVE IInv
  OBVIOUS
<1> USE DEF Init
<1>1. PICK c \in Fresh : \A b \in {sendingbuf, tmpBuffer, info, payload} : b = [i \in 1 .. Size |-> c]
  OBVIOUS
<1>2. c \in Octet
  BY SizesAssumption
<1>3. {sendingbuf, tmpBuffer, info, payload} \subseteq Array
  BY <1>1, <1>2 DEF Array
<1>4. None \in Packet /\ NoDatagram \in Datagram /\ Nothing \in [source : Octet, nhops : Seq(Octet)]
  BY DEF None, Packet, NoDatagram, Datagram, Nothing, Octet
<1>5. channel \in Seq(Datagram) /\ Len(channel) = 0 /\ 0 \in 0 .. MaxSends /\ 0 <= Room /\ 0 \in 0 .. Size
  BY Numbers
<1>6. TypeOK
  <2>1. sending \in [Sender -> Packets \cup {None}]
    OBVIOUS
  <2>2. /\ got \in [Listener -> Datagram] /\ out \in [Listener -> Packet]
        /\ recorded \in [Listener -> [source : Octet, nhops : Seq(Octet)]]
    BY <1>4
  <2>3. ttl \in [Listener -> -Char.zero .. 255 - Char.zero]
    BY DEF Char
  <2>4. QED
    BY <1>3, <1>5, <2>1, <2>2, <2>3 DEF TypeOK
<1>7. SenderInv
  BY DEF SenderInv, OneSender, Assembled, InFlight
<1>8. Pending = {} /\ Cardinality(Pending) = 0
  BY FS_EmptySet DEF Pending
<1>9. Grown
  BY <1>8, Numbers DEF Grown
<1>10. Behind
  <2>1. Size \in 1 .. Size
    BY Numbers
  <2>2. \A k \in 0 + 1 .. Size : payload[k] = c
    BY <1>1
  <2>3. QED
    BY <2>1, <2>2, Numbers DEF Behind
<1>11. OneListener /\ AtHand /\ Handled /\ RecordedAsSent
  BY DEF OneListener, AtHand, Handled, RecordedAsSent
<1>12. \A l \in Listener : ~IsLSP(out[l]) /\ ~IsData(out[l])
  BY DEF IsLSP, IsData, None
<1>13. RelayedRight /\ PayloadKept /\ KeptOut
  BY <1>12 DEF RelayedRight, PayloadKept, KeptOut
<1>14. QED
  BY <1>6, <1>7, <1>9, <1>10, <1>11, <1>13 DEF IInv, ListenerInv

LEMMA SenderKept ==
  ASSUME SenderInv, UNCHANGED <<sendVars, channel>> PROVE SenderInv'
BY DEF SenderInv, OneSender, Assembled, InFlight, sendVars

LEMMA ListenerKept ==
  ASSUME ListenerInv, UNCHANGED <<handling, tmpBuffer, pkt, results, longest>>
  PROVE  ListenerInv'
<1>1. /\ at' = at /\ len' = len /\ got' = got /\ crossed' = crossed /\ tmpBuffer' = tmpBuffer
      /\ info' = info /\ size' = size /\ payload' = payload /\ psize' = psize
      /\ ttl' = ttl /\ recorded' = recorded /\ out' = out /\ longest' = longest
  BY DEF handling, pkt, results
<1>2. \A l \in Listener : Undisturbed(l)' = Undisturbed(l)
  BY <1>1 DEF Undisturbed
<1>3. OneListener' /\ AtHand'
  BY <1>1 DEF ListenerInv, OneListener, AtHand
<1>4. Handled'
  BY <1>1, <1>2 DEF ListenerInv, Handled, InOrder
<1>5. Grown' /\ Behind'
  BY <1>1 DEF ListenerInv, Grown, Pending, Behind
<1>6. RecordedAsSent' /\ RelayedRight' /\ PayloadKept' /\ KeptOut'
  BY <1>1, <1>2 DEF ListenerInv, RecordedAsSent, RelayedRight, PayloadKept, KeptOut
<1>7. QED
  BY <1>3, <1>4, <1>5, <1>6 DEF ListenerInv

-----------------------------------------------------------------------------
(* Steps of a sender.                                                      *)

\* The only sender at work that nobody disturbed is the one that takes a step.
LEMMA AloneSending ==
  ASSUME SenderInv, NEW t \in Sender, doing[t] # "idle",
         NEW u \in Sender, doing[u] # "idle", ~torn[u]
  PROVE  u = t
BY DEF SenderInv, OneSender

LEMMA StartPacketStep ==
  ASSUME IInv, NEW t \in Sender, NEW p \in Packets, StartPacket(t, p)
  PROVE  IInv'
<1> USE DEF StartPacket
<1> DEFINE others == {u \in Sender \ {t} : doing[u] # "idle"}
           s == <<HeaderLength(p), 0>>
<1>0. TypeOK /\ SenderInv /\ ListenerInv
  BY DEF IInv
<1>1. HeaderLength(p) = Len(p.hdr) /\ HeaderLength(p) \in Lengths /\ s \in Seq(Octet) /\ Len(s) = 2
  <2>1. HeaderLength(p) \in Lengths /\ HeaderLength(p) = Len(p.hdr)
    BY PacketFacts DEF Lengths
  <2>2. HeaderLength(p) \in Octet /\ 0 \in Octet
    <3>1. HeaderLength(p) \in Octet
      BY <2>1, LengthsFacts
    <3>2. QED
      BY <3>1 DEF Octet
  <2>3. QED
    BY <2>1, <2>2
<1>2. sendingbuf \in Array
  BY <1>0 DEF TypeOK
<1>3. /\ sendingbuf' \in Array
      /\ \A k \in 1 .. Size : sendingbuf'[k] =
           IF k \in 1 .. 1 + Len(s) - 1 THEN s[k - 1 + 1] ELSE sendingbuf[k]
  <2>1. 1 \in Nat \ {0} /\ sendingbuf' = Copied(sendingbuf, s, 1)
    OBVIOUS
  <2> HIDE DEF s
  <2>2. /\ Copied(sendingbuf, s, 1) \in Array
        /\ \A k \in 1 .. Size : Copied(sendingbuf, s, 1)[k] =
             IF k \in 1 .. 1 + Len(s) - 1 THEN s[k - 1 + 1] ELSE sendingbuf[k]
    BY <1>1, <1>2, <2>1, CopiedFacts
  <2>3. QED
    BY <2>1, <2>2
<1>4. sendingbuf'[1] = HeaderLength(p)
  <2>1. 1 \in 1 .. Size /\ 1 \in 1 .. 1 + Len(s) - 1
    BY <1>1, Numbers
  <2>2. sendingbuf'[1] = s[1 - 1 + 1]
    BY <1>3, <2>1
  <2>3. QED
    BY <2>2
<1>5. TypeOK'
  <2>1. sends' \in 0 .. MaxSends
    BY <1>0, Numbers DEF TypeOK
  <2>2. /\ doing' \in [Sender -> {"idle", "header", "payload", "sendto"}]
        /\ sending' \in [Sender -> Packets \cup {None}]
    BY <1>0 DEF TypeOK, Step
  <2>3. torn' \in [Sender -> BOOLEAN]
    <3>1. \A u \in Sender : (IF u = t THEN others # {} ELSE torn[u] \/ u \in others) \in BOOLEAN
      BY <1>0 DEF TypeOK
    <3>2. QED
      BY <3>1
  <2>4. QED
    BY <1>0, <1>3, <2>1, <2>2, <2>3 DEF TypeOK, handling, pkt, results
<1>6. SenderInv'
  <2>1. doing'[t] = "header" /\ sending'[t] = p /\ \A u \in Sender \ {t} :
          doing'[u] = doing[u] /\ sending'[u] = sending[u]
    BY <1>0 DEF TypeOK, Step
  <2>2. torn'[t] = (others # {}) /\ \A u \in Sender \ {t} : torn'[u] = (torn[u] \/ u \in others)
    OBVIOUS
  <2>3. \A u \in Sender \ {t} : doing'[u] # "idle" => torn'[u] /\ others # {}
    BY <2>1, <2>2
  <2>4. OneSender'
    <3> SUFFICES ASSUME NEW v \in Sender, NEW u \in Sender,
                        doing'[v] # "idle", ~torn'[v], doing'[u] # "idle"
                 PROVE  u = v
      BY DEF OneSender
    <3>1. v = t
      BY <2>3
    <3>2. QED
      BY <2>2, <2>3, <3>1
  <2>5. Assembled'
    <3> SUFFICES ASSUME NEW u \in Sender, doing'[u] # "idle"
                 PROVE  LET q == sending'[u]
                        IN  /\ q \in Packets /\ sendingbuf'[1] \in Lengths
                            /\ ~torn'[u] =>
                                 /\ sendingbuf'[1] = Len(q.hdr)
                                 /\ doing'[u] \in {"payload", "sendto"} => Holds(sendingbuf', 2, q.hdr)
                                 /\ doing'[u] = "sendto" => Holds(sendingbuf', 2 + Len(q.hdr), q.payload)
      BY DEF Assembled, Holds
    <3>1. CASE u = t
      BY <1>1, <1>4, <2>1, <3>1
    <3>2. CASE u # t
      BY <1>0, <1>1, <1>4, <2>1, <2>3, <3>2 DEF SenderInv, Assembled
    <3>3. QED
      BY <3>1, <3>2
  <2>6. InFlight'
    BY <1>0 DEF SenderInv, InFlight
  <2>7. QED
    BY <2>4, <2>5, <2>6 DEF SenderInv
<1>7. ListenerInv'
  BY <1>0, ListenerKept
<1>8. QED
  BY <1>5, <1>6, <1>7 DEF IInv

\* A packet that is copied into the buffer fits there.
LEMMA CopyHeaderStep ==
  ASSUME IInv, NEW t \in Sender, CopyHeader(t)
  PROVE  IInv'
<1> USE DEF CopyHeader
<1> DEFINE p == sending[t]
<1>0. TypeOK /\ SenderInv /\ ListenerInv /\ doing[t] # "idle" /\ p \in Packets /\ sendingbuf[1] \in Lengths
  BY DEF IInv, SenderInv, Assembled
<1>1. /\ p.hdr \in Seq(Octet) /\ 2 + Len(p.hdr) - 1 <= Size
  BY <1>0, PacketRoom
<1>2. sendingbuf \in Array
  BY <1>0 DEF TypeOK
<1>3. /\ sendingbuf' \in Array
      /\ \A k \in 1 .. Size : sendingbuf'[k] =
           IF k \in 2 .. 2 + Len(p.hdr) - 1 THEN p.hdr[k - 2 + 1] ELSE sendingbuf[k]
  <2>1. 2 \in Nat \ {0} /\ sendingbuf' = Copied(sendingbuf, p.hdr, 2)
    OBVIOUS
  <2>2. /\ Copied(sendingbuf, p.hdr, 2) \in Array
        /\ \A k \in 1 .. Size : Copied(sendingbuf, p.hdr, 2)[k] =
             IF k \in 2 .. 2 + Len(p.hdr) - 1 THEN p.hdr[k - 2 + 1] ELSE sendingbuf[k]
    BY <1>1, <1>2, <2>1, CopiedFacts
  <2>3. QED
    BY <2>1, <2>2
<1>4. sendingbuf'[1] = sendingbuf[1]
  BY <1>3, Numbers
<1>5. Holds(sendingbuf', 2, p.hdr)
  BY <1>1, <1>2, HoldsCopied
<1>6. doing'[t] = "payload" /\ \A u \in Sender \ {t} : doing'[u] = doing[u]
  BY <1>0 DEF TypeOK, Step
<1>7. TypeOK'
  BY <1>0, <1>3 DEF TypeOK, Step, handling, pkt, results
<1>8. SenderInv'
  <2>1. OneSender' /\ InFlight'
    BY <1>0, <1>6 DEF SenderInv, OneSender, InFlight
  <2>2. Assembled'
    <3> SUFFICES ASSUME NEW u \in Sender, doing'[u] # "idle"
                 PROVE  /\ sending[u] \in Packets /\ sendingbuf'[1] \in Lengths
                        /\ ~torn[u] =>
                             /\ sendingbuf'[1] = Len(sending[u].hdr)
                             /\ doing'[u] \in {"payload", "sendto"} => Holds(sendingbuf', 2, sending[u].hdr)
                             /\ doing'[u] = "sendto" =>
                                  Holds(sendingbuf', 2 + Len(sending[u].hdr), sending[u].payload)
      BY DEF Assembled, Holds
    <3>1. doing[u] # "idle"
      BY <1>0, <1>6
    <3>2. sending[u] \in Packets /\ (~torn[u] => sendingbuf[1] = Len(sending[u].hdr))
      BY <1>0, <3>1 DEF SenderInv, Assembled
    <3>3. ~torn[u] => u = t
      BY <1>0, <3>1, AloneSending
    <3>4. QED
      BY <1>0, <1>4, <1>5, <1>6, <3>2, <3>3
  <2>3. QED
    BY <2>1, <2>2 DEF SenderInv
<1>9. ListenerInv'
  BY <1>0, ListenerKept
<1>10. QED
  BY <1>7, <1>8, <1>9 DEF IInv

LEMMA CopyPayloadStep ==
  ASSUME IInv, NEW t \in Sender, CopyPayload(t)
  PROVE  IInv'
<1> USE DEF CopyPayload
<1> DEFINE p == sending[t]
           i == 2 + Len(p.hdr)
<1>0. TypeOK /\ SenderInv /\ ListenerInv /\ doing[t] # "idle" /\ p \in Packets /\ sendingbuf[1] \in Lengths
  BY DEF IInv, SenderInv, Assembled
<1>1. /\ p.hdr \in Seq(Octet) /\ p.payload \in Seq(Octet) /\ i \in Nat \ {0}
      /\ Len(p.payload) \in Nat /\ i > 1 /\ 2 + Len(p.hdr) - 1 <= Size /\ i + Len(p.payload) - 1 <= Size
  BY <1>0, PacketRoom
<1>2. sendingbuf \in Array
  BY <1>0 DEF TypeOK
<1>3. /\ sendingbuf' \in Array
      /\ \A k \in 1 .. Size : sendingbuf'[k] =
           IF k \in i .. i + Len(p.payload) - 1 THEN p.payload[k - i + 1] ELSE sendingbuf[k]
  BY <1>1, <1>2, CopiedFacts
<1>4. sendingbuf'[1] = sendingbuf[1]
  <2>1. \A n, m \in Nat : n > 1 => 1 \notin n .. n + m - 1
    OBVIOUS
  <2>2. 1 \notin i .. i + Len(p.payload) - 1 /\ 1 \in 1 .. Size
    <3>1. 1 \in 1 .. Size /\ i \in Nat
      BY <1>1, Numbers
    <3> HIDE DEF i
    <3>2. QED
      BY <1>1, <2>1, <3>1
  <2>3. QED
    BY <1>3, <2>2
<1>5. Holds(sendingbuf', i, p.payload)
  BY <1>1, <1>2, HoldsCopied
<1>6. Holds(sendingbuf, 2, p.hdr) => Holds(sendingbuf', 2, p.hdr)
  BY <1>1, <1>2, HoldsKept
<1>7. doing'[t] = "sendto" /\ \A u \in Sender \ {t} : doing'[u] = doing[u]
  BY <1>0 DEF TypeOK, Step
<1>8. TypeOK'
  BY <1>0, <1>3 DEF TypeOK, Step, handling, pkt, results
<1>9. SenderInv'
  <2>1. OneSender' /\ InFlight'
    BY <1>0, <1>7 DEF SenderInv, OneSender, InFlight
  <2>2. Assembled'
    <3> SUFFICES ASSUME NEW u \in Sender, doing'[u] # "idle"
                 PROVE  /\ sending[u] \in Packets /\ sendingbuf'[1] \in Lengths
                        /\ ~torn[u] =>
                             /\ sendingbuf'[1] = Len(sending[u].hdr)
                             /\ doing'[u] \in {"payload", "sendto"} => Holds(sendingbuf', 2, sending[u].hdr)
                             /\ doing'[u] = "sendto" =>
                                  Holds(sendingbuf', 2 + Len(sending[u].hdr), sending[u].payload)
      BY DEF Assembled, Holds
    <3>1. doing[u] # "idle"
      BY <1>0, <1>7
    <3>2. sending[u] \in Packets /\ (~torn[u] => sendingbuf[1] = Len(sending[u].hdr))
      BY <1>0, <3>1 DEF SenderInv, Assembled
    <3>3. ~torn[u] => u = t
      BY <1>0, <3>1, AloneSending
    <3>4. ~torn[t] => Holds(sendingbuf', 2, p.hdr)
      BY <1>0, <1>6 DEF SenderInv, Assembled
    <3>5. QED
      BY <1>0, <1>4, <1>5, <3>2, <3>3, <3>4
  <2>3. QED
    BY <2>1, <2>2 DEF SenderInv
<1>10. ListenerInv'
  BY <1>0, ListenerKept
<1>11. QED
  BY <1>8, <1>9, <1>10 DEF IInv

\* What goes out is the buffer as far as the packet is long.
LEMMA SentWhole ==
  ASSUME IInv, NEW t \in Sender, doing[t] = "sendto"
  PROVE  LET p == sending[t]
         IN  Whole([octets |-> SubSeq(sendingbuf, 1, 1 + Len(p.hdr) + Len(p.payload)),
                    of |-> p, torn |-> torn[t]])
<1> DEFINE p == sending[t]
           n == 1 + Len(p.hdr) + Len(p.payload)
           o == SubSeq(sendingbuf, 1, n)
           d == [octets |-> o, of |-> p, torn |-> torn[t]]
<1>1. p \in Packets /\ sendingbuf[1] \in Lengths /\ sendingbuf \in Array /\ torn[t] \in BOOLEAN
  BY DEF IInv, SenderInv, Assembled, TypeOK
<1>2. ~torn[t] => /\ sendingbuf[1] = Len(p.hdr)
                  /\ Holds(sendingbuf, 2, p.hdr)
                  /\ Holds(sendingbuf, 2 + Len(p.hdr), p.payload)
  BY DEF IInv, SenderInv, Assembled
<1>3. /\ p \in Packet /\ p.hdr \in Seq(Octet) /\ p.payload \in Seq(Octet)
      /\ n \in Nat /\ n >= 1 /\ n <= Size /\ 2 + Len(p.hdr) - 1 <= n
      /\ 2 + Len(p.hdr) \in Nat \ {0} /\ (2 + Len(p.hdr)) + Len(p.payload) - 1 <= n
  <2>1. /\ Len(p.hdr) \in Nat /\ Len(p.payload) \in Nat
        /\ p.hdr \in Seq(Octet) /\ p.payload \in Seq(Octet)
        /\ (2 + Len(p.hdr)) + Len(p.payload) - 1 <= Size
    BY <1>1, PacketRoom
  <2>2. \A x, y \in Nat : /\ 1 + x + y \in Nat /\ 1 + x + y >= 1 /\ 2 + x - 1 <= 1 + x + y
                          /\ 2 + x \in Nat \ {0} /\ (2 + x) + y - 1 <= 1 + x + y
    OBVIOUS
  <2>3. p \in Packet
    BY <1>1, PacketFacts
  <2>4. /\ n \in Nat /\ n >= 1 /\ 2 + Len(p.hdr) - 1 <= n
        /\ 2 + Len(p.hdr) \in Nat \ {0} /\ (2 + Len(p.hdr)) + Len(p.payload) - 1 <= n
    BY <2>1, <2>2
  <2>5. n <= Size
    <3>1. \A x, y, z \in Nat : (2 + x) + y - 1 <= z => 1 + x + y <= z
      OBVIOUS
    <3>2. QED
      BY <2>1, <3>1, Numbers
  <2>6. QED
    BY <2>1, <2>3, <2>4, <2>5
<1> HIDE DEF n
<1>4. o \in Seq(Octet) /\ Len(o) = n /\ o[1] = sendingbuf[1]
  <2>1. 1 \in 1 .. Size /\ 1 <= n + 1
    BY <1>3, Numbers
  <2>2. o \in Seq(Octet) /\ Len(o) = n - 1 + 1 /\ \A k \in 1 .. n - 1 + 1 : o[k] = sendingbuf[1 + k - 1]
    BY <1>1, <1>3, <2>1, SubFacts
  <2>3. QED
    BY <1>3, <2>2
<1>5. ~torn[t] => Holds(o, 2, p.hdr)
  BY <1>1, <1>2, <1>3, HoldsWithin, 2 \in Nat \ {0}
<1>6. ~torn[t] => Holds(o, 2 + Len(p.hdr), p.payload)
  BY <1>1, <1>2, <1>3, HoldsWithin
<1> HIDE DEF o, p
<1>7. d \in Datagram
  BY <1>1, <1>3, <1>4 DEF Datagram
<1>8. d.octets = o /\ d.of = p /\ d.torn = torn[t]
  OBVIOUS
<1> HIDE DEF d
<1>9. Whole(d)
  BY <1>1, <1>2, <1>4, <1>5, <1>6, <1>7, <1>8 DEF Whole, n, p
<1>10. QED
  BY <1>9 DEF d, o, n, p

LEMMA SendToStep ==
  ASSUME IInv, NEW t \in Sender, SendTo(t)
  PROVE  IInv'
<1> USE DEF SendTo
<1> DEFINE p == sending[t]
           d == [octets |-> SubSeq(sendingbuf, 1, 1 + Len(p.hdr) + Len(p.payload)),
                 of |-> p, torn |-> torn[t]]
<1>0. TypeOK /\ SenderInv /\ ListenerInv
  BY DEF IInv
<1>1. Whole(d)
  BY SentWhole
<1>2. d \in Datagram
  BY <1>1 DEF Whole
<1>3. channel' = channel \/ (Len(channel) < Room /\ channel' = Append(channel, d))
  OBVIOUS
<1> HIDE DEF d
<1>4. channel \in Seq(Datagram) /\ Len(channel) <= Room
  BY <1>0 DEF TypeOK
<1>5. channel' \in Seq(Datagram) /\ Len(channel') <= Room
  BY <1>2, <1>3, <1>4, Numbers
<1>6. InFlight'
  <2>1. InFlight
    BY <1>0 DEF SenderInv
  <2>2. CASE channel' = channel
    BY <2>1, <2>2 DEF InFlight
  <2>3. CASE channel' = Append(channel, d)
    <3> SUFFICES ASSUME NEW i \in DOMAIN channel' PROVE Whole(channel'[i])
      BY DEF InFlight, Whole, Holds
    <3>1. CASE i \in DOMAIN channel
      BY <1>4, <2>1, <2>3, <3>1 DEF InFlight
    <3>2. CASE i \notin DOMAIN channel
      <4>1. i = Len(channel) + 1
        BY <1>2, <1>4, <2>3, <3>2
      <4>2. channel'[i] = d
        BY <1>2, <1>4, <2>3, <4>1
      <4>3. QED
        BY <1>1, <4>2
    <3>3. QED
      BY <3>1, <3>2
  <2>4. QED
    BY <1>3, <2>2, <2>3
<1>7. TypeOK'
  <2>1. /\ doing' \in [Sender -> {"idle", "header", "payload", "sendto"}]
        /\ sending' \in [Sender -> Packets \cup {None}] /\ torn' \in [Sender -> BOOLEAN]
    BY <1>0 DEF TypeOK, Step
  <2>2. QED
    BY <1>0, <1>5, <2>1 DEF TypeOK, handling, pkt, results
<1>8. doing'[t] = "idle" /\ \A u \in Sender \ {t} :
        doing'[u] = doing[u] /\ sending'[u] = sending[u] /\ torn'[u] = torn[u]
  BY <1>0 DEF TypeOK, Step
<1>9. OneSender'
  BY <1>0, <1>8 DEF SenderInv, OneSender
<1>10. Assembled'
  <2> SUFFICES ASSUME NEW u \in Sender, doing'[u] # "idle"
               PROVE  LET q == sending'[u]
                      IN  /\ q \in Packets /\ sendingbuf[1] \in Lengths
                          /\ ~torn'[u] =>
                               /\ sendingbuf[1] = Len(q.hdr)
                               /\ doing'[u] \in {"payload", "sendto"} => Holds(sendingbuf, 2, q.hdr)
                               /\ doing'[u] = "sendto" => Holds(sendingbuf, 2 + Len(q.hdr), q.payload)
    BY DEF Assembled, Holds
  <2>1. u \in Sender \ {t}
    BY <1>8
  <2>2. QED
    BY <1>0, <1>8, <2>1 DEF SenderInv, Assembled
<1>11. ListenerInv'
  BY <1>0, ListenerKept
<1>12. QED
  BY <1>6, <1>7, <1>9, <1>10, <1>11 DEF IInv, SenderInv

-----------------------------------------------------------------------------
(* Steps of a listener.                                                    *)

\* The only listener at work that nobody disturbed is the one that takes a step.
LEMMA AloneListening ==
  ASSUME ListenerInv, NEW l \in Listener, at[l] # "idle",
         NEW k \in Listener, at[k] # "idle", Undisturbed(k)
  PROVE  k = l
BY DEF ListenerInv, OneListener, Undisturbed

\* What every step of listener l after Receive leaves as it is.
LEMMA StepKeeps ==
  ASSUME TypeOK, ListenerInv, NEW l \in Listener, at[l] # "idle",
         NEW a \in {"idle", "extract", "fill", "handle", "relay", "send"},
         Goto(l, a), UNCHANGED <<len, got, crossed, tmpBuffer>>
  PROVE  /\ at' \in [Listener -> {"idle", "extract", "fill", "handle", "relay", "send"}]
         /\ at'[l] = a /\ \A k \in Listener \ {l} : at'[k] = at[k]
         /\ \A k \in Listener : Undisturbed(k)' = Undisturbed(k)
         /\ \A k \in Listener : at'[k] # "idle" /\ Undisturbed(k)' => k = l
         /\ OneListener' /\ AtHand'
<1>1. /\ at' \in [Listener -> {"idle", "extract", "fill", "handle", "relay", "send"}]
      /\ at'[l] = a /\ \A k \in Listener \ {l} : at'[k] = at[k]
  BY DEF TypeOK, Goto
<1>2. \A k \in Listener : Undisturbed(k)' = Undisturbed(k)
  BY DEF Undisturbed
<1>3. \A k \in Listener : at'[k] # "idle" => at[k] # "idle"
  BY <1>1
<1>4. \A k \in Listener : at'[k] # "idle" /\ Undisturbed(k)' => k = l
  BY <1>2, <1>3, AloneListening
<1>5. OneListener' /\ AtHand'
  BY <1>3 DEF ListenerInv, OneListener, AtHand, Whole, Holds
<1>6. QED
  BY <1>1, <1>2, <1>4, <1>5

\* Such a step that hands nothing over and fills no payload.
LEMMA ResultsKept ==
  ASSUME ListenerInv, \A k \in Listener : Undisturbed(k)' = Undisturbed(k),
         UNCHANGED <<got, recorded, out, payload, longest>>
  PROVE  RecordedAsSent' /\ RelayedRight' /\ PayloadKept' /\ KeptOut'
BY DEF ListenerInv, RecordedAsSent, RelayedRight, PayloadKept, KeptOut

LEMMA ReceiveStep ==
  ASSUME IInv, NEW l \in Listener, Receive(l)
  PROVE  IInv'
<1> USE DEF Receive
<1> DEFINE d == Head(channel)
           others == {k \in Listener \ {l} : at[k] # "idle"}
<1>0. TypeOK /\ SenderInv /\ ListenerInv /\ channel # <<>> /\ channel \in Seq(Datagram) /\ Len(channel) <= Room
  BY DEF IInv, TypeOK
<1>1. Whole(d) /\ channel' \in Seq(Datagram) /\ Len(channel') <= Room
      /\ \A i \in DOMAIN channel' : Whole(channel'[i])
  <2>1. InFlight
    BY <1>0 DEF SenderInv
  <2>2. channel' = Tail(channel) /\ Len(channel) \in Nat
    BY <1>0
  <2>3. Len(channel) > 0 /\ d = channel[1] /\ 1 \in DOMAIN channel
    BY <1>0
  <2>4. /\ channel' \in Seq(Datagram) /\ Len(channel') = Len(channel) - 1
        /\ DOMAIN channel' = 1 .. Len(channel) - 1
        /\ \A i \in 1 .. Len(channel) - 1 : channel'[i] = channel[i + 1]
    BY <1>0, <2>2, <2>3
  <2>5. \A i \in 1 .. Len(channel) - 1 : i + 1 \in DOMAIN channel
    BY <1>0, <2>2
  <2>6. QED
    BY <1>0, <2>1, <2>2, <2>3, <2>4, <2>5, Numbers DEF InFlight
<1>2. /\ d \in Datagram /\ d.octets \in Seq(Octet) /\ Len(d.octets) \in Nat /\ d.of \in Packets
      /\ Len(d.octets) = 1 + Len(d.of.hdr) + Len(d.of.payload) /\ d.octets[1] \in Lengths
  <2>1. /\ d \in Datagram /\ d.of \in Packets
        /\ Len(d.octets) = 1 + Len(d.of.hdr) + Len(d.of.payload) /\ d.octets[1] \in Lengths
    BY <1>1 DEF Whole
  <2> HIDE DEF d
  <2>2. d.octets \in Seq(Octet)
    BY <2>1 DEF Datagram
  <2>3. Len(d.octets) \in Nat
    BY <2>2
  <2>4. QED
    BY <2>1, <2>2, <2>3
<1>3. /\ Len(d.of.hdr) \in Nat /\ Len(d.of.payload) \in Nat
      /\ (2 + Len(d.of.hdr)) + Len(d.of.payload) - 1 <= Size
  BY <1>2, PacketRoom
<1>4. Len(d.octets) >= 1 /\ Len(d.octets) <= Size
  <2>1. \A x, y, z, n \in Nat : n = 1 + x + y /\ (2 + x) + y - 1 <= z => n >= 1 /\ n <= z
    OBVIOUS
  <2> HIDE DEF d
  <2>2. QED
    BY <1>2, <1>3, <2>1, Numbers
<1> HIDE DEF d
<1>5. /\ tmpBuffer' \in Array
      /\ \A k \in 1 .. Len(d.octets) : tmpBuffer'[k] = d.octets[k]
  <2>1. tmpBuffer \in Array /\ 1 \in Nat \ {0} /\ tmpBuffer' = Copied(tmpBuffer, d.octets, 1)
    BY <1>0 DEF TypeOK, d
  <2>2. /\ Copied(tmpBuffer, d.octets, 1) \in Array
        /\ \A k \in 1 .. Size : Copied(tmpBuffer, d.octets, 1)[k] =
             IF k \in 1 .. 1 + Len(d.octets) - 1 THEN d.octets[k - 1 + 1] ELSE tmpBuffer[k]
    BY <1>2, <2>1, CopiedFacts
  <2>3. \A k \in 1 .. Len(d.octets) :
          k \in 1 .. Size /\ k \in 1 .. 1 + Len(d.octets) - 1 /\ k - 1 + 1 = k
    <3>1. \A n, z \in Nat : n <= z =>
            \A k \in 1 .. n : k \in 1 .. z /\ k \in 1 .. 1 + n - 1 /\ k - 1 + 1 = k
      OBVIOUS
    <3>2. QED
      BY <1>2, <1>4, <3>1, Numbers
  <2>4. QED
    BY <2>1, <2>2, <2>3
<1>6. tmpBuffer'[1] = d.octets[1]
  <2>1. 1 \in 1 .. Len(d.octets)
    <3>1. \A n \in Nat : n >= 1 => 1 \in 1 .. n
      OBVIOUS
    <3>2. QED
      BY <1>2, <1>4, <3>1
  <2>2. QED
    BY <1>5, <2>1
<1>7. /\ at' \in [Listener -> {"idle", "extract", "fill", "handle", "relay", "send"}]
      /\ at'[l] = "extract" /\ \A k \in Listener \ {l} : at'[k] = at[k]
  BY <1>0 DEF TypeOK, Goto
<1>8. /\ len'[l] = Len(d.octets) /\ got'[l] = d /\ recorded'[l] = Nothing /\ out'[l] = None
      /\ crossed'[l] = (others # {})
      /\ \A k \in Listener \ {l} :
           /\ len'[k] = len[k] /\ got'[k] = got[k] /\ recorded'[k] = recorded[k] /\ out'[k] = out[k]
           /\ crossed'[k] = (crossed[k] \/ k \in others)
  BY <1>0 DEF TypeOK, d
<1>9. \A k \in Listener \ {l} : at'[k] # "idle" => crossed'[k] /\ others # {}
  <2>1. \A k \in Listener \ {l} : at'[k] # "idle" => k \in others
    BY <1>7
  <2>2. QED
    BY <1>8, <2>1
<1>10. TypeOK'
  <2>1. len' \in [Listener -> 0 .. Size]
    <3>1. Len(d.octets) \in 0 .. Size
      <4>1. \A n, z \in Nat : n <= z => n \in 0 .. z
        OBVIOUS
      <4>2. QED
        BY <1>2, <1>4, <4>1, Numbers
    <3>2. QED
      BY <1>0, <3>1 DEF TypeOK, d
  <2>2. got' \in [Listener -> Datagram]
    BY <1>0, <1>2 DEF TypeOK, d
  <2>3. crossed' \in [Listener -> BOOLEAN]
    <3>1. \A k \in Listener : (IF k = l THEN others # {} ELSE crossed[k] \/ k \in others) \in BOOLEAN
      BY <1>0 DEF TypeOK
    <3>2. QED
      BY <3>1
  <2>4. /\ recorded' \in [Listener -> [source : Octet, nhops : Seq(Octet)]]
        /\ out' \in [Listener -> Packet]
    <3>1. Nothing \in [source : Octet, nhops : Seq(Octet)] /\ None \in Packet
      BY DEF Nothing, None, Packet, Octet
    <3>2. QED
      BY <1>0, <3>1 DEF TypeOK
  <2>5. /\ sends' = sends /\ doing' = doing /\ sending' = sending /\ torn' = torn
        /\ sendingbuf' = sendingbuf /\ info' = info /\ size' = size /\ payload' = payload
        /\ psize' = psize /\ longest' = longest /\ dead' = dead /\ ttl' = ttl
    BY DEF sendVars, pkt
  <2> HIDE DEF Receive
  <2>6. {sendingbuf', tmpBuffer', info', payload'} \subseteq Array
    BY <1>0, <1>5, <2>5 DEF TypeOK
  <2>7. QED
    BY <1>0, <1>1, <1>7, <2>1, <2>2, <2>3, <2>4, <2>5, <2>6 DEF TypeOK
<1>11. SenderInv'
  <2>1. InFlight'
    BY <1>1 DEF InFlight, Whole, Holds
  <2>2. QED
    BY <1>0, <2>1 DEF SenderInv, OneSender, Assembled, sendVars
<1>12. OneListener'
  <2> SUFFICES ASSUME NEW k \in Listener, NEW m \in Listener,
                      at'[k] # "idle", ~crossed'[k], at'[m] # "idle"
               PROVE  m = k
    BY DEF OneListener
  <2>1. k = l
    BY <1>9
  <2>2. QED
    BY <1>8, <1>9, <2>1
<1>13. AtHand'
  <2> SUFFICES ASSUME NEW k \in Listener, at'[k] # "idle"
               PROVE  Whole(got'[k]) /\ len'[k] = Len(got'[k].octets) /\ tmpBuffer'[1] \in Lengths
    BY DEF AtHand, Whole, Holds
  <2>1. CASE k = l
    BY <1>1, <1>2, <1>6, <1>8, <2>1
  <2>2. CASE k # l
    BY <1>0, <1>2, <1>6, <1>7, <1>8, <2>2 DEF ListenerInv, AtHand
  <2>3. QED
    BY <2>1, <2>2
<1>14. \A k \in Listener : at'[k] # "idle" /\ Undisturbed(k)' => k = l
  BY <1>9 DEF Undisturbed
<1>15. Handled'
  <2>1. at'[l] = "extract"
    BY <1>7
  <2>2. ~d.torn =>
          /\ tmpBuffer'[1] = Len(d.of.hdr)
          /\ Holds(tmpBuffer', 2, d.of.hdr) /\ Holds(tmpBuffer', 2 + Len(d.of.hdr), d.of.payload)
    <3> SUFFICES ASSUME ~d.torn
                 PROVE  /\ tmpBuffer'[1] = Len(d.of.hdr)
                        /\ Holds(tmpBuffer', 2, d.of.hdr) /\ Holds(tmpBuffer', 2 + Len(d.of.hdr), d.of.payload)
      OBVIOUS
    <3>1. /\ d.octets[1] = Len(d.of.hdr) /\ Holds(d.octets, 2, d.of.hdr)
          /\ Holds(d.octets, 2 + Len(d.of.hdr), d.of.payload)
      BY <1>1 DEF Whole
    <3>2. \A x, y \in Nat : /\ \A j \in 1 .. x : 2 + j - 1 \in 1 .. 1 + x + y
                            /\ \A j \in 1 .. y : (2 + x) + j - 1 \in 1 .. 1 + x + y
      OBVIOUS
    <3>3. /\ \A j \in 1 .. Len(d.of.hdr) : 2 + j - 1 \in 1 .. Len(d.octets)
          /\ \A j \in 1 .. Len(d.of.payload) : (2 + Len(d.of.hdr)) + j - 1 \in 1 .. Len(d.octets)
      BY <1>2, <1>3, <3>2
    <3>4. Holds(tmpBuffer', 2, d.of.hdr)
      BY <1>5, <3>1, <3>3 DEF Holds
    <3>5. Holds(tmpBuffer', 2 + Len(d.of.hdr), d.of.payload)
      BY <1>5, <3>1, <3>3 DEF Holds
    <3>6. QED
      BY <1>6, <3>1, <3>4, <3>5
  <2>3. Undisturbed(l)' => ~d.torn
    BY <1>8 DEF Undisturbed
  <2> HIDE DEF Receive
  <2>4. ASSUME NEW k \in Listener, at'[k] # "idle", Undisturbed(k)'
        PROVE  /\ at'[k] = "extract"
               /\ tmpBuffer'[1] = Len(got'[k].of.hdr)
               /\ Holds(tmpBuffer', 2, got'[k].of.hdr)
               /\ Holds(tmpBuffer', 2 + Len(got'[k].of.hdr), got'[k].of.payload)
    BY <1>8, <1>14, <2>1, <2>2, <2>3, <2>4
  <2>5. QED
    BY <2>4 DEF Handled, InOrder, Holds
<1>16. Grown'
  <2>1. Pending' = Pending
    BY <1>7 DEF Pending
  <2>2. QED
    BY <1>0, <2>1 DEF ListenerInv, Grown, pkt
<1>17. Behind'
  BY <1>0 DEF ListenerInv, Behind, pkt
<1>18. \A k \in Listener \ {l} : Undisturbed(k)' => Undisturbed(k)
  BY <1>8 DEF Undisturbed
<1>19. ~IsLSP(None) /\ ~IsData(None)
  BY DEF IsLSP, IsData, None
<1>20. RecordedAsSent'
  <2> SUFFICES ASSUME NEW k \in Listener, recorded'[k] # Nothing, Undisturbed(k)'
               PROVE  IsLSP(got'[k].of) /\ recorded'[k] = [source |-> Source(got'[k].of.hdr),
                                                           nhops |-> Nhops(got'[k].of.hdr)]
    BY DEF RecordedAsSent, IsLSP, Source, Nhops
  <2>1. k # l /\ recorded'[k] = recorded[k] /\ got'[k] = got[k] /\ Undisturbed(k)
    BY <1>8, <1>18
  <2>2. QED
    BY <1>0, <2>1 DEF ListenerInv, RecordedAsSent
<1>21. \A k \in Listener : IsLSP(out'[k]) \/ IsData(out'[k]) =>
         k # l /\ out'[k] = out[k] /\ got'[k] = got[k]
  BY <1>8, <1>19
<1>22. RelayedRight'
  <2>1. \A k \in Listener : IsLSP(out[k])' = IsLSP(out'[k])
    BY DEF IsLSP
  <2>2. QED
    BY <1>0, <1>18, <1>21, <2>1 DEF ListenerInv, RelayedRight, GrownByHops, Source, Nhops, TTL
<1>23. PayloadKept' /\ KeptOut'
  <2>1. \A k \in Listener : IsData(out[k])' = IsData(out'[k])
    BY DEF IsData
  <2>2. payload' = payload /\ longest' = longest
    BY DEF pkt
  <2>3. QED
    BY <1>0, <1>18, <1>21, <2>1, <2>2 DEF ListenerInv, PayloadKept, KeptOut
<1>24. QED
  BY <1>10, <1>11, <1>12, <1>13, <1>15, <1>16, <1>17, <1>20, <1>22, <1>23 DEF IInv, ListenerInv

\* With a listener at work, the length that is in tmpBuffer leaves room in the arrays.
LEMMA ExtractHeaderStep ==
  ASSUME IInv, ~dead, NEW l \in Listener, ExtractHeader(l)
  PROVE  IInv' /\ ~dead'
<1> USE DEF ExtractHeader
<1> DEFINE a == tmpBuffer[1]
           o == HeaderOctets(a)
<1>0. TypeOK /\ SenderInv /\ ListenerInv /\ at[l] # "idle" /\ a \in Lengths
  BY DEF IInv, ListenerInv, AtHand
<1>1. a \in Octet /\ a \in 1 .. 127 /\ 1 + a + Cardinality(Listener) <= Size
  BY <1>0, LengthsFacts
<1>2. 1 + a <= Size /\ a + Cardinality(Listener) < Size /\ a \in 0 .. Size
  <2>1. \A x \in 1 .. 127 : \A c, n \in Nat :
          1 + x + c <= n => 1 + x <= n /\ x + c < n /\ x \in 0 .. n
    OBVIOUS
  <2>2. QED
    BY <1>1, <2>1, Numbers
<1>3. tmpBuffer \in Array /\ info \in Array
  BY <1>0 DEF TypeOK
<1>4. o \in Seq(Octet) /\ Len(o) = a
  <2>1. 2 \in 1 .. Size /\ 1 + a \in Nat /\ 2 <= (1 + a) + 1 /\ (1 + a) - 2 + 1 = a
    BY <1>1, Numbers
  <2>2. o = SubSeq(tmpBuffer, 2, 1 + a)
    BY DEF HeaderOctets
  <2> HIDE DEF o, a
  <2>3. SubSeq(tmpBuffer, 2, 1 + a) \in Seq(Octet) /\ Len(SubSeq(tmpBuffer, 2, 1 + a)) = (1 + a) - 2 + 1
    BY <1>2, <1>3, <2>1, SubFacts
  <2>4. QED
    BY <2>1, <2>2, <2>3
<1>5. info' = Copied(info, o, 1) /\ size' = a /\ dead' = (a >= 128)
  OBVIOUS
<1>6. ~dead'
  <2>1. \A x \in 1 .. 127 : ~(x >= 128)
    OBVIOUS
  <2>2. QED
    BY <1>1, <1>5, <2>1
<1> HIDE DEF o
<1>7. info' \in Array
  <2>1. 1 \in Nat \ {0}
    OBVIOUS
  <2>2. QED
    BY <1>3, <1>4, <1>5, <2>1, CopiedFacts
<1>8. /\ at' \in [Listener -> {"idle", "extract", "fill", "handle", "relay", "send"}]
      /\ at'[l] = "fill" /\ \A k \in Listener \ {l} : at'[k] = at[k]
      /\ \A k \in Listener : Undisturbed(k)' = Undisturbed(k)
      /\ \A k \in Listener : at'[k] # "idle" /\ Undisturbed(k)' => k = l
      /\ OneListener' /\ AtHand'
  BY <1>0, StepKeeps
<1>9. TypeOK'
  BY <1>0, <1>2, <1>5, <1>6, <1>7, <1>8 DEF TypeOK, sendVars, results
<1>10. SenderInv'
  BY <1>0, SenderKept
<1>11. Handled'
  <2> SUFFICES ASSUME Undisturbed(l) PROVE InOrder(l)'
    BY <1>8 DEF Handled
  <2> DEFINE p == got[l].of
  <2>1. /\ a = Len(p.hdr) /\ Holds(tmpBuffer, 2, p.hdr)
        /\ Holds(tmpBuffer, 2 + Len(p.hdr), p.payload) /\ p \in Packets
    BY <1>0 DEF ListenerInv, Handled, InOrder, AtHand, Whole
  <2>2. p.hdr \in Seq(Octet) /\ 2 + Len(p.hdr) - 1 <= Size /\ Len(p.hdr) \in Nat
    BY <2>1, PacketRoom
  <2>3. o = p.hdr
    <3>1. 2 \in 1 .. Size
      BY Numbers
    <3>2. SubSeq(tmpBuffer, 2, 2 + Len(p.hdr) - 1) = p.hdr
      BY <1>3, <2>1, <2>2, <3>1, HoldsSub
    <3>3. \A n \in Nat : 2 + n - 1 = 1 + n
      OBVIOUS
    <3>4. SubSeq(tmpBuffer, 2, 1 + Len(p.hdr)) = p.hdr
      BY <2>2, <3>2, <3>3
    <3>5. QED
      BY <2>1, <3>4 DEF o, HeaderOctets
  <2>4. Holds(info', 1, p.hdr)
    <3>1. \A n, z \in Nat : 2 + n - 1 <= z => 1 + n - 1 <= z
      OBVIOUS
    <3>2. 1 \in Nat \ {0} /\ 1 + Len(p.hdr) - 1 <= Size
      BY <2>2, <3>1, Numbers
    <3>3. QED
      BY <1>3, <1>5, <2>2, <2>3, <3>2, HoldsCopied
  <2>5. size' = Len(p.hdr) /\ got' = got /\ tmpBuffer' = tmpBuffer
    BY <1>5, <2>1
  <2> HIDE DEF ExtractHeader, a
  <2>6. QED
    BY <1>8, <2>1, <2>4, <2>5 DEF InOrder, Holds, a
<1>12. Grown'
  <2>1. IsFiniteSet(Pending') /\ Cardinality(Pending') \in Nat /\ Cardinality(Pending') <= Cardinality(Listener)
    <3>1. Pending' \subseteq Listener
      BY DEF Pending
    <3>2. QED
      BY <3>1, ListenerAssumption, FS_Subset, FS_CardinalityType
  <2>2. \A x \in 1 .. 127 : \A c, d, n \in Nat : x + c < n /\ d <= c => x + d < n
    OBVIOUS
  <2>3. a + Cardinality(Pending') < Size
    BY <1>1, <1>2, <2>1, <2>2, Numbers
  <2>4. QED
    BY <1>5, <2>3 DEF Grown
<1>13. Behind' /\ RecordedAsSent' /\ RelayedRight' /\ PayloadKept' /\ KeptOut'
  BY <1>0, <1>8, ResultsKept DEF ListenerInv, Behind, results
<1>14. QED
  BY <1>6, <1>8, <1>9, <1>10, <1>11, <1>12, <1>13 DEF IInv, ListenerInv

\* The payload ends before the last octet of the array.
LEMMA FillPayloadStep ==
  ASSUME IInv, ~dead, NEW l \in Listener, FillPayload(l)
  PROVE  IInv' /\ (dead' => ~Undisturbed(l))
<1> USE DEF FillPayload
<1> DEFINE n == PayloadLength(l)
           o == SubSeq(tmpBuffer, 2 + size, 1 + size + n)
           p == got[l].of
<1>0. /\ TypeOK /\ SenderInv /\ ListenerInv /\ at[l] = "fill" /\ p \in Packets
      /\ Whole(got[l]) /\ len[l] = Len(got[l].octets)
  BY DEF IInv, ListenerInv, AtHand, Whole
<1>1. /\ tmpBuffer \in Array /\ info \in Array /\ payload \in Array /\ n = len[l] - 1 - size
      /\ size \in 0 .. Size /\ len[l] \in 0 .. Size /\ psize \in 0 .. Size /\ longest \in 0 .. Size
  BY <1>0 DEF TypeOK, PayloadLength
<1>2. 2 + size \in 1 .. Size
  <2>1. Cardinality(Pending) > 0
    <3>1. l \in Pending
      BY <1>0 DEF Pending
    <3>2. Cardinality(Pending) # 0
      BY <3>1, PendingFacts, FS_EmptySet
    <3>3. QED
      BY <3>2, PendingFacts
  <2>2. size + Cardinality(Pending) < Size
    BY <1>0 DEF ListenerInv, Grown
  <2>3. \A s, z, c \in Nat : c > 0 /\ s + c < z => 2 + s \in 1 .. z
    OBVIOUS
  <2>4. QED
    BY <1>1, <2>1, <2>2, <2>3, PendingFacts, Numbers
<1>3. n \in Int /\ n < Size /\ 1 + size + n = len[l] /\ longest < Size
      /\ (n >= 0 => n \in 0 .. Size /\ 2 + size <= (1 + size + n) + 1 /\ (1 + size + n) - (2 + size) + 1 = n)
  <2>1. \A s, m, z \in Nat : m <= z => /\ m - 1 - s < z /\ 1 + s + (m - 1 - s) = m
          /\ (m - 1 - s >= 0 => /\ m - 1 - s \in 0 .. z /\ 2 + s <= (1 + s + (m - 1 - s)) + 1
                                /\ (1 + s + (m - 1 - s)) - (2 + s) + 1 = m - 1 - s)
    OBVIOUS
  <2>2. size \in Nat /\ len[l] \in Nat /\ len[l] <= Size /\ Size \in Nat
    BY <1>1, Numbers
  <2>3. longest < Size
    BY <1>0 DEF ListenerInv, Behind
  <2>4. QED
    BY <1>1, <2>1, <2>2, <2>3
<1>4. Undisturbed(l) =>
        /\ size = Len(p.hdr) /\ n = Len(p.payload) /\ n >= 0
        /\ Holds(tmpBuffer, 2 + Len(p.hdr), p.payload)
  <2> SUFFICES ASSUME Undisturbed(l)
               PROVE  /\ size = Len(p.hdr) /\ n = Len(p.payload) /\ n >= 0
                      /\ Holds(tmpBuffer, 2 + Len(p.hdr), p.payload)
    OBVIOUS
  <2>1. size = Len(p.hdr) /\ Holds(tmpBuffer, 2 + Len(p.hdr), p.payload)
    BY <1>0 DEF ListenerInv, Handled, InOrder
  <2>2. len[l] = 1 + Len(p.hdr) + Len(p.payload)
    BY <1>0 DEF Whole
  <2>3. Len(p.hdr) \in Nat /\ Len(p.payload) \in Nat
    BY <1>0, PacketRoom
  <2>4. \A x, y \in Nat : (1 + x + y) - 1 - x = y /\ y >= 0
    OBVIOUS
  <2>5. n = (1 + Len(p.hdr) + Len(p.payload)) - 1 - Len(p.hdr)
    BY <1>1, <2>1, <2>2
  <2> HIDE DEF n, p
  <2>6. n = Len(p.payload) /\ n >= 0
    BY <2>3, <2>4, <2>5
  <2>7. QED
    BY <2>1, <2>6 DEF p
<1>5. /\ at' \in [Listener -> {"idle", "extract", "fill", "handle", "relay", "send"}]
      /\ at'[l] = "handle" /\ \A k \in Listener \ {l} : at'[k] = at[k]
      /\ \A k \in Listener : Undisturbed(k)' = Undisturbed(k)
      /\ \A k \in Listener : at'[k] # "idle" /\ Undisturbed(k)' => k = l
      /\ OneListener' /\ AtHand'
  BY <1>0, StepKeeps
<1>6. SenderInv'
  BY <1>0, SenderKept
<1>7. Grown'
  <2>1. Pending' = Pending
    BY <1>0, <1>5 DEF Pending
  <2>2. QED
    BY <1>0, <2>1 DEF ListenerInv, Grown
<1>8. /\ sends' = sends /\ doing' = doing /\ sending' = sending /\ torn' = torn
      /\ sendingbuf' = sendingbuf /\ channel' = channel /\ len' = len /\ got' = got
      /\ crossed' = crossed /\ tmpBuffer' = tmpBuffer /\ info' = info /\ size' = size
      /\ ttl' = ttl /\ recorded' = recorded /\ out' = out
  BY DEF sendVars, results
<1>9. CASE n < 0
  <2>1. dead' = TRUE /\ payload' = payload /\ psize' = psize /\ longest' = longest
    BY <1>9
  <2>2. ~Undisturbed(l)
    <3>1. \A x \in Int : ~(x < 0 /\ x >= 0)
      OBVIOUS
    <3>2. ~(n >= 0)
      BY <1>3, <1>9, <3>1
    <3>3. QED
      BY <1>4, <3>2
  <2>3. Handled'
    BY <1>5, <2>2 DEF Handled
  <2>4. TypeOK'
    BY <1>0, <1>5, <1>8, <2>1 DEF TypeOK
  <2>5. Behind' /\ RecordedAsSent' /\ RelayedRight' /\ PayloadKept' /\ KeptOut'
    BY <1>0, <1>5, <1>8, <2>1, ResultsKept DEF ListenerInv, Behind, results
  <2>6. QED
    BY <1>5, <1>6, <1>7, <2>2, <2>3, <2>4, <2>5 DEF IInv, ListenerInv
<1>10. CASE n >= 0
  <2>1. /\ psize' = n /\ payload' = Copied(payload, o, 1) /\ dead' = dead
        /\ longest' = (IF n > longest THEN n ELSE longest)
    BY <1>3, <1>10
  <2> HIDE DEF FillPayload
  <2>2. o \in Seq(Octet) /\ Len(o) = n
    BY <1>1, <1>2, <1>3, <1>10, SubFacts
  <2>3. longest' \in 0 .. Size /\ longest' < Size /\ longest' >= longest /\ longest' >= n
    BY <1>1, <1>3, <1>10, <2>1
  <2> HIDE DEF n, o
  <2>4. /\ Copied(payload, o, 1) \in Array
        /\ \A k \in 1 .. Size : Copied(payload, o, 1)[k] =
             IF k \in 1 .. 1 + Len(o) - 1 THEN o[k - 1 + 1] ELSE payload[k]
    <3>1. 1 \in Nat \ {0}
      OBVIOUS
    <3>2. QED
      BY <1>1, <2>2, <3>1, CopiedFacts
  <2>5. payload' \in Array /\ \A k \in n + 1 .. Size : payload'[k] = payload[k]
    <3>1. \A k \in n + 1 .. Size : k \in 1 .. Size /\ k \notin 1 .. 1 + n - 1
      BY <1>3, <1>10, Numbers
    <3>2. QED
      BY <2>1, <2>2, <2>4, <3>1
  <2>6. payload'[Size] = payload[Size]
    <3>1. Size \in n + 1 .. Size
      BY <1>3, Numbers
    <3>2. QED
      BY <2>5, <3>1
  <2>7. TypeOK'
    <3>1. psize' \in 0 .. Size
      BY <1>3, <1>10, <2>1
    <3>2. QED
      BY <1>0, <1>5, <1>8, <2>1, <2>3, <2>5, <3>1 DEF TypeOK
  <2>8. Behind'
    <3>1. \A k \in longest' + 1 .. Size : k \in n + 1 .. Size /\ k \in longest + 1 .. Size
      <4>1. \A x, y, m, z \in Int : m >= x /\ m >= y =>
              \A k \in m + 1 .. z : k \in y + 1 .. z /\ k \in x + 1 .. z
        OBVIOUS
      <4>2. longest \in Int /\ longest' \in Int /\ Size \in Int
        BY <1>1, <2>3, Numbers
      <4>3. QED
        BY <1>3, <2>3, <4>1, <4>2
    <3>2. \A k \in longest + 1 .. Size : payload[k] = payload[Size]
      BY <1>0 DEF ListenerInv, Behind
    <3>3. \A k \in longest' + 1 .. Size : payload'[k] = payload'[Size]
      BY <2>5, <2>6, <3>1, <3>2
    <3>4. QED
      BY <2>3, <3>3 DEF Behind
  <2>9. Handled'
    <3> SUFFICES ASSUME Undisturbed(l) PROVE InOrder(l)'
      BY <1>5 DEF Handled
    <3>1. /\ size = Len(p.hdr) /\ Holds(info, 1, p.hdr)
      BY <1>0 DEF ListenerInv, Handled, InOrder
    <3>2. p.payload \in Seq(Octet) /\ (2 + Len(p.hdr)) + Len(p.payload) - 1 <= Size /\ Len(p.payload) \in Nat
      BY <1>0, PacketRoom
    <3>3. o = p.payload
      <4>1. SubSeq(tmpBuffer, 2 + size, (2 + size) + Len(p.payload) - 1) = p.payload
        BY <1>1, <1>2, <1>4, <3>2, HoldsSub
      <4>2. \A s, m \in Nat : (2 + s) + m - 1 = 1 + s + m
        OBVIOUS
      <4>3. size \in Nat
        BY <1>1
      <4>4. SubSeq(tmpBuffer, 2 + size, 1 + size + Len(p.payload)) = p.payload
        BY <3>2, <4>1, <4>2, <4>3
      <4>5. QED
        BY <1>4, <4>4 DEF o
    <3>4. Holds(payload', 1, p.payload)
      <4>1. 1 \in Nat \ {0} /\ 1 + Len(p.payload) - 1 <= Size
        <5>1. \A x, z \in Nat : x < z => 1 + x - 1 <= z
          OBVIOUS
        <5>2. QED
          BY <1>3, <1>4, <3>2, <5>1, Numbers
      <4>2. QED
        BY <1>1, <2>1, <3>2, <3>3, <4>1, HoldsCopied
    <3>5. psize' = Len(p.payload) /\ psize' <= longest'
      BY <1>3, <1>4, <2>1, <2>3
    <3>6. got'[l].of = p /\ size' = Len(p.hdr) /\ Holds(info', 1, p.hdr)
      BY <1>8, <3>1
    <3> HIDE DEF p
    <3>7. QED
      BY <1>5, <3>4, <3>5, <3>6 DEF InOrder, Holds
  <2>10. RecordedAsSent' /\ RelayedRight'
    BY <1>0, <1>5, <1>8 DEF ListenerInv, RecordedAsSent, RelayedRight
  <2>11. PayloadKept' /\ KeptOut'
    <3> SUFFICES ASSUME NEW k \in Listener, IsData(out[k]), Undisturbed(k)
                 PROVE  LET q == out[k].payload
                            r == got[k].of.payload
                        IN  /\ Len(q) >= Len(r) /\ SubSeq(q, 1, Len(r)) = r
                            /\ longest' = Len(r) /\ payload'[Size] = 0 => q = r
                            /\ Len(r) <= longest'
      BY <1>5, <1>8 DEF PayloadKept, KeptOut
    <3> DEFINE q == out[k].payload
               r == got[k].of.payload
    <3>1. /\ Len(q) >= Len(r) /\ SubSeq(q, 1, Len(r)) = r
          /\ longest = Len(r) /\ payload[Size] = 0 => q = r
          /\ Len(r) <= longest
      BY <1>0 DEF ListenerInv, PayloadKept, KeptOut
    <3>2. Len(r) \in Nat
      <4>1. r \in Seq(Octet)
        BY <1>0 DEF TypeOK, Datagram, Packet
      <4>2. QED
        BY <4>1
    <3>3. Len(r) <= longest' /\ (longest' = Len(r) => longest = Len(r))
      BY <1>1, <2>3, <3>1, <3>2
    <3>4. QED
      BY <2>6, <3>1, <3>3
  <2>12. QED
    BY <1>5, <1>6, <1>7, <2>1, <2>7, <2>8, <2>9, <2>10, <2>11 DEF IInv, ListenerInv
<1>11. QED
  BY <1>3, <1>9, <1>10

\* The neighbours of a header that has the octets it counts.
LEMMA NhopsFacts ==
  ASSUME NEW s \in Seq(Octet), 4 <= Len(s)
  PROVE  /\ Nhops(s) \in Seq(Octet) /\ s[4] \in Octet
         /\ 4 + s[4] <= Len(s) =>
              Len(Nhops(s)) = s[4] /\ \A k \in 1 .. s[4] : Nhops(s)[k] = s[4 + k]
<1>1. Len(s) \in Nat /\ s[4] \in Octet /\ \A k \in 1 .. Len(s) : s[k] \in Octet
  OBVIOUS
<1>2. s[4] \in Nat
  <2>1. \A x \in Octet : x \in Nat
    BY DEF Octet
  <2>2. QED
    BY <1>1, <2>1
<1> DEFINE n == IF 4 + s[4] < Len(s) THEN 4 + s[4] ELSE Len(s)
<1>3. n \in Int /\ n <= Len(s) /\ (4 + s[4] <= Len(s) => n = 4 + s[4])
  BY <1>1, <1>2
<1>4. Nhops(s) = SubSeq(s, 5, n)
  BY DEF Nhops
<1> HIDE DEF n
<1>5. \A i \in 5 .. n : s[i] \in Octet
  BY <1>1, <1>3
<1>6. /\ SubSeq(s, 5, n) \in Seq(Octet)
      /\ Len(SubSeq(s, 5, n)) = IF 5 <= n THEN n - 5 + 1 ELSE 0
      /\ \A i \in 1 .. n - 5 + 1 : SubSeq(s, 5, n)[i] = s[5 + i - 1]
  BY <1>3, <1>5, SubSeqProperties
<1>7. ASSUME 4 + s[4] <= Len(s)
      PROVE  Len(Nhops(s)) = s[4] /\ \A k \in 1 .. s[4] : Nhops(s)[k] = s[4 + k]
  <2>1. \A c \in Nat : /\ (IF 5 <= 4 + c THEN (4 + c) - 5 + 1 ELSE 0) = c
                       /\ (4 + c) - 5 + 1 = c
                       /\ \A k \in 1 .. c : 5 + k - 1 = 4 + k
    OBVIOUS
  <2>2. n = 4 + s[4]
    BY <1>3, <1>7
  <2>3. Len(Nhops(s)) = s[4]
    BY <1>2, <1>4, <1>6, <2>1, <2>2
  <2>4. \A i \in 1 .. s[4] : Nhops(s)[i] = s[5 + i - 1]
    BY <1>2, <1>4, <1>6, <2>1, <2>2
  <2>5. QED
    BY <1>2, <2>1, <2>3, <2>4
<1>8. QED
  BY <1>1, <1>4, <1>6, <1>7

\* Sequences that agree in the fields of a link-state packet, and as far as one of them
\* counts, have the same neighbours.
LEMMA NhopsEqual ==
  ASSUME NEW s \in Seq(Octet), NEW r \in Seq(Octet), 4 <= Len(s), 4 + s[4] <= Len(s),
         Len(s) <= Len(r), \A k \in 3 .. Len(s) : r[k] = s[k]
  PROVE  Source(r) = Source(s) /\ Nhops(r) = Nhops(s)
<1>1. r[3] = s[3] /\ r[4] = s[4] /\ Len(s) \in Nat /\ Len(r) \in Nat
  OBVIOUS
<1>2. s[4] \in Octet /\ s[4] \in Nat
  BY NhopsFacts DEF Octet
<1>3. 4 <= Len(r) /\ 4 + r[4] <= Len(r)
  BY <1>1, <1>2
<1>4. /\ Nhops(s) \in Seq(Octet) /\ Len(Nhops(s)) = s[4]
      /\ \A k \in 1 .. s[4] : Nhops(s)[k] = s[4 + k]
  BY NhopsFacts
<1>5. /\ Nhops(r) \in Seq(Octet) /\ Len(Nhops(r)) = s[4]
      /\ \A k \in 1 .. s[4] : Nhops(r)[k] = r[4 + k]
  BY <1>1, <1>3, NhopsFacts
<1>6. \A k \in 1 .. s[4] : r[4 + k] = s[4 + k]
  <2>1. \A c, n \in Nat : 4 + c <= n => \A k \in 1 .. c : 4 + k \in 3 .. n
    OBVIOUS
  <2>2. \A k \in 1 .. s[4] : 4 + k \in 3 .. Len(s)
    BY <1>1, <1>2, <2>1
  <2>3. QED
    BY <2>2
<1>7. Nhops(r) = Nhops(s)
  <2> DEFINE x == Nhops(r)
             y == Nhops(s)
  <2>1. x \in Seq(Octet) /\ y \in Seq(Octet) /\ Len(x) = Len(y) /\ \A k \in 1 .. Len(y) : x[k] = y[k]
    BY <1>4, <1>5, <1>6
  <2> HIDE DEF x, y
  <2>2. x = y
    BY <2>1
  <2>3. QED
    BY <2>2 DEF x, y
<1>8. QED
  BY <1>1, <1>7 DEF Source

\* What the array of the header says of a link-state packet that it holds.
LEMMA HeldLSP ==
  ASSUME NEW b \in Array, NEW p \in Packets, Holds(b, 1, p.hdr)
  PROVE  /\ b[1] = p.hdr[1] /\ p.hdr # <<>> /\ Len(p.hdr) + 1 <= Size
         /\ IsLSP(p) => /\ 4 <= Len(p.hdr) /\ TTL(b) = TTL(p.hdr)
                        /\ Source(b) = Source(p.hdr) /\ Nhops(b) = Nhops(p.hdr)
         /\ \A k \in 1 .. Len(p.hdr) : b[k] = p.hdr[k]
<1> DEFINE h == p.hdr
<1>1. h \in Seq(Octet) /\ Len(h) \in 1 .. 127
  BY PacketFacts
<1>2. b \in Seq(Octet) /\ Len(b) = Size
  BY ArrayFacts
<1>3. Len(h) + 1 <= Size
  <2>1. Len(p.payload) \in Nat /\ (2 + Len(h)) + Len(p.payload) - 1 <= Size
    BY PacketRoom
  <2>2. \A x \in 1 .. 127 : \A y, z \in Nat : (2 + x) + y - 1 <= z => x + 1 <= z
    OBVIOUS
  <2>3. QED
    BY <1>1, <2>1, <2>2, Numbers
<1>4. IsLSP(p) => 4 + h[4] <= Len(h)
  BY PacketFacts
<1> HIDE DEF h
<1>5. \A k \in 1 .. Len(h) : b[k] = h[k]
  <2>1. \A k \in 1 .. Len(h) : 1 + k - 1 = k
    BY <1>1
  <2>2. QED
    BY <2>1 DEF Holds, h
<1>6. b[1] = h[1] /\ h # <<>>
  <2>1. 1 \in 1 .. Len(h) /\ Len(h) # 0
    <3>1. \A x \in 1 .. 127 : 1 \in 1 .. x /\ x # 0
      OBVIOUS
    <3>2. QED
      BY <1>1, <3>1
  <2>2. h # <<>>
    BY <2>1
  <2>3. QED
    BY <1>5, <2>1, <2>2
<1>7. ASSUME IsLSP(p)
      PROVE  /\ 4 <= Len(h) /\ TTL(b) = TTL(h)
             /\ Source(b) = Source(h) /\ Nhops(b) = Nhops(h)
  <2>1. 4 <= Len(h)
    BY <1>7, PacketFacts DEF h
  <2>2. Len(h) <= Len(b)
    BY <1>1, <1>2, <1>3, Numbers
  <2>3. Source(b) = Source(h) /\ Nhops(b) = Nhops(h)
    BY <1>1, <1>2, <1>4, <1>5, <1>7, <2>1, <2>2, NhopsEqual
  <2>4. TTL(b) = TTL(h)
    BY <1>1, <1>5, <2>1 DEF TTL
  <2>5. QED
    BY <2>1, <2>3, <2>4
<1>8. QED
  BY <1>3, <1>5, <1>6, <1>7 DEF h

LEMMA PendingShrinks ==
  ASSUME TypeOK, Grown, size' = size, Pending' \subseteq Pending
  PROVE  Grown'
<1>1. Cardinality(Pending') \in Nat /\ Cardinality(Pending') <= Cardinality(Pending)
  BY PendingFacts, FS_Subset, FS_CardinalityType
<1>2. \A s, c, d, z \in Nat : s + c < z /\ d <= c => s + d < z
  OBVIOUS
<1>3. size \in Nat /\ Cardinality(Pending) \in Nat /\ size + Cardinality(Pending) < Size
  BY PendingFacts DEF TypeOK, Grown
<1>4. size + Cardinality(Pending') < Size
  BY <1>1, <1>2, <1>3, Numbers
<1>5. QED
  BY <1>4 DEF Grown

\* Where a listener is done and has not handed anything over.
LEMMA DoneStep ==
  ASSUME IInv, NEW l \in Listener, at[l] \in {"handle", "send"}, Goto(l, "idle"), dead' \in BOOLEAN,
         UNCHANGED <<sendVars, channel, len, got, crossed, tmpBuffer, pkt, results, longest>>
  PROVE  IInv'
<1>0. TypeOK /\ SenderInv /\ ListenerInv
  BY DEF IInv
<1>1. /\ at' \in [Listener -> {"idle", "extract", "fill", "handle", "relay", "send"}]
      /\ at'[l] = "idle" /\ \A k \in Listener \ {l} : at'[k] = at[k]
      /\ \A k \in Listener : Undisturbed(k)' = Undisturbed(k)
      /\ \A k \in Listener : at'[k] # "idle" /\ Undisturbed(k)' => k = l
      /\ OneListener' /\ AtHand'
  BY <1>0, StepKeeps
<1>2. TypeOK'
  BY <1>0, <1>1 DEF TypeOK, sendVars, pkt, results
<1>3. SenderInv'
  BY <1>0, SenderKept
<1>4. Handled'
  BY <1>1 DEF Handled
<1>5. Grown'
  <2>1. Pending' \subseteq Pending /\ size' = size
    BY <1>1 DEF Pending, pkt
  <2>2. QED
    BY <1>0, <2>1, PendingShrinks DEF ListenerInv
<1>6. Behind' /\ RecordedAsSent' /\ RelayedRight' /\ PayloadKept' /\ KeptOut'
  BY <1>0, <1>1, ResultsKept DEF ListenerInv, Behind, pkt, results
<1>7. QED
  BY <1>1, <1>2, <1>3, <1>4, <1>5, <1>6 DEF IInv, ListenerInv

LEMMA HandleOtherStep ==
  ASSUME IInv, NEW l \in Listener, HandleOther(l)
  PROVE  IInv'
<1>1. dead' \in BOOLEAN
  BY DEF HandleOther, IInv, TypeOK
<1>2. QED
  BY <1>1, DoneStep DEF HandleOther

\* What an undisturbed listener sees in the array of the header.
LEMMA HeaderSeen ==
  ASSUME IInv, NEW l \in Listener, at[l] \in {"handle", "relay"}, Undisturbed(l)
  PROVE  LET p == got[l].of
             h == p.hdr
         IN  /\ p \in Packets /\ size = Len(h) /\ Holds(info, 1, h)
             /\ info[1] = h[1] /\ h # <<>> /\ Len(h) + 1 <= Size
             /\ IsLSP(p) => /\ 4 <= Len(h) /\ TTL(info) = TTL(h)
                            /\ Source(info) = Source(h) /\ Nhops(info) = Nhops(h)
             /\ \A k \in 1 .. Len(h) : info[k] = h[k]
<1>1. got[l].of \in Packets /\ info \in Array
  BY DEF IInv, ListenerInv, AtHand, Whole, TypeOK
<1>2. size = Len(got[l].of.hdr) /\ Holds(info, 1, got[l].of.hdr)
  BY DEF IInv, ListenerInv, Handled, InOrder
<1>3. QED
  BY <1>1, <1>2, HeldLSP

LEMMA ForwardAstrayStep ==
  ASSUME IInv, NEW l \in Listener, ForwardAstray(l)
  PROVE  IInv'
<1>1. dead' \in BOOLEAN
  BY DEF ForwardAstray, IInv, TypeOK
<1>2. QED
  BY <1>1, DoneStep DEF ForwardAstray

LEMMA HandlerDiesStep ==
  ASSUME IInv, NEW l \in Listener, HandlerDies(l)
  PROVE  IInv'
<1>1. at[l] \in {"handle", "send"} /\ dead' \in BOOLEAN
  BY DEF HandlerDies
<1>2. QED
  BY <1>1, DoneStep DEF HandlerDies

\* Notes what is in the array, whoever has put it there.
LEMMA HandleLSPStep ==
  ASSUME IInv, NEW l \in Listener, HandleLSP(l)
  PROVE  IInv'
<1> USE DEF HandleLSP
<1> DEFINE r == [source |-> Source(info), nhops |-> Nhops(info)]
           p == got[l].of
<1>0. TypeOK /\ SenderInv /\ ListenerInv /\ at[l] = "handle" /\ info[1] = Char.l
  BY DEF IInv
<1>1. r \in [source : Octet, nhops : Seq(Octet)]
  <2>1. info \in Array
    BY <1>0 DEF TypeOK
  <2>2. info \in Seq(Octet) /\ 4 <= Len(info) /\ 3 \in 1 .. Size
    BY <2>1, ArrayFacts, Numbers
  <2>3. Nhops(info) \in Seq(Octet)
    BY <2>2, NhopsFacts
  <2>4. Source(info) \in Octet
    BY <2>1, <2>2, ArrayFacts DEF Source
  <2>5. QED
    BY <2>3, <2>4
<1>2. PICK a \in {"relay", "idle"} : Goto(l, a) /\ (a = "relay" => TTL(info) # 0)
  OBVIOUS
<1>3. /\ at' \in [Listener -> {"idle", "extract", "fill", "handle", "relay", "send"}]
      /\ at'[l] = a /\ \A k \in Listener \ {l} : at'[k] = at[k]
      /\ \A k \in Listener : Undisturbed(k)' = Undisturbed(k)
      /\ \A k \in Listener : at'[k] # "idle" /\ Undisturbed(k)' => k = l
      /\ OneListener' /\ AtHand'
  BY <1>0, <1>2, StepKeeps
<1>4. recorded'[l] = r /\ \A k \in Listener \ {l} : recorded'[k] = recorded[k]
  BY <1>0 DEF TypeOK
<1>5. TypeOK' /\ ttl'[l] = TTL(info)
  <2>1. recorded' \in [Listener -> [source : Octet, nhops : Seq(Octet)]]
    BY <1>0, <1>1 DEF TypeOK
  <2>2. TTL(info) \in -Char.zero .. 255 - Char.zero
    <3>1. info \in Array /\ 2 \in 1 .. Size
      BY <1>0, Numbers DEF TypeOK
    <3>2. info[2] \in 0 .. 255
      BY <3>1, ArrayFacts DEF Octet
    <3>3. \A c \in 0 .. 255 : c - 48 \in -48 .. 255 - 48
      OBVIOUS
    <3>4. QED
      BY <3>2, <3>3 DEF TTL, Char
  <2>3. ttl' \in [Listener -> -Char.zero .. 255 - Char.zero] /\ ttl'[l] = TTL(info)
    BY <1>0, <2>2 DEF TypeOK
  <2>4. QED
    BY <1>0, <1>3, <2>1, <2>3 DEF TypeOK, sendVars, pkt
<1>6. SenderInv'
  BY <1>0, SenderKept
<1>7. Undisturbed(l) =>
        /\ IsLSP(p) /\ TTL(info) = TTL(p.hdr)
        /\ r = [source |-> Source(p.hdr), nhops |-> Nhops(p.hdr)]
  <2> SUFFICES ASSUME Undisturbed(l)
               PROVE  /\ IsLSP(p) /\ TTL(info) = TTL(p.hdr)
                      /\ Source(info) = Source(p.hdr) /\ Nhops(info) = Nhops(p.hdr)
    OBVIOUS
  <2>1. /\ info[1] = p.hdr[1] /\ p.hdr # <<>>
        /\ IsLSP(p) => /\ 4 <= Len(p.hdr) /\ TTL(info) = TTL(p.hdr)
                       /\ Source(info) = Source(p.hdr) /\ Nhops(info) = Nhops(p.hdr)
    BY <1>0, HeaderSeen
  <2>2. IsLSP(p)
    BY <1>0, <2>1 DEF IsLSP
  <2>3. QED
    BY <2>1, <2>2
<1>8. /\ got' = got /\ tmpBuffer' = tmpBuffer /\ info' = info /\ size' = size
      /\ payload' = payload /\ psize' = psize /\ longest' = longest /\ out' = out
  BY DEF pkt
<1>9. Handled'
  <2> SUFFICES ASSUME Undisturbed(l), at'[l] # "idle" PROVE InOrder(l)'
    BY <1>3 DEF Handled
  <2>1. at'[l] = "relay" /\ TTL(info) # 0
    BY <1>2, <1>3
  <2>2. IsLSP(p) /\ TTL(p.hdr) # 0 /\ ttl'[l] = TTL(p.hdr)
    BY <1>5, <1>7, <2>1
  <2>3. InOrder(l)
    BY <1>0 DEF ListenerInv, Handled
  <2>4. QED
    BY <1>0, <1>8, <2>1, <2>2, <2>3 DEF InOrder
<1>10. Grown'
  <2>1. Pending' \subseteq Pending
    BY <1>0, <1>3 DEF Pending
  <2>2. QED
    BY <1>0, <1>8, <2>1, PendingShrinks DEF ListenerInv
<1>11. Behind' /\ RelayedRight' /\ PayloadKept' /\ KeptOut'
  BY <1>0, <1>3, <1>8 DEF ListenerInv, Behind, RelayedRight, PayloadKept, KeptOut
<1>12. RecordedAsSent'
  <2> SUFFICES ASSUME NEW k \in Listener, recorded'[k] # Nothing, Undisturbed(k)
               PROVE  IsLSP(got[k].of) /\ recorded'[k] = [source |-> Source(got[k].of.hdr),
                                                          nhops |-> Nhops(got[k].of.hdr)]
    BY <1>3, <1>8 DEF RecordedAsSent
  <2>1. CASE k = l
    BY <1>4, <1>7, <2>1
  <2>2. CASE k # l
    BY <1>0, <1>4, <2>2 DEF ListenerInv, RecordedAsSent
  <2>3. QED
    BY <2>1, <2>2
<1>13. QED
  BY <1>3, <1>5, <1>6, <1>9, <1>10, <1>11, <1>12 DEF IInv, ListenerInv

LEMMA NextTTLFacts ==
  ASSUME NEW n \in Int
  PROVE  NextTTL(n) \in Octet /\ (n \in 1 .. 207 => NextTTL(n) = 47 + n)
<1>1. (48 + n - 1) % 256 \in 0 .. 255 /\ (n \in 1 .. 207 => (48 + n - 1) % 256 = 47 + n)
  OBVIOUS
<1>2. QED
  BY <1>1 DEF NextTTL, Char, Octet

\* One octet more is counted, and one listener fewer has yet to count one.
LEMMA SetTTLStep ==
  ASSUME IInv, NEW l \in Listener, SetTTL(l)
  PROVE  IInv'
<1> USE DEF SetTTL
<1> DEFINE p == got[l].of
           h == p.hdr
           g == [h EXCEPT ![2] = NextTTL(TTL(h))]
<1>0. TypeOK /\ SenderInv /\ ListenerInv /\ at[l] = "relay"
  BY DEF IInv
<1>1. /\ at' \in [Listener -> {"idle", "extract", "fill", "handle", "relay", "send"}]
      /\ at'[l] = "send" /\ \A k \in Listener \ {l} : at'[k] = at[k]
      /\ \A k \in Listener : Undisturbed(k)' = Undisturbed(k)
      /\ \A k \in Listener : at'[k] # "idle" /\ Undisturbed(k)' => k = l
      /\ OneListener' /\ AtHand'
  BY <1>0, StepKeeps
<1>2. info \in Array /\ size \in 0 .. Size /\ size \in Nat
  BY <1>0 DEF TypeOK
<1>3. 2 \in 1 .. Size /\ ttl[l] \in Int
  <2>1. ttl[l] \in -Char.zero .. 255 - Char.zero
    BY <1>0 DEF TypeOK
  <2>2. -48 .. 255 - 48 \subseteq Int
    OBVIOUS
  <2>3. QED
    BY <2>1, <2>2, Numbers DEF Char
<1>4. info' \in Array
  BY <1>2, <1>3, NextTTLFacts DEF Array
<1>5. Grown' /\ size' \in 0 .. Size
  <2>1. l \in Pending /\ Pending' = Pending \ {l}
    BY <1>0, <1>1 DEF Pending
  <2>2. Cardinality(Pending') = Cardinality(Pending) - 1 /\ Cardinality(Pending') \in Nat
    BY <2>1, PendingFacts, FS_RemoveElement, FS_CardinalityType
  <2>3. size + Cardinality(Pending) < Size
    BY <1>0 DEF ListenerInv, Grown
  <2>4. \A s, c, d, z \in Nat : s + c < z /\ d = c - 1 => s + 1 + d < z /\ s + 1 \in 0 .. z
    OBVIOUS
  <2>5. size + 1 + Cardinality(Pending') < Size /\ size + 1 \in 0 .. Size
    BY <1>2, <2>2, <2>3, <2>4, PendingFacts, Numbers
  <2>6. QED
    BY <2>5 DEF Grown
<1>6. TypeOK'
  <2>1. ttl' \in [Listener -> -Char.zero .. 255 - Char.zero]
    BY <1>0 DEF TypeOK, Char
  <2>2. QED
    BY <1>0, <1>1, <1>4, <1>5, <2>1 DEF TypeOK, sendVars
<1>7. SenderInv'
  BY <1>0, SenderKept
<1>8. Handled'
  <2> SUFFICES ASSUME Undisturbed(l) PROVE InOrder(l)'
    BY <1>1 DEF Handled
  <2>1. InOrder(l)
    BY <1>0 DEF ListenerInv, Handled
  <2>2. /\ size = Len(h) /\ p \in Packets /\ Len(h) + 1 <= Size
        /\ \A k \in 1 .. Len(h) : info[k] = h[k]
    BY <1>0, HeaderSeen
  <2>3. h \in Seq(Octet) /\ Len(h) \in Nat
    BY <2>2, PacketFacts, PacketRoom
  <2> HIDE DEF h
  <2>4. g \in Seq(Octet) \/ Len(g) = Len(h)
    BY <2>3
  <2>5. Len(g) = Len(h)
    BY <2>3
  <2>6. Holds(info', 1, g)
    <3> SUFFICES ASSUME NEW k \in 1 .. Len(h) PROVE info'[1 + k - 1] = g[k]
      BY <2>5 DEF Holds
    <3>1. 1 + k - 1 = k /\ k \in 1 .. Size
      BY <2>2, <2>3, Numbers
    <3>2. info[k] = h[k]
      BY <2>2
    <3>3. info'[k] = IF k = 2 THEN NextTTL(ttl[l]) ELSE info[k]
      BY <1>2, <3>1 DEF Array
    <3>4. g[k] = IF k = 2 THEN NextTTL(TTL(h)) ELSE h[k]
      BY <2>3
    <3>5. ttl[l] = TTL(h)
      BY <1>0, <2>1 DEF InOrder, h
    <3>6. QED
      BY <3>1, <3>2, <3>3, <3>4, <3>5
  <2>7. size' = Len(h) + 1 /\ got' = got /\ payload' = payload /\ psize' = psize /\ longest' = longest
    BY <2>2
  <2>8. /\ psize = Len(p.payload) /\ Holds(payload, 1, p.payload)
        /\ psize <= longest /\ IsLSP(p) /\ TTL(h) # 0
    BY <1>0, <2>1 DEF InOrder, h
  <2> HIDE DEF SetTTL
  <2>9. QED
    BY <1>1, <2>6, <2>7, <2>8 DEF InOrder, h
<1>9. Behind' /\ RecordedAsSent' /\ RelayedRight' /\ PayloadKept' /\ KeptOut'
  BY <1>0, <1>1, ResultsKept DEF ListenerInv, Behind
<1>10. QED
  BY <1>1, <1>5, <1>6, <1>7, <1>8, <1>9 DEF IInv, ListenerInv

\* The header that is relayed is the one received but for the TTL and an octet more.
LEMMA RelayLSPStep ==
  ASSUME IInv, NEW l \in Listener, RelayLSP(l)
  PROVE  IInv'
<1> USE DEF RelayLSP
<1> DEFINE p == got[l].of
           h == p.hdr
           r == SubSeq(info, 1, size)
           q == SubSeq(payload, 1, psize)
           o == [hdr |-> r, payload |-> q]
<1>0. TypeOK /\ SenderInv /\ ListenerInv /\ at[l] = "send"
  BY DEF IInv
<1>1. /\ at' \in [Listener -> {"idle", "extract", "fill", "handle", "relay", "send"}]
      /\ at'[l] = "idle" /\ \A k \in Listener \ {l} : at'[k] = at[k]
      /\ \A k \in Listener : Undisturbed(k)' = Undisturbed(k)
      /\ \A k \in Listener : at'[k] # "idle" /\ Undisturbed(k)' => k = l
      /\ OneListener' /\ AtHand'
  BY <1>0, StepKeeps
<1>2. /\ info \in Array /\ payload \in Array /\ size \in Nat /\ size <= Size
      /\ psize \in Nat /\ psize <= Size
  BY <1>0, Numbers DEF TypeOK
<1>3. /\ r \in Seq(Octet) /\ Len(r) = size /\ \A k \in 1 .. size : r[k] = info[k]
      /\ q \in Seq(Octet) /\ Len(q) = psize
  <2>1. 1 \in 1 .. Size /\ \A n \in Nat : 1 <= n + 1 /\ n - 1 + 1 = n /\ \A k \in 1 .. n : 1 + k - 1 = k
    BY Numbers
  <2>2. /\ r \in Seq(Octet) /\ Len(r) = size - 1 + 1
        /\ \A k \in 1 .. size - 1 + 1 : r[k] = info[1 + k - 1]
    BY <1>2, <2>1, SubFacts
  <2>3. q \in Seq(Octet) /\ Len(q) = psize - 1 + 1
    BY <1>2, <2>1, SubFacts
  <2>4. QED
    BY <1>2, <2>1, <2>2, <2>3
<1>4. out'[l] = o /\ \A k \in Listener \ {l} : out'[k] = out[k]
  BY <1>0 DEF TypeOK
<1> HIDE DEF r, q
<1>5. TypeOK'
  <2>1. o \in Packet
    BY <1>3 DEF Packet
  <2>2. out' \in [Listener -> Packet]
    BY <1>0, <2>1 DEF TypeOK, r, q
  <2>3. QED
    BY <1>0, <1>1, <2>2 DEF TypeOK, sendVars, pkt
<1>6. SenderInv'
  BY <1>0, SenderKept
<1>7. Handled'
  BY <1>1 DEF Handled
<1>8. /\ got' = got /\ size' = size /\ recorded' = recorded
      /\ payload' = payload /\ psize' = psize /\ longest' = longest
  BY DEF pkt
<1>9. Grown'
  <2>1. Pending' \subseteq Pending
    BY <1>0, <1>1 DEF Pending
  <2>2. QED
    BY <1>0, <1>8, <2>1, PendingShrinks DEF ListenerInv
<1>10. Behind' /\ RecordedAsSent'
  BY <1>0, <1>1, <1>8 DEF ListenerInv, Behind, RecordedAsSent
<1>11. Undisturbed(l) =>
         /\ Source(r) = Source(h) /\ Nhops(r) = Nhops(h)
         /\ TTL(r) = TTL(h) - 1 /\ TTL(r) >= 0
         /\ GrownByHops(o) /\ q = <<>> /\ r[1] = Char.l
  <2> SUFFICES ASSUME Undisturbed(l)
               PROVE  /\ Source(r) = Source(h) /\ Nhops(r) = Nhops(h)
                      /\ TTL(r) = TTL(h) - 1 /\ TTL(r) >= 0
                      /\ GrownByHops(o) /\ q = <<>> /\ r[1] = Char.l
    OBVIOUS
  <2> DEFINE g == [h EXCEPT ![2] = NextTTL(TTL(h))]
  <2>1. /\ p \in Packets /\ IsLSP(p) /\ TTL(h) # 0 /\ psize = Len(p.payload)
        /\ size = Len(h) + 1 /\ Holds(info, 1, g)
    BY <1>0 DEF ListenerInv, Handled, InOrder, AtHand, Whole
  <2>2. /\ h \in Seq(Octet) /\ 4 <= Len(h) /\ Len(h) \in Nat /\ 4 + h[4] <= Len(h)
        /\ GrownByHops(p) /\ TTL(h) \in 0 .. MaxTTL /\ p.payload = <<>>
    BY <2>1, PacketFacts, PacketRoom
  <2>3. h[1] = Char.l
    BY <2>1 DEF IsLSP
  <2>4. GrownByHops(p) <=> Len(h) = 4 + Len(Nhops(h)) + MaxTTL - TTL(h)
    BY DEF GrownByHops
  <2> HIDE DEF h
  <2>5. Len(g) = Len(h)
    BY <2>2
  <2>6. \A k \in 1 .. Len(h) : r[k] = IF k = 2 THEN NextTTL(TTL(h)) ELSE h[k]
    <3> SUFFICES ASSUME NEW k \in 1 .. Len(h) PROVE r[k] = IF k = 2 THEN NextTTL(TTL(h)) ELSE h[k]
      OBVIOUS
    <3>1. k \in 1 .. size /\ 1 + k - 1 = k
      BY <2>1, <2>2 DEF h
    <3>2. info[1 + k - 1] = g[k]
      BY <2>1, <2>5 DEF Holds, h
    <3>3. g[k] = IF k = 2 THEN NextTTL(TTL(h)) ELSE h[k]
      BY <2>2
    <3>4. QED
      BY <1>3, <3>1, <3>2, <3>3
  <2>7. Source(r) = Source(h) /\ Nhops(r) = Nhops(h)
    <3>1. \A k \in 3 .. Len(h) : r[k] = h[k]
      BY <2>2, <2>6
    <3>2. Len(h) <= Len(r)
      BY <1>3, <2>1, <2>2 DEF h
    <3>3. QED
      BY <1>3, <2>2, <3>1, <3>2, NhopsEqual
  <2>8. TTL(r) = TTL(h) - 1 /\ TTL(r) >= 0
    <3>1. h[2] \in Octet /\ h[2] \in Nat
      <4>1. h[2] \in Octet /\ \A x \in 0 .. 255 : x \in Nat
        BY <2>2
      <4>2. QED
        BY <4>1 DEF Octet
    <3>2. TTL(h) = h[2] - 48 /\ h[2] - 48 \in 0 .. MaxTTL /\ h[2] - 48 # 0
      BY <2>1, <2>2 DEF TTL, Char, h
    <3>3. h[2] > 48
      BY <3>1, <3>2, Numbers
    <3>4. NextTTL(TTL(h)) = h[2] - 1
      <4>1. \A c \in 0 .. 255 : c > 48 => c - 48 \in 1 .. 207 /\ c - 48 \in Int /\ 47 + (c - 48) = c - 1
        OBVIOUS
      <4>2. h[2] - 48 \in 1 .. 207 /\ h[2] - 48 \in Int /\ 47 + (h[2] - 48) = h[2] - 1
        BY <3>1, <3>3, <4>1 DEF Octet
      <4>3. QED
        BY <3>2, <4>2, NextTTLFacts
    <3>5. r[2] = h[2] - 1
      BY <2>2, <2>6, <3>4
    <3>6. QED
      BY <3>1, <3>3, <3>5 DEF TTL, Char
  <2>9. GrownByHops(o)
    <3>1. Nhops(h) \in Seq(Octet)
      BY <2>2, NhopsFacts
    <3>2. Len(Nhops(h)) \in Nat /\ TTL(h) \in Nat /\ MaxTTL \in Nat
      BY <2>2, <3>1, Numbers
    <3>3. \A t, c, m, n \in Int : n = 4 + c + m - t => n + 1 = 4 + c + m - (t - 1)
      OBVIOUS
    <3>4. Len(r) = Len(h) + 1 /\ Len(h) = 4 + Len(Nhops(h)) + MaxTTL - TTL(h)
      BY <1>3, <2>1, <2>2, <2>4 DEF h
    <3>5. TTL(r) \in Int /\ TTL(h) \in Int /\ Len(Nhops(h)) \in Int /\ MaxTTL \in Int /\ Len(h) \in Int
      BY <2>2, <2>8, <3>2
    <3>6. Len(h) + 1 = 4 + Len(Nhops(h)) + MaxTTL - (TTL(h) - 1)
      BY <3>3, <3>4, <3>5
    <3>7. Len(r) = 4 + Len(Nhops(r)) + MaxTTL - TTL(r)
      BY <2>7, <2>8, <3>4, <3>6
    <3>8. QED
      BY <3>7 DEF GrownByHops
  <2>10. q = <<>>
    <3>1. psize = 0
      BY <2>1, <2>2
    <3>2. QED
      BY <1>3, <3>1
  <2>11. r[1] = Char.l
    <3>1. 1 \in 1 .. Len(h)
      BY <2>2
    <3>2. QED
      BY <2>3, <2>6, <3>1
  <2>12. QED
    BY <2>7, <2>8, <2>9, <2>10, <2>11
<1>12. out'[l].hdr = r /\ out'[l].payload = q
  BY <1>4
<1> HIDE DEF o
<1>13. RelayedRight'
  <2> SUFFICES ASSUME NEW k \in Listener, IsLSP(out'[k]), Undisturbed(k)
               PROVE  /\ Source(out'[k].hdr) = Source(got[k].of.hdr)
                      /\ Nhops(out'[k].hdr) = Nhops(got[k].of.hdr)
                      /\ TTL(out'[k].hdr) = TTL(got[k].of.hdr) - 1 /\ TTL(out'[k].hdr) >= 0
                      /\ GrownByHops(out'[k]) /\ out'[k].payload = <<>>
    BY <1>1, <1>8 DEF RelayedRight, IsLSP, GrownByHops, Source, Nhops, TTL
  <2>1. CASE k = l
    BY <1>4, <1>11, <1>12, <2>1
  <2>2. CASE k # l
    BY <1>0, <1>4, <2>2 DEF ListenerInv, RelayedRight
  <2>3. QED
    BY <2>1, <2>2
<1>14. PayloadKept' /\ KeptOut'
  <2>1. Undisturbed(l) => ~IsData(out'[l])
    <3>1. Char.l # Char.m
      BY DEF Char
    <3>2. QED
      BY <1>11, <1>12, <3>1 DEF IsData
  <2>2. \A k \in Listener : IsData(out[k])' = IsData(out'[k])
    BY DEF IsData
  <2>3. QED
    BY <1>0, <1>1, <1>4, <1>8, <2>1, <2>2 DEF ListenerInv, PayloadKept, KeptOut
<1>15. QED
  BY <1>1, <1>5, <1>6, <1>7, <1>9, <1>10, <1>13, <1>14 DEF IInv, ListenerInv

\* What strlen finds of a payload, which no octet ends early.
LEMMA PayloadFound ==
  ASSUME NEW b \in Array, NEW s \in Seq(Octet), Len(s) < Size, Holds(b, 1, s),
         \A i \in 1 .. Len(s) : s[i] # 0
  PROVE  /\ Len(s) <= StrLen(b) /\ SubSeq(SubSeq(b, 1, StrLen(b)), 1, Len(s)) = s
         /\ b[Len(s) + 1] = 0 => SubSeq(b, 1, StrLen(b)) = s
<1> DEFINE n == StrLen(b)
           q == SubSeq(b, 1, n)
<1>1. b \in Seq(Octet) /\ Len(b) = Size /\ Len(s) \in Nat
  BY ArrayFacts
<1>2. n \in 0 .. Size /\ (n = Size \/ b[n + 1] = 0) /\ \A i \in 1 .. n : b[i] # 0
  BY <1>1, StrLenFacts
<1> HIDE DEF n
<1>3. \A k \in 1 .. Len(s) : b[k] = s[k]
  <2>1. \A k \in 1 .. Len(s) : 1 + k - 1 = k
    BY <1>1
  <2>2. QED
    BY <2>1 DEF Holds
<1>4. Len(s) <= n
  <2> SUFFICES ASSUME n < Len(s) PROVE FALSE
    BY <1>1, <1>2, Numbers
  <2>1. n + 1 \in 1 .. Len(s) /\ n # Size
    BY <1>1, <1>2, Numbers
  <2>2. QED
    BY <1>2, <1>3, <2>1
<1>5. q \in Seq(Octet) /\ Len(q) = n /\ \A k \in 1 .. n : q[k] = b[k]
  <2>1. 1 \in 1 .. Size /\ n \in Nat /\ 1 <= n + 1 /\ n <= Size /\ n - 1 + 1 = n /\ \A k \in 1 .. n : 1 + k - 1 = k
    BY <1>2, Numbers
  <2>2. q \in Seq(Octet) /\ Len(q) = n - 1 + 1 /\ \A k \in 1 .. n - 1 + 1 : q[k] = b[1 + k - 1]
    BY <2>1, SubFacts
  <2>3. QED
    BY <2>1, <2>2
<1> HIDE DEF q
<1>6. SubSeq(q, 1, Len(s)) = s
  <2> DEFINE r == SubSeq(q, 1, Len(s))
  <2>1. \A k \in 1 .. Len(s) : k \in 1 .. n /\ q[k] = s[k] /\ s[k] \in Octet
    BY <1>1, <1>2, <1>3, <1>4, <1>5
  <2>2. 1 \in Int /\ Len(s) \in Int /\ \A k \in 1 .. Len(s) : q[k] \in Octet
    BY <1>1, <2>1
  <2>3. /\ r \in Seq(Octet) /\ Len(r) = IF 1 <= Len(s) THEN Len(s) - 1 + 1 ELSE 0
        /\ \A k \in 1 .. Len(s) - 1 + 1 : r[k] = q[1 + k - 1]
    BY <2>2, SubSeqProperties
  <2>4. Len(r) = Len(s) /\ \A k \in 1 .. Len(s) : r[k] = q[k]
    <3>1. \A m \in Nat : /\ (IF 1 <= m THEN m - 1 + 1 ELSE 0) = m /\ m - 1 + 1 = m
                         /\ \A k \in 1 .. m : 1 + k - 1 = k
      OBVIOUS
    <3>2. QED
      BY <1>1, <2>3, <3>1
  <2> HIDE DEF r
  <2>5. r = s
    BY <2>1, <2>3, <2>4
  <2>6. QED
    BY <2>5 DEF r
<1>7. ASSUME b[Len(s) + 1] = 0 PROVE q = s
  <2>1. n = Len(s)
    <3> SUFFICES ASSUME n # Len(s) PROVE FALSE
      OBVIOUS
    <3>1. Len(s) + 1 \in 1 .. n
      BY <1>1, <1>2, <1>4
    <3>2. QED
      BY <1>2, <1>7, <3>1
  <2>2. Len(q) = Len(s) /\ \A k \in 1 .. Len(s) : q[k] = s[k]
    BY <1>3, <1>5, <2>1
  <2>3. QED
    BY <1>5, <2>2
<1>8. QED
  BY <1>4, <1>6, <1>7 DEF q, n

\* A data packet is made of a header again, and of the payload that strlen finds.
LEMMA ForwardDataStep ==
  ASSUME IInv, NEW l \in Listener, ForwardData(l)
  PROVE  IInv'
<1> USE DEF ForwardData
<1> DEFINE p == got[l].of.payload
           q == SubSeq(payload, 1, StrLen(payload))
           dests == SubSeq(info, 5, 4 + NumAddr)
           o == Data(DataTTL(info[2]), Source(info), dests, q)
<1>0. TypeOK /\ SenderInv /\ ListenerInv /\ at[l] = "handle" /\ NumAddr \in 1 .. 3
  BY DEF IInv
<1>1. /\ at' \in [Listener -> {"idle", "extract", "fill", "handle", "relay", "send"}]
      /\ at'[l] = "idle" /\ \A k \in Listener \ {l} : at'[k] = at[k]
      /\ \A k \in Listener : Undisturbed(k)' = Undisturbed(k)
      /\ \A k \in Listener : at'[k] # "idle" /\ Undisturbed(k)' => k = l
      /\ OneListener' /\ AtHand'
  BY <1>0, StepKeeps
<1>2. info \in Array /\ payload \in Array /\ psize \in Nat /\ longest \in Nat
  BY <1>0, Numbers DEF TypeOK
<1>3. info[2] \in Octet /\ info[3] \in Octet
  <2>1. 2 \in 1 .. Size /\ 3 \in 1 .. Size
    BY Numbers
  <2>2. QED
    BY <1>2, <2>1, ArrayFacts
<1>4. dests \in Seq(Octet) /\ Len(dests) = NumAddr
  <2>1. 5 \in 1 .. Size /\ 4 + NumAddr \in Nat /\ 5 <= (4 + NumAddr) + 1 /\ 4 + NumAddr <= Size
        /\ (4 + NumAddr) - 5 + 1 = NumAddr
    BY <1>0, Numbers
  <2>2. dests \in Seq(Octet) /\ Len(dests) = (4 + NumAddr) - 5 + 1
    BY <1>2, <2>1, SubFacts
  <2>3. QED
    BY <2>1, <2>2
<1>5. q \in Seq(Octet)
  <2>1. 1 \in 1 .. Size /\ StrLen(payload) \in Nat /\ StrLen(payload) <= Size /\ 1 <= StrLen(payload) + 1
    <3>1. payload \in Seq(Octet) /\ Len(payload) = Size
      BY <1>2, ArrayFacts
    <3>2. StrLen(payload) \in 0 .. Size
      BY <3>1, StrLenFacts
    <3>3. QED
      BY <3>2, Numbers
  <2>2. QED
    BY <1>2, <2>1, SubFacts
<1> HIDE DEF q, dests
<1>6. o \in Packet /\ o.hdr[1] = Char.m /\ o.payload = q
  <2> DEFINE x == <<Char.m, DataTTL(info[2]), Source(info), Char.zero + Len(dests)>>
             y == <<Len(q) % 256>>
  <2>1. Char.m \in Octet /\ DataTTL(info[2]) \in Octet /\ Source(info) \in Octet /\ Char.zero + Len(dests) \in Octet
    <3>1. \A c \in 0 .. 255 : (c - 48 - 1) % 256 \in 0 .. 255
      OBVIOUS
    <3>2. DataTTL(info[2]) \in Octet
      BY <1>3, <3>1 DEF DataTTL, Octet, Char
    <3>3. \A n \in 1 .. 3 : 48 + n \in 0 .. 255
      OBVIOUS
    <3>4. Char.zero + Len(dests) \in Octet
      BY <1>0, <1>4, <3>3 DEF Octet, Char
    <3>5. Char.m \in Octet
      BY DEF Octet, Char
    <3>6. QED
      BY <1>3, <3>2, <3>4, <3>5 DEF Source
  <2>2. x \in Seq(Octet) /\ Len(x) = 4 /\ x[1] = Char.m
    BY <2>1
  <2>3. y \in Seq(Octet)
    <3>1. Len(q) \in Nat
      BY <1>5
    <3>2. Len(q) % 256 \in 0 .. 255
      <4>1. \A n \in Nat : n % 256 \in 0 .. 255
        OBVIOUS
      <4>2. QED
        BY <3>1, <4>1
    <3>3. QED
      BY <3>2 DEF Octet
  <2>4. o = [hdr |-> x \o dests \o y, payload |-> q]
    BY DEF Data
  <2> HIDE DEF x, y, o
  <2>5. /\ x \o dests \in Seq(Octet) /\ Len(x \o dests) = 4 + Len(dests)
        /\ (x \o dests)[1] = Char.m
    <3>1. /\ x \o dests \in Seq(Octet) /\ Len(x \o dests) = Len(x) + Len(dests)
          /\ \A i \in 1 .. Len(x) + Len(dests) : (x \o dests)[i] =
               IF i <= Len(x) THEN x[i] ELSE dests[i - Len(x)]
      BY <1>4, <2>2, ConcatProperties
    <3>2. 1 \in 1 .. Len(x) + Len(dests) /\ 1 <= Len(x)
      BY <1>0, <1>4, <2>2
    <3>3. QED
      BY <2>2, <3>1, <3>2
  <2>6. (x \o dests) \o y \in Seq(Octet) /\ ((x \o dests) \o y)[1] = Char.m
    BY <1>0, <1>4, <2>3, <2>5
  <2>7. QED
    BY <1>5, <2>4, <2>6 DEF Packet
<1>7. out'[l] = o /\ \A k \in Listener \ {l} : out'[k] = out[k]
  BY <1>0 DEF TypeOK, q, dests
<1>8. TypeOK'
  <2>1. out' \in [Listener -> Packet]
    BY <1>0, <1>6 DEF TypeOK, q, dests
  <2>2. QED
    BY <1>0, <1>1, <2>1 DEF TypeOK, sendVars, pkt
<1>9. SenderInv'
  BY <1>0, SenderKept
<1>10. Handled'
  BY <1>1 DEF Handled
<1>11. /\ got' = got /\ size' = size /\ recorded' = recorded
       /\ payload' = payload /\ psize' = psize /\ longest' = longest
  BY DEF pkt
<1>12. Grown'
  <2>1. Pending' \subseteq Pending
    BY <1>0, <1>1 DEF Pending
  <2>2. QED
    BY <1>0, <1>11, <2>1, PendingShrinks DEF ListenerInv
<1>13. Behind' /\ RecordedAsSent'
  BY <1>0, <1>1, <1>11 DEF ListenerInv, Behind, RecordedAsSent
<1> HIDE DEF o
<1>14. RelayedRight'
  <2>1. ~IsLSP(out'[l])
    <3>1. Char.l # Char.m
      BY DEF Char
    <3>2. QED
      BY <1>6, <1>7, <3>1 DEF IsLSP
  <2> SUFFICES ASSUME NEW k \in Listener, IsLSP(out'[k]), Undisturbed(k)
               PROVE  /\ Source(out'[k].hdr) = Source(got[k].of.hdr)
                      /\ Nhops(out'[k].hdr) = Nhops(got[k].of.hdr)
                      /\ TTL(out'[k].hdr) = TTL(got[k].of.hdr) - 1 /\ TTL(out'[k].hdr) >= 0
                      /\ GrownByHops(out'[k]) /\ out'[k].payload = <<>>
    BY <1>1, <1>11 DEF RelayedRight, IsLSP, GrownByHops, Source, Nhops, TTL
  <2>2. out'[k] = out[k]
    BY <1>7, <2>1
  <2>3. QED
    BY <1>0, <2>2 DEF ListenerInv, RelayedRight
<1>15. Undisturbed(l) =>
         /\ Len(q) >= Len(p) /\ SubSeq(q, 1, Len(p)) = p
         /\ longest = Len(p) /\ payload[Size] = 0 => q = p
         /\ Len(p) <= longest
  <2> SUFFICES ASSUME Undisturbed(l)
               PROVE  /\ Len(q) >= Len(p) /\ SubSeq(q, 1, Len(p)) = p
                      /\ longest = Len(p) /\ payload[Size] = 0 => q = p
                      /\ Len(p) <= longest
    OBVIOUS
  <2>1. psize = Len(p) /\ Holds(payload, 1, p) /\ psize <= longest /\ got[l].of \in Packets
    BY <1>0 DEF ListenerInv, Handled, InOrder, AtHand, Whole
  <2>2. p \in Seq(Octet) /\ Len(p) \in Nat /\ \A i \in 1 .. Len(p) : p[i] # 0
    <3>1. p \in Seq(Octet) /\ \A i \in DOMAIN p : p[i] # 0
      BY <2>1, PacketFacts
    <3> HIDE DEF p
    <3>2. QED
      BY <3>1
  <2> HIDE DEF p
  <2>3. Len(p) <= longest /\ longest < Size /\ \A k \in longest + 1 .. Size : payload[k] = payload[Size]
    BY <1>0, <2>1 DEF ListenerInv, Behind
  <2>4. Len(p) < Size
    BY <1>2, <2>2, <2>3, Numbers
  <2>5. /\ Len(p) <= StrLen(payload) /\ SubSeq(q, 1, Len(p)) = p
        /\ payload[Len(p) + 1] = 0 => q = p
    BY <1>2, <2>1, <2>2, <2>4, PayloadFound DEF q
  <2>6. Len(q) = StrLen(payload)
    <3>1. payload \in Seq(Octet) /\ Len(payload) = Size
      BY <1>2, ArrayFacts
    <3>2. StrLen(payload) \in 0 .. Size
      BY <3>1, StrLenFacts
    <3>3. /\ 1 \in 1 .. Size /\ StrLen(payload) \in Nat /\ StrLen(payload) <= Size
          /\ 1 <= StrLen(payload) + 1 /\ StrLen(payload) - 1 + 1 = StrLen(payload)
      BY <3>2, Numbers
    <3>4. Len(q) = StrLen(payload) - 1 + 1
      BY <1>2, <3>3, SubFacts DEF q
    <3>5. QED
      BY <3>3, <3>4
  <2>7. longest = Len(p) /\ payload[Size] = 0 => payload[Len(p) + 1] = 0
    <3>1. \A n, z \in Nat : n < z => n + 1 \in n + 1 .. z
      OBVIOUS
    <3>2. longest + 1 \in longest + 1 .. Size
      BY <1>2, <2>3, <3>1, Numbers
    <3>3. QED
      BY <2>3, <3>2
  <2>8. Len(q) >= Len(p)
    BY <2>2, <2>5, <2>6, <1>5
  <2>9. QED
    BY <2>3, <2>5, <2>7, <2>8
<1>16. PayloadKept' /\ KeptOut'
  <2> SUFFICES ASSUME NEW k \in Listener, IsData(out'[k]), Undisturbed(k)
               PROVE  LET x == out'[k].payload
                          r == got[k].of.payload
                      IN  /\ Len(x) >= Len(r) /\ SubSeq(x, 1, Len(r)) = r
                          /\ longest = Len(r) /\ payload[Size] = 0 => x = r
                          /\ Len(r) <= longest
    BY <1>1, <1>11 DEF PayloadKept, KeptOut, IsData
  <2>1. CASE k = l
    BY <1>6, <1>7, <1>15, <2>1
  <2>2. CASE k # l
    BY <1>0, <1>7, <2>2 DEF ListenerInv, PayloadKept, KeptOut
  <2>3. QED
    BY <2>1, <2>2
<1>17. QED
  BY <1>1, <1>8, <1>9, <1>10, <1>12, <1>13, <1>14, <1>16 DEF IInv, ListenerInv

-----------------------------------------------------------------------------
(* Theorems.                                                               *)

\* A step that takes a header apart, or an undisturbed payload, leaves the router alive.
SurvivesReceive ==
  \A l \in Listener :
    /\ at[l] = "extract" /\ at'[l] # at[l] => ~dead'
    /\ at[l] = "fill" /\ at'[l] # at[l] /\ Undisturbed(l) => ~dead'

\* The steps of a listener that is past receivePacket or not yet in it.
LEMMA ElsewhereSurvives ==
  ASSUME TypeOK, NEW l \in Listener, at[l] \notin {"extract", "fill"},
         \A k \in Listener \ {l} : at'[k] = at[k]
  PROVE  SurvivesReceive
BY DEF SurvivesReceive

LEMMA GotoOne ==
  ASSUME TypeOK, NEW l \in Listener, NEW a, Goto(l, a)
  PROVE  \A k \in Listener \ {l} : at'[k] = at[k]
BY DEF TypeOK, Goto

LEMMA StepInvariant == IInv /\ [Next]_vars => IInv' /\ [SurvivesReceive]_vars
<1> SUFFICES ASSUME IInv, [Next]_vars PROVE IInv' /\ [SurvivesReceive]_vars
  OBVIOUS
<1>0. TypeOK /\ (at' = at => SurvivesReceive)
  BY DEF IInv, SurvivesReceive
<1>1. ASSUME NEW t \in Sender, NEW p \in Packets, StartPacket(t, p)
      PROVE  IInv' /\ [SurvivesReceive]_vars
  BY <1>0, <1>1, StartPacketStep DEF StartPacket, handling
<1>2. ASSUME NEW t \in Sender, CopyHeader(t) PROVE IInv' /\ [SurvivesReceive]_vars
  BY <1>0, <1>2, CopyHeaderStep DEF CopyHeader, handling
<1>3. ASSUME NEW t \in Sender, CopyPayload(t) PROVE IInv' /\ [SurvivesReceive]_vars
  BY <1>0, <1>3, CopyPayloadStep DEF CopyPayload, handling
<1>4. ASSUME NEW t \in Sender, SendTo(t) PROVE IInv' /\ [SurvivesReceive]_vars
  BY <1>0, <1>4, SendToStep DEF SendTo, handling
<1>5. ASSUME NEW l \in Listener, Receive(l) PROVE IInv' /\ [SurvivesReceive]_vars
  BY <1>0, <1>5, ReceiveStep, GotoOne, ElsewhereSurvives DEF Receive
<1>6. ASSUME NEW l \in Listener, ExtractHeader(l) PROVE IInv' /\ [SurvivesReceive]_vars
  <2>1. IInv' /\ ~dead'
    BY <1>6, ExtractHeaderStep DEF ExtractHeader
  <2>2. QED
    BY <2>1 DEF SurvivesReceive
<1>7. ASSUME NEW l \in Listener, FillPayload(l) PROVE IInv' /\ [SurvivesReceive]_vars
  <2>1. ~dead /\ at[l] = "fill" /\ \A k \in Listener \ {l} : at'[k] = at[k]
    BY <1>0, <1>7, GotoOne DEF FillPayload
  <2>2. IInv' /\ (dead' => ~Undisturbed(l))
    BY <1>7, <2>1, FillPayloadStep
  <2>3. QED
    BY <2>1, <2>2 DEF SurvivesReceive
<1>8. ASSUME NEW l \in Listener, HandleOther(l) PROVE IInv' /\ [SurvivesReceive]_vars
  BY <1>0, <1>8, HandleOtherStep, GotoOne, ElsewhereSurvives DEF HandleOther
<1>9. ASSUME NEW l \in Listener, HandleLSP(l) PROVE IInv' /\ [SurvivesReceive]_vars
  BY <1>0, <1>9, HandleLSPStep, GotoOne, ElsewhereSurvives DEF HandleLSP
<1>10. ASSUME NEW l \in Listener, SetTTL(l) PROVE IInv' /\ [SurvivesReceive]_vars
  BY <1>0, <1>10, SetTTLStep, GotoOne, ElsewhereSurvives DEF SetTTL
<1>11. ASSUME NEW l \in Listener, RelayLSP(l) PROVE IInv' /\ [SurvivesReceive]_vars
  BY <1>0, <1>11, RelayLSPStep, GotoOne, ElsewhereSurvives DEF RelayLSP
<1>12. ASSUME NEW l \in Listener, ForwardData(l) PROVE IInv' /\ [SurvivesReceive]_vars
  BY <1>0, <1>12, ForwardDataStep, GotoOne, ElsewhereSurvives DEF ForwardData
<1>13. ASSUME NEW l \in Listener, ForwardAstray(l) PROVE IInv' /\ [SurvivesReceive]_vars
  BY <1>0, <1>13, ForwardAstrayStep, GotoOne, ElsewhereSurvives DEF ForwardAstray
<1>14. ASSUME NEW l \in Listener, HandlerDies(l) PROVE IInv' /\ [SurvivesReceive]_vars
  BY <1>0, <1>14, HandlerDiesStep, GotoOne, ElsewhereSurvives DEF HandlerDies
<1>15. ASSUME UNCHANGED vars PROVE IInv' /\ [SurvivesReceive]_vars
  <2>1. UNCHANGED <<sendVars, channel>> /\ UNCHANGED <<handling, tmpBuffer, pkt, results, longest>> /\ dead' = dead
    BY <1>15 DEF vars
  <2>2. SenderInv' /\ ListenerInv'
    BY <2>1, SenderKept, ListenerKept DEF IInv
  <2>3. TypeOK'
    BY <2>1 DEF IInv, TypeOK, sendVars, handling, pkt, results
  <2>4. QED
    BY <1>15, <2>2, <2>3 DEF IInv
<1>16. QED
  BY <1>1, <1>2, <1>3, <1>4, <1>5, <1>6, <1>7, <1>8, <1>9, <1>10, <1>11, <1>12, <1>13, <1>14, <1>15
     DEF Next

\* The inductive invariant holds throughout.
THEOREM Invariance == Spec => []IInv
<1>1. IInv /\ [Next]_vars => IInv'
  BY StepInvariant
<1>2. QED
  BY InitInvariant, <1>1, PTL DEF Spec

\* The variables have their types: no copy leaves the arrays of sendPacket and
\* receivePacket, whoever shares them.
THEOREM TypeCorrect == Spec => []TypeOK
<1>1. IInv => TypeOK
  BY DEF IInv
<1>2. QED
  BY Invariance, <1>1, PTL

\* What receivePacket makes of a datagram is the packet that was given to sendPacket,
\* whatever earlier packets have left in the arrays.
THEOREM Intact == Spec => []ArrivesWhole
<1>1. IInv => ArrivesWhole
  <2> SUFFICES ASSUME IInv, NEW l \in Listener, at[l] = "handle", Undisturbed(l)
               PROVE  /\ SubSeq(info, 1, size) = got[l].of.hdr
                      /\ SubSeq(payload, 1, psize) = got[l].of.payload
    BY DEF ArrivesWhole
  <2> DEFINE h == got[l].of.hdr
             p == got[l].of.payload
  <2>1. /\ size = Len(h) /\ Holds(info, 1, h) /\ psize = Len(p) /\ Holds(payload, 1, p)
        /\ got[l].of \in Packets /\ info \in Array /\ payload \in Array
        /\ psize \in 0 .. Size
    BY DEF IInv, ListenerInv, Handled, InOrder, AtHand, Whole, TypeOK
  <2>2. /\ h \in Seq(Octet) /\ p \in Seq(Octet) /\ Len(h) \in Nat /\ Len(p) \in Nat
        /\ 2 + Len(h) - 1 <= Size
    BY <2>1, PacketRoom
  <2>3. \A n, z \in Nat : /\ 1 + n - 1 = n
                          /\ 2 + n - 1 <= z => n <= z
    OBVIOUS
  <2>4. 1 \in 1 .. Size /\ 1 + Len(h) - 1 = Len(h) /\ 1 + Len(p) - 1 = Len(p)
        /\ Len(h) <= Size /\ Len(p) <= Size
    BY <2>1, <2>2, <2>3, Numbers
  <2> HIDE DEF h, p
  <2>5. SubSeq(info, 1, 1 + Len(h) - 1) = h
    BY <2>1, <2>2, <2>4, HoldsSub
  <2>6. SubSeq(payload, 1, 1 + Len(p) - 1) = p
    BY <2>1, <2>2, <2>4, HoldsSub
  <2>7. QED
    BY <2>1, <2>4, <2>5, <2>6 DEF h, p
<1>2. QED
  BY Invariance, <1>1, PTL

\* No memcpy of receivePacket is given a negative size by the length of a header,
\* whoever shares the arrays, nor by the rest of a datagram that nobody disturbed.
THEOREM DeathOfOverlap == Spec => ReceiveDiesOnlyOfOverlap
<1>1. IInv /\ [Next]_vars => [SurvivesReceive]_vars
  BY StepInvariant
<1>2. Spec => [][SurvivesReceive]_vars
  BY Invariance, <1>1, PTL DEF Spec
<1>3. QED
  BY <1>2 DEF ReceiveDiesOnlyOfOverlap, SurvivesReceive

\* extract_ls_info notes what the source of the packet sent.
THEOREM RecordsTrue == Spec => []RecordedAsSent
<1>1. IInv => RecordedAsSent
  BY DEF IInv, ListenerInv
<1>2. QED
  BY Invariance, <1>1, PTL

\* setOctet takes one from the TTL and leaves the neighbours, and the octet it counts
\* too many keeps headers as long as GrownByHops says, at every hop.
THEOREM RelaysTrue == Spec => []RelayedRight
<1>1. IInv => RelayedRight
  BY DEF IInv, ListenerInv
<1>2. QED
  BY Invariance, <1>1, PTL

\* strlen finds the payload that was received, and no more than earlier packets left.
THEOREM PayloadWhole == Spec => []PayloadKept
<1>1. IInv => PayloadKept
  BY DEF IInv, ListenerInv
<1>2. QED
  BY Invariance, <1>1, PTL
=============================================================================
