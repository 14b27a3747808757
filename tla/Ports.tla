-------------------------------- MODULE Ports --------------------------------
(***************************************************************************)
(* The octets of a link: threads of one router send packets over one       *)
(* SendingPort, and threads of the neighbour receive them at one           *)
(* ReceivingPort, record, relay or forward them.                           *)
(*                                                                         *)
(* All the senders assemble their datagrams in the sendingbuf_ of the      *)
(* port.  A receiving port keeps one tmpBuffer_ and one pkt_, whose arrays *)
(* are never cleared; two listeners share them where ThreadIndex crowds a  *)
(* port.  A statement that copies octets is one step here, and steps of    *)
(* different threads interleave.                                           *)
(***************************************************************************)
EXTENDS Integers, Sequences, FiniteSets

CONSTANTS
  Sender,    \* threads that send over the port
  Listener,  \* threads that listen at the other end
  Packets,   \* what is sent
  MaxTTL,    \* the TTL of a new link-state packet, 8 in the code
  Fresh,     \* octets that new arrays may be full of
  Size,      \* octets of each array that are modelled
  Room,      \* bound: datagrams under way
  MaxSends   \* bound: packets sent

Octet == 0 .. 255
Char == [d |-> 100, l |-> 108, m |-> 109, zero |-> 48, one |-> 49]

Packet == [hdr : Seq(Octet), payload : Seq(Octet)]
None == [hdr |-> <<>>, payload |-> <<>>]

\* create_control_packet and create_data_packet.
Hello(id) == [hdr |-> <<Char.d, id>>, payload |-> <<>>]
LSP(id, ttl, nhops) ==
  [hdr |-> <<Char.l, Char.zero + ttl, id, Len(nhops)>> \o nhops, payload |-> <<>>]
Data(ttl, src, dests, payload) ==
  [hdr |-> <<Char.m, ttl, src, Char.zero + Len(dests)>> \o dests \o <<Len(payload) % 256>>,
   payload |-> payload]

\* The source, the neighbours and the TTL of a header, as extract_ls_info and
\* listen_on_port read them.
Source(h) == h[3]
Nhops(h) == SubSeq(h, 5, IF 4 + h[4] < Len(h) THEN 4 + h[4] ELSE Len(h))
TTL(h) == h[2] - Char.zero

IsLSP(p) == p.hdr # <<>> /\ p.hdr[1] = Char.l
IsData(p) == p.hdr # <<>> /\ p.hdr[1] = Char.m

\* The header of a link-state packet has grown by an octet at each hop: assumed of
\* what comes to the sender, and shown of what the receiver relays (RelayedRight).
GrownByHops(p) == Len(p.hdr) = 4 + Len(Nhops(p.hdr)) + MaxTTL - TTL(p.hdr)

\* What the create_ functions and earlier hops make: headers that have the fields
\* they count and whose length is no sign bit of a char, payloads that are strings,
\* and none for link state.  An array has room for each, and for the octets that
\* listeners which relay at once may count besides (SetTTL).
ASSUME PacketsAssumption ==
  /\ Packets \subseteq Packet
  /\ \A p \in Packets :
       /\ Len(p.hdr) \in 1 .. 127
       /\ 1 + Len(p.hdr) + Len(p.payload) + Cardinality(Listener) <= Size
       /\ \A i \in DOMAIN p.payload : p.payload[i] # 0
       /\ IsLSP(p) \/ IsData(p) => 4 <= Len(p.hdr)
       /\ IsLSP(p) => /\ 4 + p.hdr[4] <= Len(p.hdr) /\ GrownByHops(p)
                      /\ TTL(p.hdr) \in 0 .. MaxTTL /\ p.payload = <<>>
       /\ IsData(p) => p.hdr[4] - Char.zero \in 1 .. 3
ASSUME ListenerAssumption == IsFiniteSet(Listener)
ASSUME SizesAssumption ==
  {Size, Room, MaxSends, MaxTTL} \subseteq Nat /\ Size >= 8 /\ Fresh \subseteq Octet

VARIABLES
  sends,       \* packets sent so far
  doing,       \* doing[t]: what sender t does next, or "idle"
  sending,     \* sending[t]: the packet it sends
  torn,        \* torn[t]: history, another sender was at work meanwhile
  sendingbuf,  \* sendingbuf_
  channel,     \* datagrams under way
  dead,        \* the receiving router has died
  at,          \* at[l]: what listener l does next
  len,         \* len[l]: what recvfrom gave it
  got,         \* got[l]: history, the datagram it received
  crossed,     \* crossed[l]: history, another listener was at work meanwhile
  tmpBuffer,   \* tmpBuffer_
  info, size,  \* info_ and length_ of the header of pkt_
  payload, psize,  \* payload_ and size_ of pkt_
  ttl,         \* ttl[l]: the local of listen_on_port
  recorded,    \* recorded[l]: the source and the neighbours that l has noted
  out,         \* out[l]: the packet that l has handed to sendPacket
  longest      \* history: the longest payload so far

sendVars == <<sends, doing, sending, torn, sendingbuf>>
pkt == <<info, size, payload, psize>>
handling == <<at, len, got, crossed>>
results == <<ttl, recorded, out>>
vars == <<sendVars, channel, dead, handling, tmpBuffer, pkt, results, longest>>

Array == [1 .. Size -> Octet]
Datagram == [octets : Seq(Octet), of : Packet, torn : BOOLEAN]
NoDatagram == [octets |-> <<>>, of |-> None, torn |-> FALSE]
Nothing == [source |-> 0, nhops |-> <<>>]

TypeOK ==
  /\ sends \in 0 .. MaxSends
  /\ doing \in [Sender -> {"idle", "header", "payload", "sendto"}]
  /\ sending \in [Sender -> Packets \cup {None}]
  /\ torn \in [Sender -> BOOLEAN]
  /\ {sendingbuf, tmpBuffer, info, payload} \subseteq Array
  /\ channel \in Seq(Datagram) /\ Len(channel) <= Room
  /\ dead \in BOOLEAN
  /\ at \in [Listener -> {"idle", "extract", "fill", "handle", "relay", "send"}]
  /\ len \in [Listener -> 0 .. Size]
  /\ got \in [Listener -> Datagram]
  /\ crossed \in [Listener -> BOOLEAN]
  /\ size \in 0 .. Size /\ psize \in 0 .. Size /\ longest \in 0 .. Size
  /\ ttl \in [Listener -> -Char.zero .. 255 - Char.zero]
  /\ recorded \in [Listener -> [source : Octet, nhops : Seq(Octet)]]
  /\ out \in [Listener -> Packet]

Init ==
  /\ sends = 0
  /\ doing = [t \in Sender |-> "idle"]
  /\ sending = [t \in Sender |-> None]
  /\ torn = [t \in Sender |-> FALSE]
  /\ channel = <<>>
  /\ dead = FALSE
  /\ at = [l \in Listener |-> "idle"]
  /\ len = [l \in Listener |-> 0]
  /\ got = [l \in Listener |-> NoDatagram]
  /\ crossed = [l \in Listener |-> FALSE]
  /\ \E c \in Fresh :
       /\ sendingbuf = [i \in 1 .. Size |-> c]
       /\ tmpBuffer = [i \in 1 .. Size |-> c]
       /\ info = [i \in 1 .. Size |-> c]
       /\ payload = [i \in 1 .. Size |-> c]
  /\ size = 0 /\ psize = 0 /\ longest = 0
  /\ ttl = [l \in Listener |-> 0]
  /\ recorded = [l \in Listener |-> Nothing]
  /\ out = [l \in Listener |-> None]

\* memcpy of s to position i of array b, as far as b is modelled.
Copied(b, s, i) ==
  [k \in DOMAIN b |-> IF k \in i .. i + Len(s) - 1 THEN s[k - i + 1] ELSE b[k]]

-----------------------------------------------------------------------------
(* sendPacket and makePacket.                                              *)

Step(t, next) == doing' = [doing EXCEPT ![t] = next]

HeaderLength_CountsItself(p) == (Len(p.hdr) + 1) % 256
HeaderLength(p) == Len(p.hdr) % 256

\* The length of the header, and the octet that the header is copied over.
StartPacket(t, p) ==
  /\ sends < MaxSends
  /\ doing[t] = "idle"
  /\ sends' = sends + 1
  /\ sending' = [sending EXCEPT ![t] = p]
  /\ Step(t, "header")
  /\ LET others == {u \in Sender \ {t} : doing[u] # "idle"}
     IN  torn' = [u \in Sender |-> IF u = t THEN others # {} ELSE torn[u] \/ u \in others]
  /\ sendingbuf' = Copied(sendingbuf, <<HeaderLength(p), 0>>, 1)
  /\ UNCHANGED <<channel, dead, handling, tmpBuffer, pkt, results, longest>>

CopyHeader(t) ==
  /\ doing[t] = "header" /\ Step(t, "payload")
  /\ sendingbuf' = Copied(sendingbuf, sending[t].hdr, 2)
  /\ UNCHANGED <<sends, sending, torn, channel, dead, handling, tmpBuffer, pkt, results, longest>>

CopyPayload(t) ==
  /\ doing[t] = "payload" /\ Step(t, "sendto")
  /\ sendingbuf' = Copied(sendingbuf, sending[t].payload, 2 + Len(sending[t].hdr))
  /\ UNCHANGED <<sends, sending, torn, channel, dead, handling, tmpBuffer, pkt, results, longest>>

\* The datagram goes out, or is lost.
SendTo(t) ==
  /\ doing[t] = "sendto" /\ Step(t, "idle")
  /\ LET pktlen == 1 + Len(sending[t].hdr) + Len(sending[t].payload)
         sent == [octets |-> SubSeq(sendingbuf, 1, pktlen), of |-> sending[t], torn |-> torn[t]]
     IN  \/ Len(channel) < Room /\ channel' = Append(channel, sent)
         \/ channel' = channel
  /\ sending' = [sending EXCEPT ![t] = None]
  /\ torn' = [torn EXCEPT ![t] = FALSE]
  /\ UNCHANGED <<sends, sendingbuf, dead, handling, tmpBuffer, pkt, results, longest>>

-----------------------------------------------------------------------------
(* receivePacket.                                                          *)

Goto(l, next) == at' = [at EXCEPT ![l] = next]

Receive(l) ==
  /\ ~dead /\ at[l] = "idle" /\ channel # <<>>
  /\ Goto(l, "extract")
  /\ channel' = Tail(channel)
  /\ tmpBuffer' = Copied(tmpBuffer, Head(channel).octets, 1)
  /\ len' = [len EXCEPT ![l] = Len(Head(channel).octets)]
  /\ got' = [got EXCEPT ![l] = Head(channel)]
  /\ LET others == {k \in Listener \ {l} : at[k] # "idle"}
     IN  crossed' = [k \in Listener |-> IF k = l THEN others # {} ELSE crossed[k] \/ k \in others]
  /\ recorded' = [recorded EXCEPT ![l] = Nothing]
  /\ out' = [out EXCEPT ![l] = None]
  /\ UNCHANGED <<sendVars, dead, pkt, ttl, longest>>

HeaderOctets_Short(a) == SubSeq(tmpBuffer, 2, a)
HeaderOctets(a) == SubSeq(tmpBuffer, 2, 1 + a)

\* The length is a char, and memcpy dies of a negative one.
ExtractHeader(l) ==
  /\ ~dead /\ at[l] = "extract"
  /\ Goto(l, "fill")
  /\ LET a == tmpBuffer[1]
     IN  /\ dead' = (a >= 128)
         /\ size' = a
         /\ info' = Copied(info, HeaderOctets(a), 1)
  /\ UNCHANGED <<sendVars, channel, len, got, crossed, tmpBuffer, payload, psize, results, longest>>

PayloadLength_Short(l) == len[l] - 2 - size
PayloadLength(l) == len[l] - 1 - size

\* memcpy dies of a negative size as well: of a header that is said to be longer
\* than the datagram.
FillPayload(l) ==
  /\ ~dead /\ at[l] = "fill"
  /\ Goto(l, "handle")
  /\ LET n == PayloadLength(l)
     IN  IF n < 0 THEN dead' = TRUE /\ UNCHANGED <<payload, psize, longest>>
         ELSE /\ psize' = n
              /\ payload' = Copied(payload, SubSeq(tmpBuffer, 2 + size, 1 + size + n), 1)
              /\ longest' = IF n > longest THEN n ELSE longest
              /\ dead' = dead
  /\ UNCHANGED <<sendVars, channel, len, got, crossed, tmpBuffer, info, size, results>>

-----------------------------------------------------------------------------
(* listen_on_port, by the type of the packet.                              *)

\* A Hello, an Ack or a type that is not known: nothing that concerns pkt_.
HandleOther(l) ==
  /\ ~dead /\ at[l] = "handle"
  /\ info[1] \notin {Char.l, Char.m}
  /\ Goto(l, "idle")
  /\ UNCHANGED <<sendVars, channel, dead, len, got, crossed, tmpBuffer, pkt, results, longest>>

\* extract_ls_info, and the TTL, which is kept in a local and tested.
HandleLSP(l) ==
  /\ ~dead /\ at[l] = "handle"
  /\ info[1] = Char.l
  /\ recorded' = [recorded EXCEPT ![l] = [source |-> Source(info), nhops |-> Nhops(info)]]
  /\ ttl' = [ttl EXCEPT ![l] = TTL(info)]
  /\ Goto(l, IF TTL(info) # 0 THEN "relay" ELSE "idle")
  /\ UNCHANGED <<sendVars, channel, dead, len, got, crossed, tmpBuffer, pkt, out, longest>>

NextTTL_Same(n) == (Char.zero + n) % 256
NextTTL(n) == (Char.zero + n - 1) % 256

\* setOctet writes the new TTL over the old one and counts it as one octet more.
SetTTL(l) ==
  /\ ~dead /\ at[l] = "relay"
  /\ Goto(l, "send")
  /\ info' = [info EXCEPT ![2] = NextTTL(ttl[l])]
  /\ size' = size + 1
  /\ ttl' = [ttl EXCEPT ![l] = 0]
  /\ UNCHANGED <<sendVars, channel, dead, len, got, crossed, tmpBuffer, payload, psize,
                 recorded, out, longest>>

\* send_ls_to_outgoing_ports, for one of the other ports.
RelayLSP(l) ==
  /\ ~dead /\ at[l] = "send"
  /\ Goto(l, "idle")
  /\ out' = [out EXCEPT ![l] = [hdr |-> SubSeq(info, 1, size),
                                payload |-> SubSeq(payload, 1, psize)]]
  /\ UNCHANGED <<sendVars, channel, dead, len, got, crossed, tmpBuffer, pkt, ttl, recorded, longest>>

StrLen_WithoutLast(s) ==
  CHOOSE n \in 0 .. Len(s) :
    /\ n + 1 >= Len(s) \/ s[n + 2] = 0
    /\ \A i \in 1 .. n + 1 : s[i] # 0

\* strlen: up to the first 0, which there is behind what is modelled.
StrLen(s) ==
  CHOOSE n \in 0 .. Len(s) :
    /\ n = Len(s) \/ s[n + 1] = 0
    /\ \A i \in 1 .. n : s[i] # 0

NumAddr == info[4] - Char.zero

\* The TTL is read as a digit and written as a number.
DataTTL_Negative(c) == c - Char.zero - 1
DataTTL(c) == (c - Char.zero - 1) % 256

\* send_data_packet, where the copies for all the destinations go one way: the
\* payload is what strlen finds.
ForwardData(l) ==
  /\ ~dead /\ at[l] = "handle"
  /\ info[1] = Char.m /\ NumAddr \in 1 .. 3
  /\ out' = [out EXCEPT ![l] = Data(DataTTL(info[2]), Source(info),
                                    SubSeq(info, 5, 4 + NumAddr),
                                    SubSeq(payload, 1, StrLen(payload)))]
  /\ Goto(l, "idle")
  /\ UNCHANGED <<sendVars, channel, dead, len, got, crossed, tmpBuffer, pkt, ttl, recorded, longest>>

\* A count of destinations that is none: indexes that nothing has set.
ForwardAstray(l) ==
  /\ ~dead /\ at[l] = "handle"
  /\ info[1] = Char.m /\ NumAddr \notin 1 .. 3
  /\ Goto(l, "idle")
  /\ UNCHANGED <<sendVars, channel, dead, len, got, crossed, tmpBuffer, pkt, results, longest>>

\* Whatever it is, the packet may be the end of the process: data overruns an array
\* on the stack and one on the heap, and may come before there is a forwarding
\* table; a Hello or an LSP may need a sending port that is not open yet, an Ack
\* name no neighbour, and the map be built of an incomplete list.
HandlerDies(l) ==
  /\ ~dead
  /\ \/ at[l] = "handle" /\ info[1] \in {Char.d, Char.one, Char.l, Char.m}
     \/ at[l] = "send"
  /\ dead' = TRUE
  /\ Goto(l, "idle")
  /\ UNCHANGED <<sendVars, channel, len, got, crossed, tmpBuffer, pkt, results, longest>>

Next ==
  \/ \E t \in Sender :
       \/ \E p \in Packets : StartPacket(t, p)
       \/ CopyHeader(t) \/ CopyPayload(t) \/ SendTo(t)
  \/ \E l \in Listener :
       \/ Receive(l) \/ ExtractHeader(l) \/ FillPayload(l)
       \/ HandleOther(l) \/ HandleLSP(l) \/ SetTTL(l) \/ RelayLSP(l)
       \/ ForwardData(l) \/ ForwardAstray(l) \/ HandlerDies(l)

Spec == Init /\ [][Next]_vars

-----------------------------------------------------------------------------
(* Properties.                                                             *)

\* Nobody else was at work while the packet was sent, nor while it was received.
Undisturbed(l) == ~got[l].torn /\ ~crossed[l]

\* Header and payload come out of the arrays as they were put in, whatever earlier
\* and longer packets have left there (common.cpp:120-139, 484-499).
ArrivesWhole ==
  \A l \in Listener :
    at[l] = "handle" /\ Undisturbed(l) /\ ~dead =>
      /\ SubSeq(info, 1, size) = got[l].of.hdr
      /\ SubSeq(payload, 1, psize) = got[l].of.payload

\* No datagram has a header of a negative length, whoever shares the arrays it went
\* through (common.cpp:136-138); and a payload of a negative length (common.cpp:497)
\* comes only of two threads that send over a port, or listen at one, at once.
ReceiveDiesOnlyOfOverlap ==
  [][\A l \in Listener :
       /\ at[l] = "extract" /\ at'[l] # at[l] => ~dead'
       /\ at[l] = "fill" /\ at'[l] # at[l] /\ Undisturbed(l) => ~dead']_vars

\* The neighbours that are recorded are those that the source sent.
RecordedAsSent ==
  \A l \in Listener :
    recorded[l] # Nothing /\ Undisturbed(l) =>
      IsLSP(got[l].of) /\ recorded[l] = [source |-> Source(got[l].of.hdr),
                                         nhops |-> Nhops(got[l].of.hdr)]

\* A relayed packet says what the received one said, with a TTL one less.  Its
\* header is an octet longer for each hop, and so its length never gets to be the
\* sign bit of a char (common.h:77).
RelayedRight ==
  \A l \in Listener :
    IsLSP(out[l]) /\ Undisturbed(l) =>
      LET h == got[l].of.hdr
          r == out[l].hdr
      IN  /\ Source(r) = Source(h) /\ Nhops(r) = Nhops(h)
          /\ TTL(r) = TTL(h) - 1 /\ TTL(r) >= 0
          /\ GrownByHops(out[l]) /\ out[l].payload = <<>>

\* A forwarded payload begins with the one received, and is no longer unless an
\* earlier packet at the port was, or the array was not zero when it was new, as
\* its last octet tells (router.cpp:101-107).
PayloadKept ==
  \A l \in Listener :
    IsData(out[l]) /\ Undisturbed(l) =>
      LET p == got[l].of.payload
          q == out[l].payload
      IN  /\ Len(q) >= Len(p) /\ SubSeq(q, 1, Len(p)) = p
          /\ longest = Len(p) /\ payload[Size] = 0 => q = p
=============================================================================
