------------------------------ MODULE Discovery ------------------------------
(***************************************************************************)
(* Start of the routers: the phases of the constructor, and the exchange   *)
(* of Hello and Hello-Ack packets by which each router finds out that all  *)
(* its neighbours are up before it sends link-state packets.               *)
(*                                                                         *)
(* The constructor opens all the receiving ports, each with a listening    *)
(* thread; then the array of sending ports, each with a thread that sends  *)
(* a Hello; starts the timer that repeats the Hellos for ever; and spins   *)
(* over nhop_hello_ack_rxed until every neighbour has answered.  The       *)
(* listeners answer from the moment they run, over a sending port that may *)
(* not exist yet.                                                          *)
(***************************************************************************)
EXTENDS Integers, FiniteSets

CONSTANTS
  Node,      \* router ids
  Port,      \* lines of the topology file: the ports of all the routers
  Owner,     \* Owner[p]: the router that has port p
  Peer,      \* Peer[p]: the port at the other end of p's link
  Line,      \* Line[p]: the line of the topology file that p is
  Served,    \* receiving ports that have a listening thread (see ThreadIndex)
  MaxLosses  \* bound on the datagrams that get lost

ASSUME LinkAssumption ==
  /\ Owner \in [Port -> Node]
  /\ Peer \in [Port -> Port]
  /\ \A p \in Port : Peer[Peer[p]] = p /\ Owner[Peer[p]] # Owner[p]
ASSUME FileAssumption ==
  Line \in [Port -> Nat] /\ \A p, q \in Port : Line[p] = Line[q] => p = q
\* What ThreadIndex lets a start of the listeners leave: the last port of a
\* router has a listener (theorem LastPort), any other may or may not.
ASSUME ServedAssumption ==
  /\ Served \subseteq Port
  /\ \A p \in Port \ Served :
       \E q \in Port : Owner[q] = Owner[p] /\ Line[q] > Line[p]
ASSUME MaxLossesAssumption == MaxLosses \in Nat

VARIABLES
  pc,       \* pc[r]: where the constructor of r is, or "dead"
  rx,       \* rx[p]: the receiving socket of p is bound
  tx,       \* tx[p]: the sending port of p: none, constructed (new) or usable
  acked,    \* acked[r]: neighbours with nhop_hello_ack_rxed = 1
  scanned,  \* scanned[r]: neighbours that the spinning loop found acked
  net,      \* net[p]: packets on their way to p: Hello "d" and Hello-Ack "1"
  losses    \* datagrams lost so far

vars == <<pc, rx, tx, acked, scanned, net, losses>>

PortsOf(r) == {p \in Port : Owner[p] = r}
Neighbor(p) == Owner[Peer[p]]
Neighbors(r) == {Neighbor(p) : p \in PortsOf(r)}

TypeOK ==
  /\ pc \in [Node -> {"open_rx", "open_tx", "wait", "lsp", "dead"}]
  /\ rx \in [Port -> BOOLEAN]
  /\ tx \in [Port -> {"none", "new", "open"}]
  /\ acked \in [Node -> SUBSET Node]
  /\ scanned \in [Node -> SUBSET Node]
  /\ net \in [Port -> SUBSET {"d", "1"}]
  /\ losses \in 0 .. MaxLosses

Init ==
  /\ pc = [r \in Node |-> "open_rx"]
  /\ rx = [p \in Port |-> FALSE]
  /\ tx = [p \in Port |-> "none"]
  /\ acked = [r \in Node |-> {}]
  /\ scanned = [r \in Node |-> {}]
  /\ net = [p \in Port |-> {}]
  /\ losses = 0

-----------------------------------------------------------------------------
(* The constructor.  The ports are opened in the order of the file.        *)

\* The ports of p's router that come before p in the file.
Earlier(p) == {q \in PortsOf(Owner[p]) : Line[q] < Line[p]}

OpenRx_InThread(p) ==
  /\ pc[Owner[p]] # "dead"
  /\ ~rx[p]
  /\ rx' = [rx EXCEPT ![p] = TRUE]
  /\ pc' = IF pc[Owner[p]] = "open_rx" THEN [pc EXCEPT ![Owner[p]] = "open_tx"] ELSE pc
  /\ UNCHANGED <<tx, acked, scanned, net, losses>>

\* Binds the receiving socket of the next port, and starts a listener.
OpenRx(p) ==
  /\ pc[Owner[p]] = "open_rx"
  /\ ~rx[p] /\ \A q \in Earlier(p) : rx[q]
  /\ rx' = [rx EXCEPT ![p] = TRUE]
  /\ pc' = IF \A q \in PortsOf(Owner[p]) \ {p} : rx[q]
           THEN [pc EXCEPT ![Owner[p]] = "open_tx"] ELSE pc
  /\ UNCHANGED <<tx, acked, scanned, net, losses>>

\* txing_ports[i] = new MySendingPort(): no socket and no sending buffer yet.
NewTx(p) ==
  /\ pc[Owner[p]] = "open_tx"
  /\ tx[p] = "none"
  /\ \A q \in Earlier(p) : tx[q] = "open"
  /\ tx' = [tx EXCEPT ![p] = "new"]
  /\ UNCHANGED <<pc, rx, acked, scanned, net, losses>>

\* init() of that port, after which its Hello thread starts.
InitTx(p) ==
  /\ pc[Owner[p]] = "open_tx"
  /\ tx[p] = "new"
  /\ tx' = [tx EXCEPT ![p] = "open"]
  /\ pc' = IF \A q \in PortsOf(Owner[p]) \ {p} : tx[q] = "open"
           THEN [pc EXCEPT ![Owner[p]] = "wait"] ELSE pc
  /\ UNCHANGED <<rx, acked, scanned, net, losses>>

ScanNext_NoCheck(r, n) ==
  /\ pc[r] = "wait"
  /\ n \in Neighbors(r) \ scanned[r]
  /\ scanned' = [scanned EXCEPT ![r] = @ \cup {n}]
  /\ pc' = IF scanned[r] \cup {n} = Neighbors(r) THEN [pc EXCEPT ![r] = "lsp"] ELSE pc
  /\ UNCHANGED <<rx, tx, acked, net, losses>>

\* One iteration of wait_for_all_nhops_to_be_disced: a neighbour that has not
\* answered starts the loop again; after the last one, link state is broadcast.
ScanNext(r, n) ==
  /\ pc[r] = "wait"
  /\ n \in Neighbors(r) \ scanned[r]
  /\ scanned' = [scanned EXCEPT ![r] = IF n \in acked[r] THEN @ \cup {n} ELSE {}]
  /\ pc' = IF n \in acked[r] /\ scanned[r] \cup {n} = Neighbors(r)
           THEN [pc EXCEPT ![r] = "lsp"] ELSE pc
  /\ UNCHANGED <<rx, tx, acked, net, losses>>

-----------------------------------------------------------------------------
(* Packets.                                                                *)

SendHello_OnlyOnce(p) ==
  /\ pc[Owner[p]] = "open_tx"
  /\ tx[p] = "open"
  /\ net' = [net EXCEPT ![Peer[p]] = @ \cup {"d"}]
  /\ UNCHANGED <<pc, rx, tx, acked, scanned, losses>>

\* A thread of the first round, or of the rounds that the timer starts for ever.
SendHello(p) ==
  /\ pc[Owner[p]] # "dead"
  /\ tx[p] = "open"
  /\ net' = [net EXCEPT ![Peer[p]] = @ \cup {"d"}]
  /\ UNCHANGED <<pc, rx, tx, acked, scanned, losses>>

\* The listener of p takes packet k off its socket.
Takes(p, k) ==
  /\ pc[Owner[p]] # "dead"
  /\ p \in Served
  /\ rx[p]
  /\ k \in net[p]

\* A Hello is answered over the sending port of the same index.
AnswerHello(p) ==
  /\ Takes(p, "d")
  /\ tx[p] = "open"
  /\ net' = [net EXCEPT ![p] = @ \ {"d"}, ![Peer[p]] = @ \cup {"1"}]
  /\ UNCHANGED <<pc, rx, tx, acked, scanned, losses>>

\* A Hello comes before that port is usable: txing_ports, its element or its
\* sendingbuf_ is read uninitialised.  Either nothing is sent ...
HelloTooEarly(p) ==
  /\ Takes(p, "d")
  /\ tx[p] # "open"
  /\ net' = [net EXCEPT ![p] = @ \ {"d"}]
  /\ UNCHANGED <<pc, rx, tx, acked, scanned, losses>>

\* ... or the process dies, and its sockets are closed.
HelloKills(p) ==
  /\ Takes(p, "d")
  /\ tx[p] # "open"
  /\ net' = [net EXCEPT ![p] = @ \ {"d"}]
  /\ pc' = [pc EXCEPT ![Owner[p]] = "dead"]
  /\ rx' = [q \in Port |-> rx[q] /\ Owner[q] # Owner[p]]
  /\ UNCHANGED <<tx, acked, scanned, losses>>

HandleAck_KeyedByPort(p) ==
  /\ Takes(p, "1")
  /\ net' = [net EXCEPT ![p] = @ \ {"1"}]
  /\ acked' = [acked EXCEPT ![Owner[p]] = @ \cup {Peer[p]}]
  /\ UNCHANGED <<pc, rx, tx, scanned, losses>>

\* A Hello-Ack sets the entry of its sender in nhop_hello_ack_rxed.
HandleAck(p) ==
  /\ Takes(p, "1")
  /\ net' = [net EXCEPT ![p] = @ \ {"1"}]
  /\ acked' = [acked EXCEPT ![Owner[p]] = @ \cup {Neighbor(p)}]
  /\ UNCHANGED <<pc, rx, tx, scanned, losses>>

\* A datagram for a socket that is not bound disappears ...
Unreachable(p, k) ==
  /\ k \in net[p]
  /\ ~rx[p]
  /\ net' = [net EXCEPT ![p] = @ \ {k}]
  /\ UNCHANGED <<pc, rx, tx, acked, scanned, losses>>

\* ... and so may any other: UDP.
Lose(p, k) ==
  /\ losses < MaxLosses
  /\ k \in net[p]
  /\ net' = [net EXCEPT ![p] = @ \ {k}]
  /\ losses' = losses + 1
  /\ UNCHANGED <<pc, rx, tx, acked, scanned>>

Constructor(r) ==
  \/ \E p \in PortsOf(r) : OpenRx(p) \/ NewTx(p) \/ InitTx(p)
  \/ \E n \in Neighbors(r) : ScanNext(r, n)

Listener(p, k) ==
  \/ k = "d" /\ (AnswerHello(p) \/ HelloTooEarly(p) \/ HelloKills(p))
  \/ k = "1" /\ HandleAck(p)

Next ==
  \/ \E r \in Node : Constructor(r)
  \/ \E p \in Port : SendHello(p)
  \/ \E p \in Port, k \in {"d", "1"} : Listener(p, k) \/ Unreachable(p, k) \/ Lose(p, k)

Spec == Init /\ [][Next]_vars

\* The last port of a router.
IsLast(p) == \A q \in PortsOf(Owner[p]) : Line[q] <= Line[p]

\* The threads of every router run; a listener handles what lies in its socket; and
\* the timer goes on: its rounds serve the last port of a router again and again
\* (theorem LastPort of ThreadIndexProofs).
FairSpec ==
  /\ Spec
  /\ \A r \in Node : WF_vars(Constructor(r))
  /\ \A p \in Port : IsLast(p) => WF_vars(SendHello(p))
  /\ \A p \in Served, k \in {"d", "1"} : WF_vars(Listener(p, k))

-----------------------------------------------------------------------------
(* Properties.                                                             *)

\* When a router starts to send link state, every receiving socket at the other
\* end of its links is bound, also over links whose own Hello is still pending
\* (router.h:103-107), unless that neighbour died.
LspFindsSocket ==
  \A p \in Port : pc[Owner[p]] = "lsp" => rx[Peer[p]] \/ pc[Neighbor(p)] = "dead"

\* Some link between r and its neighbour n has a listening thread at both ends.
ListenersOver(r, n) ==
  \E p \in PortsOf(r) : Neighbor(p) = n /\ p \in Served /\ Peer[p] \in Served

\* Discovery ends only if some link to each neighbour has a listening thread at
\* both ends: a port the thread indices leave out (ThreadIndex) holds up the
\* router and the neighbour behind it (router.cpp:694-706).
DoneNeedsListeners ==
  \A r \in Node : pc[r] = "lsp" => \A n \in Neighbors(r) : ListenersOver(r, n)

\* A router that has a link to each neighbour with listeners at both ends, which the
\* rounds of the timer come to serve, gets through discovery, whatever happens
\* between others, unless an early Hello kills it or a neighbour: a Hello or an Ack
\* that is lost, or comes too early, is made up for by the timer (router.cpp:640-651).
AllDiscovered ==
  \A r \in Node :
    (\A n \in Neighbors(r) : \E p \in PortsOf(r) :
       Neighbor(p) = n /\ {p, Peer[p]} \subseteq Served /\ WF_vars(SendHello(p)))
    => <>(pc[r] = "lsp" \/ \E n \in Neighbors(r) \cup {r} : pc[n] = "dead")
=============================================================================
