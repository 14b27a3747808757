------------------------------ MODULE MapBuild ------------------------------
(***************************************************************************)
(* How the listening threads of ONE router record the link-state packets   *)
(* that come by its ports, and how one of them comes to build the map.     *)
(*                                                                         *)
(* extract_ls_info takes no lock.  It looks the source up in graph_name,   *)
(* appends it, inserts its neighbours into netnode_nhops, and compares the *)
(* length of graph_name with num_of_total_nodes; build_map then appends    *)
(* and inserts the router itself, increments num_of_total_nodes, copies    *)
(* the names and goes over the neighbours.  Each access to a container is  *)
(* a span here, from the step that begins it to the step that ends it, the *)
(* loop that prints the names after the append included; when two accesses *)
(* of a container overlap and one of them writes, what they do is          *)
(* undefined.                                                              *)
(*                                                                         *)
(* A port may have more than one listener, as ThreadIndex shows.           *)
(***************************************************************************)
EXTENDS Integers, FiniteSets, Sequences, Functions

CONSTANTS
  Self,      \* the router
  Source,    \* the other nodes of the network
  Listener,  \* its listening threads
  Comes,     \* Comes[t]: the sources whose packets may come to listener t
  MaxNames,  \* bound on the length of graph_name
  MaxRaces   \* bound on the accesses that overlap

ASSUME SelfAssumption == Self \notin Source
ASSUME SourceAssumption == IsFiniteSet(Source) /\ Source # {}
ASSUME ListenerAssumption == IsFiniteSet(Listener)
ASSUME ComesAssumption == Comes \in [Listener -> SUBSET (Source \cup {Self})]
ASSUME BoundsAssumption == MaxNames \in Nat /\ MaxRaces \in Nat

\* What a network without cycles gives (OutwardOnly of LinkStateTree): the router's
\* own packets come by none of its ports.
Outward == \A t \in Listener : Self \notin Comes[t]

VARIABLES
  pc,                  \* where each listener is
  src,                 \* src[t]: source of the packet that t handles
  raced,               \* raced[t]: the access t is in has overlapped another
  graph_name,          \* names recorded
  netnode_nhops,       \* nodes whose neighbours are recorded
  num_of_total_nodes,  \* what the length of graph_name is compared with
  final_graph_name,    \* the names as copied by build_map
  maps,                \* the maps built: their names, and whose neighbours they had
  races,               \* history: the accesses that began within a conflicting one
  alone                \* history: no two listeners were recording at once

containers == <<graph_name, netnode_nhops, num_of_total_nodes, final_graph_name>>
vars == <<pc, src, raced, containers, maps, races, alone>>

Name == Source \cup {Self}
Garbage == "garbage"  \* what an undefined append may leave in a slot

\* Listeners that record a new source: between the lookup and the comparison.
Recording == {"found_none", "push", "print", "insert", "inserted",
              "build_push", "build_pushed", "build_insert", "build_inserted",
              "build_copy", "build_edges"}

Phase == Recording \cup {"idle", "find", "dead"}

TypeOK ==
  /\ pc \in [Listener -> Phase]
  /\ src \in [Listener -> Name]
  /\ raced \in [Listener -> BOOLEAN]
  /\ graph_name \in Seq(Name \cup {Garbage})
  /\ netnode_nhops \subseteq Name
  /\ num_of_total_nodes \in Nat
  /\ final_graph_name \in Seq(Name \cup {Garbage})
  /\ maps \in Seq([names : Seq(Name \cup {Garbage}), nhops : SUBSET Name])
  /\ races \in 0 .. MaxRaces
  /\ alone \in BOOLEAN

Init ==
  /\ pc = [t \in Listener |-> "idle"]
  /\ src = [t \in Listener |-> Self]
  /\ raced = [t \in Listener |-> FALSE]
  /\ graph_name = <<>>
  /\ netnode_nhops = {}
  /\ num_of_total_nodes = Cardinality(Source)
  /\ final_graph_name = <<>>
  /\ maps = <<>>
  /\ races = 0
  /\ alone = TRUE

\* The accesses that an access of a kind must not overlap.
Conflicts(a) ==
  CASE a \in {"find", "print", "build_copy"} -> {"push", "build_push"}
    [] a \in {"push", "build_push"} -> {"find", "print", "build_copy", "push", "build_push"}
    [] a \in {"insert", "build_insert"} -> {"build_edges", "insert", "build_insert"}
    [] a = "build_edges" -> {"insert", "build_insert"}

\* Listener t begins access a, which ends the one that it is in: it overlaps those
\* that others are in.
Begin(t, a) ==
  LET over == {u \in Listener \ {t} : pc[u] \in Conflicts(a)}
      new == over # {} /\ ~raced[t]
  IN  /\ new => races < MaxRaces
      /\ pc' = [pc EXCEPT ![t] = a]
      /\ raced' = [u \in Listener |->
                     IF u = t THEN over # {} ELSE raced[u] \/ u \in over]
      /\ races' = IF new THEN races + 1 ELSE races
      /\ UNCHANGED alone

\* Listener t moves to phase b of its own, which ends the access it is in.
Goto(t, b) ==
  /\ pc' = [pc EXCEPT ![t] = b]
  /\ src' = IF b = "idle" THEN [src EXCEPT ![t] = Self] ELSE src
  /\ raced' = [raced EXCEPT ![t] = FALSE]
  /\ alone' = (alone /\ ~(b \in Recording /\ \E u \in Listener \ {t} : pc[u] \in Recording))
  /\ UNCHANGED races

-----------------------------------------------------------------------------
\* A link-state packet comes; std::find begins.
BeginFind(t, x) ==
  /\ pc[t] = "idle"
  /\ x \in Comes[t]
  /\ src' = [src EXCEPT ![t] = x]
  /\ Begin(t, "find")
  /\ UNCHANGED <<containers, maps>>

EndFind_Ignored(t) ==
  /\ pc[t] = "find"
  /\ Goto(t, "found_none")
  /\ UNCHANGED <<containers, maps>>

\* The source is known, and there is nothing to do, or it is new.  Either may come
\* out of a lookup in a vector that is being changed.
EndFind(t) ==
  /\ pc[t] = "find"
  /\ \/ raced[t] /\ Goto(t, "found_none")
     \/ raced[t] /\ Goto(t, "idle")
     \/ /\ ~raced[t]
        /\ Goto(t, IF src[t] \in Range(graph_name) THEN "idle" ELSE "found_none")
  /\ UNCHANGED <<containers, maps>>

BeginPush(t) ==
  /\ pc[t] = "found_none"
  /\ Len(graph_name) < MaxNames
  /\ Begin(t, "push")
  /\ UNCHANGED <<src, containers, maps>>

\* What an append of name x may leave: undefined, it may lose x or its slot.
PushBack(t, x) ==
  \/ graph_name' = Append(graph_name, x)
  \/ raced[t] /\ graph_name' = graph_name
  \/ raced[t] /\ graph_name' = Append(graph_name, Garbage)

EndPush_Index(t) ==
  /\ pc[t] = "push"
  /\ PushBack(t, t)
  /\ Begin(t, "print")
  /\ UNCHANGED <<src, netnode_nhops, num_of_total_nodes, final_graph_name, maps>>

\* The append is done, and the loop that prints the names begins.
EndPush(t) ==
  /\ pc[t] = "push"
  /\ PushBack(t, src[t])
  /\ Begin(t, "print")
  /\ UNCHANGED <<src, netnode_nhops, num_of_total_nodes, final_graph_name, maps>>

\* The names are printed; the neighbours of the source are inserted.
BeginInsert(t) ==
  /\ pc[t] = "print"
  /\ Begin(t, "insert")
  /\ UNCHANGED <<src, containers, maps>>

EndInsert(t) ==
  /\ pc[t] = "insert"
  /\ \/ netnode_nhops' = netnode_nhops \cup {src[t]}
     \/ raced[t] /\ netnode_nhops' = netnode_nhops
  /\ Goto(t, "inserted")
  /\ UNCHANGED <<graph_name, num_of_total_nodes, final_graph_name, maps>>

Compare_OneMore(t) ==
  /\ pc[t] = "inserted"
  /\ IF Len(graph_name) = num_of_total_nodes + 1
     THEN Begin(t, "build_push") /\ UNCHANGED src
     ELSE Goto(t, "idle")
  /\ UNCHANGED <<containers, maps>>

Compare_OneLess(t) ==
  /\ pc[t] = "inserted"
  /\ IF Len(graph_name) + 1 = num_of_total_nodes
     THEN Begin(t, "build_push") /\ UNCHANGED src
     ELSE Goto(t, "idle")
  /\ UNCHANGED <<containers, maps>>

\* The comparison that lets build_map begin, with its append of the router.
Compare(t) ==
  /\ pc[t] = "inserted"
  /\ IF Len(graph_name) = num_of_total_nodes
     THEN Begin(t, "build_push") /\ UNCHANGED src
     ELSE Goto(t, "idle")
  /\ UNCHANGED <<containers, maps>>

EndBuildPush(t) ==
  /\ pc[t] = "build_push"
  /\ PushBack(t, Self)
  /\ Goto(t, "build_pushed")
  /\ UNCHANGED <<netnode_nhops, num_of_total_nodes, final_graph_name, maps>>

BeginBuildInsert(t) ==
  /\ pc[t] = "build_pushed"
  /\ Begin(t, "build_insert")
  /\ UNCHANGED <<src, containers, maps>>

EndBuildInsert(t) ==
  /\ pc[t] = "build_insert"
  /\ \/ netnode_nhops' = netnode_nhops \cup {Self}
     \/ raced[t] /\ netnode_nhops' = netnode_nhops
  /\ Goto(t, "build_inserted")
  /\ UNCHANGED <<graph_name, num_of_total_nodes, final_graph_name, maps>>

\* ++num_of_total_nodes; the loop that copies that many names begins.
BeginCopy(t) ==
  /\ pc[t] = "build_inserted"
  /\ num_of_total_nodes' = num_of_total_nodes + 1
  /\ Begin(t, "build_copy")
  /\ UNCHANGED <<src, graph_name, netnode_nhops, final_graph_name, maps>>

\* The names are copied; the loops over the neighbours begin.
EndCopy(t) ==
  /\ pc[t] = "build_copy"
  /\ num_of_total_nodes <= Len(graph_name)
  /\ \E bad \in SUBSET (1 .. num_of_total_nodes) :
       /\ bad # {} => raced[t]
       /\ final_graph_name' =
            [i \in 1 .. num_of_total_nodes |-> IF i \in bad THEN Garbage ELSE graph_name[i]]
  /\ Begin(t, "build_edges")
  /\ UNCHANGED <<src, graph_name, netnode_nhops, num_of_total_nodes, maps>>

\* The graph is made of those names and of the neighbours that are found.
EndBuild(t) ==
  /\ pc[t] = "build_edges"
  /\ \E found \in SUBSET netnode_nhops :
       /\ found # netnode_nhops => raced[t]
       /\ maps' = Append(maps, [names |-> final_graph_name, nhops |-> found])
  /\ Goto(t, "idle")
  /\ UNCHANGED containers

\* graph_name.at() throws out of the thread, or an access that is undefined ends the
\* process in some other way.
Dies(t) ==
  /\ \/ pc[t] = "build_copy" /\ num_of_total_nodes > Len(graph_name)
     \/ raced[t] /\ pc[t] # "dead"
  /\ pc' = [u \in Listener |-> "dead"]
  /\ src' = [u \in Listener |-> Self]
  /\ raced' = [u \in Listener |-> FALSE]
  /\ UNCHANGED <<containers, maps, races, alone>>

ListenerStep(t) ==
  \/ \E x \in Comes[t] : BeginFind(t, x)
  \/ EndFind(t) \/ BeginPush(t) \/ EndPush(t) \/ BeginInsert(t) \/ EndInsert(t)
  \/ Compare(t) \/ EndBuildPush(t) \/ BeginBuildInsert(t) \/ EndBuildInsert(t)
  \/ BeginCopy(t) \/ EndCopy(t) \/ EndBuild(t) \/ Dies(t)

Next == \E t \in Listener : ListenerStep(t)

Spec == Init /\ [][Next]_vars

-----------------------------------------------------------------------------
(* Properties.                                                             *)

Distinct(s) == Cardinality(Range(s)) = Len(s)

\* The places of name x in graph_name, and the listeners that packets of x come to.
Places(x) == {i \in DOMAIN graph_name : graph_name[i] = x}
ListenersOf(x) == {t \in Listener : x \in Comes[t]}

\* The lookup and the append, which no lock joins (router.cpp:437-445), record a
\* source at most once for each listener that its packets come to, however these
\* interleave and however often it sends, as long as no two accesses overlap:
\* once, where it comes by one port and that has one listener.
NamesPerListener ==
  races = 0 => \A x \in Source : Cardinality(Places(x)) <= Cardinality(ListenersOf(x))

\* No source has been recorded twice.
SourcesOnce == \A x \in Source : \A i, j \in Places(x) : i = j

\* As long as that is so, the listeners do not miss that they are done: when they
\* have recorded every source, one of them has built a map, since the last append
\* is seen by a comparison (router.cpp:466).  Twice the same source, and the length
\* may go past the number that it is compared with.
NoMissedBuild ==
  (Outward /\ races = 0 /\ SourcesOnce /\ Source \subseteq Range(graph_name)
           /\ \A t \in Listener : pc[t] = "idle")
    => maps # <<>>

\* And if no two listeners are ever between the lookup and the comparison at once,
\* also where they share a port, there is one map, it has every node, with its
\* neighbours, once, and at() does not throw.
OneCompleteMap ==
  (Outward /\ races = 0 /\ alone) =>
    /\ \A t \in Listener : pc[t] # "dead"
    /\ Len(maps) <= 1
    /\ \A i \in DOMAIN maps :
         Distinct(maps[i].names) /\ Range(maps[i].names) = Name /\ maps[i].nhops = Name

\* The map is built from what every node has sent: "CONNECTIVITY INFO FROM EACH
\* NODE IS EXTRACTED" (router.cpp:467).
BuiltFromAll == \A i \in DOMAIN maps : Source \subseteq maps[i].nhops
=============================================================================
