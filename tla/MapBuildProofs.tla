--------------------------- MODULE MapBuildProofs ---------------------------
(***************************************************************************)
(* Proofs about MapBuild, for any number of listeners and sources.         *)
(*                                                                         *)
(* As long as no two accesses to a container overlap, a listener that      *)
(* looks a source up finds it for ever after its first append: what has    *)
(* been appended and what is about to be are together no more than the     *)
(* listeners of that source (Few).  While no source is named twice, the    *)
(* length of graph_name is the number of sources in it until somebody      *)
(* appends the router itself; the listener whose append completed the      *)
(* sources therefore finds the number that it compares with (Counted).     *)
(* If, besides, at most one listener is recording at a time, what it has   *)
(* looked up stays true until it appends, the one that builds the map      *)
(* finds in the containers what all the others left there, and nobody      *)
(* begins to record again (Alone).                                         *)
(***************************************************************************)
EXTENDS MapBuild, TLAPS, FiniteSetTheorems

USE SelfAssumption, SourceAssumption, ListenerAssumption, ComesAssumption, BoundsAssumption

-----------------------------------------------------------------------------
(* The inductive invariant.                                                *)

Calm == Outward /\ races = 0
Alive == \A t \in Listener : pc[t] # "dead"

\* The phases after the append of the source, and after that of the router.
Appended == {"print", "insert", "inserted"}
Copying == {"build_copy", "build_edges"}
SelfAppended == {"build_pushed", "build_insert", "build_inserted"} \cup Copying
Building == SelfAppended \cup {"build_push"}

\* The history counts what happens to single accesses.
NoRaces == races = 0 => \A t \in Listener : ~raced[t]

OwnSource == \A t \in Listener : pc[t] \notin {"idle", "dead"} => src[t] \in Comes[t]

\* Listeners that did not find x, and have not appended it yet.
About(x) == {t \in Listener : pc[t] \in {"found_none", "push"} /\ src[t] = x}

Few == races = 0 =>
  \A x \in Source : Cardinality(Places(x)) + Cardinality(About(x)) <= Cardinality(ListenersOf(x))

\* What has been appended stays.
Kept == Calm =>
  /\ graph_name \in Seq(Name)
  /\ \A t \in Listener : pc[t] \in Appended => src[t] \in Range(graph_name)

\* Until a map is built, the length of graph_name says how many sources are in it,
\* or somebody is building the map.
Counted == Calm /\ SourcesOnce /\ Alive =>
  /\ Self \notin Range(graph_name) => Cardinality(Range(graph_name)) = Len(graph_name)
  /\ maps = <<>> =>
       /\ num_of_total_nodes = Cardinality(Source) \/ \E t \in Listener : pc[t] \in Copying
       /\ Self \in Range(graph_name) => \E t \in Listener : pc[t] \in SelfAppended
       /\ Source \subseteq Range(graph_name) =>
            \E t \in Listener : pc[t] \in Appended \cup Building

\* One listener at a time: each finds what the others have completed.
Alone == Calm /\ alone =>
  /\ Alive /\ SourcesOnce
  /\ \A t, u \in Listener : pc[t] \in Recording /\ pc[u] \in Recording => t = u
  /\ \A t \in Listener : pc[t] \in {"found_none", "push"} => src[t] \notin Range(graph_name)
  /\ Cardinality(Range(graph_name)) = Len(graph_name)
  /\ netnode_nhops \subseteq Range(graph_name)
  /\ \A x \in Range(graph_name) \ netnode_nhops : \E t \in Listener :
       \/ pc[t] \in {"print", "insert"} /\ x = src[t]
       \/ pc[t] \in {"build_pushed", "build_insert"} /\ x = Self
  /\ \A t \in Listener : pc[t] \in Building => maps = <<>> /\ Source \subseteq Range(graph_name)
  /\ \A t \in Listener : pc[t] \in SelfAppended => Self \in Range(graph_name)
  /\ \A t \in Listener : pc[t] \in Copying => num_of_total_nodes = Len(graph_name)
  /\ \A t \in Listener : pc[t] = "build_edges" => final_graph_name = graph_name
  /\ maps # <<>> => /\ Range(graph_name) = Name
                    /\ \A t \in Listener : pc[t] \notin Recording
  /\ Len(maps) <= 1
  /\ \A i \in DOMAIN maps :
       Distinct(maps[i].names) /\ Range(maps[i].names) = Name /\ maps[i].nhops = Name

IInv == TypeOK /\ NoRaces /\ OwnSource /\ Few /\ Kept /\ Counted /\ Alone
-----------------------------------------------------------------------------
(* Lists of names.                                                         *)

LEMMA RangeAppend ==
  ASSUME NEW S, NEW s \in Seq(S), NEW x \in S
  PROVE  /\ Append(s, x) \in Seq(S)
         /\ Len(Append(s, x)) = Len(s) + 1
         /\ Range(Append(s, x)) = Range(s) \cup {x}
         /\ DOMAIN s = 1 .. Len(s) /\ DOMAIN Append(s, x) = 1 .. Len(s) + 1
         /\ \A i \in 1 .. Len(s) : Append(s, x)[i] = s[i]
         /\ Append(s, x)[Len(s) + 1] = x
<1> DEFINE t == Append(s, x)
<1>1. t \in Seq(S) /\ Len(t) = Len(s) + 1 /\ Len(s) \in Nat
  OBVIOUS
<1>2. DOMAIN t = 1 .. Len(s) + 1 /\ DOMAIN s = 1 .. Len(s)
  BY <1>1
<1>3. t[Len(s) + 1] = x /\ \A i \in 1 .. Len(s) : t[i] = s[i]
  BY <1>1
<1> HIDE DEF t
<1>4. Range(t) \subseteq Range(s) \cup {x}
  BY <1>1, <1>2, <1>3 DEF Range
<1>5. Range(s) \cup {x} \subseteq Range(t)
  BY <1>1, <1>2, <1>3 DEF Range
<1>6. QED
  BY <1>1, <1>2, <1>3, <1>4, <1>5 DEF t

LEMMA NameFinite == IsFiniteSet(Name) /\ Cardinality(Source) \in Nat
BY FS_AddElement, FS_CardinalityType DEF Name

\* A name that is new makes the set of the names larger by one.
LEMMA NewName ==
  ASSUME NEW s \in Seq(Name), NEW x \in Name, x \notin Range(s),
         Cardinality(Range(s)) = Len(s)
  PROVE  Cardinality(Range(Append(s, x))) = Len(Append(s, x))
<1>1. Range(s) \subseteq Name
  BY DEF Range
<1>2. IsFiniteSet(Range(s))
  BY <1>1, NameFinite, FS_Subset
<1>3. Cardinality(Range(s) \cup {x}) = Cardinality(Range(s)) + 1
  BY <1>2, FS_AddElement
<1>4. Range(Append(s, x)) = Range(s) \cup {x} /\ Len(Append(s, x)) = Len(s) + 1
  BY RangeAppend
<1>5. QED
  BY <1>3, <1>4

\* Names that are as many as the sources, and not the router's, are the sources.
LEMMA AllSources ==
  ASSUME NEW s \in Seq(Name), Self \notin Range(s), Cardinality(Range(s)) = Cardinality(Source)
  PROVE  Range(s) = Source
<1>1. Range(s) \subseteq Source
  BY DEF Range, Name
<1>2. QED
  BY <1>1, FS_Subset

\* What an append of x to graph_name does to the places of the names.
LEMMA PlacesAppend ==
  ASSUME TypeOK, NEW x \in Name, graph_name' = Append(graph_name, x)
  PROVE  /\ \A y \in Source \ {x} : Places(y)' = Places(y)
         /\ x \in Source => Cardinality(Places(x)') <= Cardinality(Places(x)) + 1
         /\ SourcesOnce' => SourcesOnce /\ (x \in Source => x \notin Range(graph_name))
         /\ SourcesOnce /\ x \notin Source \cap Range(graph_name) => SourcesOnce'
<1> DEFINE n == Len(graph_name)
<1>1. graph_name \in Seq(Name \cup {Garbage}) /\ x \in Name \cup {Garbage}
  BY DEF TypeOK
<1>2. /\ DOMAIN graph_name = 1 .. n /\ DOMAIN graph_name' = 1 .. n + 1 /\ n \in Nat
      /\ \A i \in 1 .. n : graph_name'[i] = graph_name[i]
      /\ graph_name'[n + 1] = x
  BY <1>1, RangeAppend
<1> HIDE DEF n
<1>3. ASSUME NEW y \in Name \ {x} PROVE Places(y)' = Places(y)
  BY <1>2 DEF Places
<1>4. Places(x)' = Places(x) \cup {n + 1} /\ n + 1 \notin Places(x)
  BY <1>2 DEF Places
<1>5. Cardinality(Places(x)') <= Cardinality(Places(x)) + 1
  <2>1. IsFiniteSet(1 .. n) /\ Places(x) \subseteq 1 .. n
    BY <1>2, FS_Interval DEF Places
  <2>2. IsFiniteSet(Places(x))
    BY <2>1, FS_Subset
  <2>3. Cardinality(Places(x)') = Cardinality(Places(x)) + 1 /\ Cardinality(Places(x)) \in Nat
    BY <2>2, <1>4, FS_AddElement, FS_CardinalityType
  <2>4. QED
    BY <2>3
<1>6. x \in Range(graph_name) => Places(x) # {}
  BY DEF Range, Places
<1>7. x \notin Range(graph_name) => Places(x) = {}
  BY DEF Range, Places
<1>8. ASSUME SourcesOnce' PROVE SourcesOnce /\ (x \in Source => x \notin Range(graph_name))
  <2>1. ASSUME NEW y \in Source PROVE Places(y) \subseteq Places(y)'
    BY <1>3, <1>4 DEF Name
  <2>2. SourcesOnce
    BY <1>8, <2>1 DEF SourcesOnce
  <2>3. ASSUME x \in Source, x \in Range(graph_name) PROVE FALSE
    BY <1>4, <1>6, <1>8, <2>3 DEF SourcesOnce
  <2>4. QED
    BY <2>2, <2>3
<1>9. ASSUME SourcesOnce, x \notin Source \cap Range(graph_name) PROVE SourcesOnce'
  <2> SUFFICES ASSUME NEW y \in Source, NEW k \in Places(y)', NEW l \in Places(y)' PROVE k = l
    BY DEF SourcesOnce
  <2>1. CASE y = x
    BY <1>4, <1>7, <1>9, <2>1
  <2>2. CASE y # x
    BY <1>3, <1>9, <2>2 DEF SourcesOnce, Name
  <2>3. QED
    BY <2>1, <2>2
<1>10. QED
  BY <1>3, <1>5, <1>8, <1>9 DEF Name

LEMMA ListenerSets ==
  ASSUME NEW S, S \subseteq Listener
  PROVE  IsFiniteSet(S) /\ Cardinality(S) \in Nat
BY FS_Subset, FS_CardinalityType

-----------------------------------------------------------------------------
(* Types, and what an access does.                                         *)

LEMMA PhaseElements ==
  /\ {"idle", "find", "found_none", "push", "print", "insert", "inserted", "build_push",
      "build_pushed", "build_insert", "build_inserted", "build_copy", "build_edges", "dead"}
       = Phase
  /\ Recording \subseteq Phase
BY DEF Phase, Recording

LEMMA InitInvariant == Init => IInv
<1> SUFFICES ASSUME Init PROVE IInv
  OBVIOUS
<1>1. Range(<<>>) = {} /\ Cardinality({}) = 0 /\ Len(<<>>) = 0
  BY FS_EmptySet DEF Range
<1>2. Cardinality(Source) \in Nat /\ Source # {}
  BY NameFinite
<1>3. TypeOK
  BY <1>2 DEF Init, TypeOK, Phase, Name
<1>4. NoRaces /\ OwnSource
  BY DEF Init, NoRaces, OwnSource
<1>5. graph_name = <<>> /\ maps = <<>> /\ netnode_nhops = {} /\ Range(graph_name) = {}
  BY <1>1 DEF Init
<1>6. \A x \in Source : Places(x) = {} /\ About(x) = {}
  BY DEF Init, Places, About
<1>7. Few
  <2>1. ASSUME NEW x \in Source
        PROVE  Cardinality(Places(x)) + Cardinality(About(x)) <= Cardinality(ListenersOf(x))
    <3>1. Cardinality(ListenersOf(x)) \in Nat
      BY ListenerSets DEF ListenersOf
    <3>2. Cardinality(Places(x)) = 0 /\ Cardinality(About(x)) = 0
      BY <1>1, <1>6
    <3>3. QED
      BY <3>1, <3>2
  <2>2. QED
    BY <2>1 DEF Few
<1>8. Kept
  BY <1>5 DEF Init, Kept, Appended
<1>9. Counted
  BY <1>1, <1>2, <1>5 DEF Init, Counted
<1>10. Alone
  <2>1. \A t \in Listener : pc[t] = "idle"
    BY DEF Init
  <2>2. \A t \in Listener : /\ pc[t] \notin Recording /\ pc[t] \notin Building /\ pc[t] \notin SelfAppended
                            /\ pc[t] \notin Copying /\ pc[t] \notin {"found_none", "push", "build_edges"}
    BY <2>1 DEF Recording, Building, SelfAppended, Copying
  <2>3. DOMAIN maps = {} /\ Len(maps) = 0 /\ Len(graph_name) = 0
    BY <1>1, <1>5
  <2>4. Alive /\ SourcesOnce
    BY <1>6, <2>1 DEF Alive, SourcesOnce
  <2>5. Cardinality(Range(graph_name)) = Len(graph_name) /\ netnode_nhops \subseteq Range(graph_name)
    BY <1>1, <1>5, <2>3
  <2>6. (\A x \in Range(graph_name) \ netnode_nhops : FALSE) /\ \A i \in DOMAIN maps : FALSE
    BY <1>5, <2>3
  <2>7. QED
    BY <1>5, <2>2, <2>3, <2>4, <2>5, <2>6 DEF Alone
<1>11. QED
  BY <1>3, <1>4, <1>7, <1>8, <1>9, <1>10 DEF IInv

\* What the two halves of an access do, whichever access it is.
LEMMA BeginEffect ==
  ASSUME TypeOK, NoRaces, NEW t \in Listener, NEW a \in Phase, Begin(t, a)
  PROVE  /\ pc' = [pc EXCEPT ![t] = a] /\ pc' \in [Listener -> Phase]
         /\ raced' \in [Listener -> BOOLEAN]
         /\ races' \in 0 .. MaxRaces /\ alone' = alone
         /\ races' = 0 => races = 0 /\ ~raced[t] /\ raced' = [raced EXCEPT ![t] = FALSE]
<1> DEFINE over == {u \in Listener \ {t} : pc[u] \in Conflicts(a)}
           new == over # {} /\ ~raced[t]
<1>1. /\ new => races < MaxRaces
      /\ pc' = [pc EXCEPT ![t] = a]
      /\ raced' = [u \in Listener |-> IF u = t THEN over # {} ELSE raced[u] \/ u \in over]
      /\ races' = IF new THEN races + 1 ELSE races
      /\ alone' = alone
  BY DEF Begin
<1>2. new \in BOOLEAN
  OBVIOUS
<1>3. races' = 0 => races = 0 /\ ~new
  <2> HIDE DEF new
  <2>1. QED
    BY <1>1 DEF TypeOK
<1>4. races' \in 0 .. MaxRaces
  <2> HIDE DEF new
  <2>1. QED
    BY <1>1 DEF TypeOK
<1>5. races' = 0 => ~raced[t] /\ over = {}
  BY <1>3 DEF NoRaces
<1> HIDE DEF over
<1>6. over = {} => raced' = [raced EXCEPT ![t] = FALSE]
  BY <1>1 DEF TypeOK
<1>7. pc' \in [Listener -> Phase]
  BY <1>1 DEF TypeOK
<1>8. raced' \in [Listener -> BOOLEAN]
  BY <1>1 DEF TypeOK
<1>9. QED
  BY <1>1, <1>3, <1>4, <1>5, <1>6, <1>7, <1>8

LEMMA GotoEffect ==
  ASSUME TypeOK, NEW t \in Listener, NEW b \in Phase, Goto(t, b)
  PROVE  /\ pc' = [pc EXCEPT ![t] = b] /\ pc' \in [Listener -> Phase]
         /\ src' = IF b = "idle" THEN [src EXCEPT ![t] = Self] ELSE src
         /\ src' \in [Listener -> Name]
         /\ raced' = [raced EXCEPT ![t] = FALSE] /\ raced' \in [Listener -> BOOLEAN]
         /\ alone' \in BOOLEAN /\ races' = races
         /\ alone' => alone /\ (b \in Recording => \A u \in Listener \ {t} : pc[u] \notin Recording)
BY DEF Goto, TypeOK, Name

LEMMA PushBackType ==
  ASSUME TypeOK, NEW t \in Listener, NEW x \in Name, PushBack(t, x)
  PROVE  /\ graph_name' \in Seq(Name \cup {Garbage})
         /\ ~raced[t] => graph_name' = Append(graph_name, x)
<1>1. Append(graph_name, x) \in Seq(Name \cup {Garbage})
  BY DEF TypeOK
<1>2. Append(graph_name, Garbage) \in Seq(Name \cup {Garbage})
  BY DEF TypeOK
<1>3. QED
  BY <1>1, <1>2 DEF PushBack, TypeOK

\* Listener t goes on, and the histories that no race changes remain.
LEMMA BeginKeeps ==
  ASSUME TypeOK, NoRaces, OwnSource, NEW t \in Listener, NEW a \in Phase \ {"idle", "dead"},
         Begin(t, a), src' = src, pc[t] \notin {"idle", "dead"}
  PROVE  /\ pc' \in [Listener -> Phase] /\ src' \in [Listener -> Name]
         /\ raced' \in [Listener -> BOOLEAN] /\ races' \in 0 .. MaxRaces /\ alone' \in BOOLEAN
         /\ NoRaces' /\ OwnSource'
<1>1. /\ pc' = [pc EXCEPT ![t] = a] /\ pc' \in [Listener -> Phase]
      /\ raced' \in [Listener -> BOOLEAN]
      /\ races' \in 0 .. MaxRaces /\ alone' = alone
      /\ races' = 0 => races = 0 /\ ~raced[t] /\ raced' = [raced EXCEPT ![t] = FALSE]
  BY BeginEffect
<1>2. NoRaces'
  BY <1>1 DEF NoRaces, TypeOK
<1>3. OwnSource'
  BY <1>1 DEF OwnSource, TypeOK
<1>4. QED
  BY <1>1, <1>2, <1>3 DEF TypeOK

LEMMA GotoKeeps ==
  ASSUME TypeOK, NoRaces, OwnSource, NEW t \in Listener, NEW b \in Phase \ {"dead"},
         Goto(t, b), pc[t] \notin {"idle", "dead"}
  PROVE  /\ pc' \in [Listener -> Phase] /\ src' \in [Listener -> Name]
         /\ raced' \in [Listener -> BOOLEAN] /\ races' \in 0 .. MaxRaces /\ alone' \in BOOLEAN
         /\ NoRaces' /\ OwnSource'
<1>1. /\ pc' = [pc EXCEPT ![t] = b] /\ pc' \in [Listener -> Phase]
      /\ src' = IF b = "idle" THEN [src EXCEPT ![t] = Self] ELSE src
      /\ src' \in [Listener -> Name]
      /\ raced' = [raced EXCEPT ![t] = FALSE] /\ raced' \in [Listener -> BOOLEAN]
      /\ alone' \in BOOLEAN /\ races' = races
  BY GotoEffect
<1>2. NoRaces'
  BY <1>1 DEF NoRaces, TypeOK
<1>3. OwnSource'
  <2>1. \A u \in Listener \ {t} : pc'[u] = pc[u] /\ src'[u] = src[u]
    BY <1>1 DEF TypeOK
  <2>2. pc'[t] = b /\ (b # "idle" => src'[t] = src[t])
    BY <1>1 DEF TypeOK
  <2>3. QED
    BY <2>1, <2>2 DEF OwnSource
<1>4. QED
  BY <1>1, <1>2, <1>3 DEF TypeOK

\* One lemma for all that is true of any network.
LEMMA TypeStep ==
  ASSUME TypeOK, NoRaces, OwnSource, NEW t \in Listener, ListenerStep(t)
  PROVE  TypeOK' /\ NoRaces' /\ OwnSource'
<1> "idle" \in Phase /\ "find" \in Phase /\ "found_none" \in Phase /\ "push" \in Phase
    /\ "print" \in Phase /\ "insert" \in Phase /\ "inserted" \in Phase
    /\ "build_push" \in Phase /\ "build_pushed" \in Phase /\ "build_insert" \in Phase
    /\ "build_inserted" \in Phase /\ "build_copy" \in Phase /\ "build_edges" \in Phase
    /\ "dead" \in Phase
  BY PhaseElements
<1>1. ASSUME NEW x \in Comes[t], BeginFind(t, x) PROVE TypeOK' /\ NoRaces' /\ OwnSource'
  <2>1. Begin(t, "find") /\ src' = [src EXCEPT ![t] = x] /\ x \in Name
        /\ UNCHANGED <<graph_name, netnode_nhops, num_of_total_nodes, final_graph_name, maps>>
    BY <1>1 DEF BeginFind, containers, Name
  <2>2. /\ pc' = [pc EXCEPT ![t] = "find"] /\ pc' \in [Listener -> Phase]
        /\ raced' \in [Listener -> BOOLEAN]
        /\ races' \in 0 .. MaxRaces /\ alone' = alone
        /\ races' = 0 => races = 0 /\ ~raced[t] /\ raced' = [raced EXCEPT ![t] = FALSE]
    BY <2>1, BeginEffect
  <2>3. TypeOK'
    BY <2>1, <2>2 DEF TypeOK
  <2>4. NoRaces'
    BY <2>2 DEF NoRaces, TypeOK
  <2>5. OwnSource'
    BY <2>1, <2>2 DEF OwnSource, TypeOK
  <2>6. QED
    BY <2>3, <2>4, <2>5
<1>2. CASE EndFind(t)
  <2>1. PICK b \in {"idle", "found_none"} : Goto(t, b)
    BY <1>2 DEF EndFind
  <2>2. b \in Phase \ {"dead"} /\ pc[t] = "find"
    BY <1>2, <2>1 DEF EndFind
  <2>3. QED
    BY <1>2, <2>1, <2>2, GotoKeeps DEF EndFind, containers, TypeOK
<1>3. CASE BeginPush(t)
  BY <1>3, BeginKeeps DEF BeginPush, containers, TypeOK
<1>4. CASE EndPush(t)
  <2>1. src[t] \in Name
    BY DEF TypeOK
  <2>2. graph_name' \in Seq(Name \cup {Garbage})
    BY <1>4, <2>1, PushBackType DEF EndPush
  <2>3. QED
    BY <1>4, <2>2, BeginKeeps DEF EndPush, TypeOK
<1>5. CASE BeginInsert(t)
  BY <1>5, BeginKeeps DEF BeginInsert, containers, TypeOK
<1>6. CASE EndInsert(t)
  <2>1. netnode_nhops' \subseteq Name
    BY <1>6 DEF EndInsert, TypeOK
  <2>2. QED
    BY <1>6, <2>1, GotoKeeps DEF EndInsert, TypeOK
<1>7. CASE Compare(t)
  <2>1. CASE Begin(t, "build_push") /\ UNCHANGED src
    BY <1>7, <2>1, BeginKeeps DEF Compare, containers, TypeOK
  <2>2. CASE Goto(t, "idle")
    BY <1>7, <2>2, GotoKeeps DEF Compare, containers, TypeOK
  <2>3. QED
    BY <1>7, <2>1, <2>2 DEF Compare
<1>8. CASE EndBuildPush(t)
  <2>1. graph_name' \in Seq(Name \cup {Garbage})
    BY <1>8, PushBackType DEF EndBuildPush, Name
  <2>2. QED
    BY <1>8, <2>1, GotoKeeps DEF EndBuildPush, TypeOK
<1>9. CASE BeginBuildInsert(t)
  BY <1>9, BeginKeeps DEF BeginBuildInsert, containers, TypeOK
<1>10. CASE EndBuildInsert(t)
  <2>1. netnode_nhops' \subseteq Name
    BY <1>10 DEF EndBuildInsert, Name, TypeOK
  <2>2. QED
    BY <1>10, <2>1, GotoKeeps DEF EndBuildInsert, TypeOK
<1>11. CASE BeginCopy(t)
  <2>1. /\ num_of_total_nodes' \in Nat /\ pc[t] = "build_inserted"
        /\ Begin(t, "build_copy") /\ src' = src
        /\ UNCHANGED <<graph_name, netnode_nhops, final_graph_name, maps>>
    BY <1>11 DEF BeginCopy, TypeOK
  <2>2. QED
    BY <2>1, BeginKeeps DEF TypeOK
<1>12. CASE EndCopy(t)
  <2>1. final_graph_name' \in Seq(Name \cup {Garbage})
    <3>1. PICK bad \in SUBSET (1 .. num_of_total_nodes) :
            final_graph_name' =
              [i \in 1 .. num_of_total_nodes |-> IF i \in bad THEN Garbage ELSE graph_name[i]]
      BY <1>12 DEF EndCopy
    <3>2. \A i \in 1 .. num_of_total_nodes : graph_name[i] \in Name \cup {Garbage}
      BY <1>12 DEF EndCopy, TypeOK
    <3>3. QED
      BY <3>1, <3>2 DEF TypeOK
  <2>2. QED
    BY <1>12, <2>1, BeginKeeps DEF EndCopy, TypeOK
<1>13. CASE EndBuild(t)
  <2>1. maps' \in Seq([names : Seq(Name \cup {Garbage}), nhops : SUBSET Name])
    BY <1>13 DEF EndBuild, TypeOK
  <2>2. QED
    BY <1>13, <2>1, GotoKeeps DEF EndBuild, containers, TypeOK
<1>14. CASE Dies(t)
  BY <1>14 DEF Dies, containers, Name, TypeOK, NoRaces, OwnSource
<1>15. QED
  BY <1>1, <1>2, <1>3, <1>4, <1>5, <1>6, <1>7, <1>8, <1>9, <1>10, <1>11, <1>12, <1>13, <1>14
     DEF ListenerStep
-----------------------------------------------------------------------------
(* Accesses that do not overlap.                                           *)

LEMMA NoRaceStep ==
  ASSUME TypeOK, NoRaces, NEW t \in Listener, ListenerStep(t), races' = 0
  PROVE  races = 0 /\ ~raced[t]
<1>1. ASSUME NEW a \in Phase, Begin(t, a) PROVE races = 0 /\ ~raced[t]
  BY <1>1, BeginEffect
<1>2. ASSUME NEW b, Goto(t, b) PROVE races = 0 /\ ~raced[t]
  BY <1>2 DEF Goto, NoRaces
<1>3. CASE Dies(t)
  BY <1>3 DEF Dies, NoRaces
<1>4. (\E a \in Phase : Begin(t, a)) \/ (\E b \in Phase \cup {"idle"} : Goto(t, b)) \/ Dies(t)
  BY PhaseElements
     DEF ListenerStep, BeginFind, EndFind, BeginPush, EndPush, BeginInsert, EndInsert, Compare,
         EndBuildPush, BeginBuildInsert, EndBuildInsert, BeginCopy, EndCopy, EndBuild
<1>5. QED
  BY <1>1, <1>2, <1>3, <1>4

\* What the steps do when no accesses overlap.
Moves(t, a, b) == pc[t] = a /\ pc' = [pc EXCEPT ![t] = b]

LEMMA CalmMoves ==
  ASSUME TypeOK, NoRaces, OwnSource, NEW t \in Listener, ListenerStep(t), races' = 0
  PROVE  /\ \A x \in Comes[t] : BeginFind(t, x) =>
              /\ Moves(t, "idle", "find") /\ src' = [src EXCEPT ![t] = x]
              /\ UNCHANGED <<containers, maps, alone>>
         /\ EndFind(t) =>
              /\ \/ /\ src[t] \notin Range(graph_name)
                    /\ Moves(t, "find", "found_none") /\ src' = src
                    /\ alone' => \A u \in Listener \ {t} : pc[u] \notin Recording
                 \/ /\ src[t] \in Range(graph_name)
                    /\ Moves(t, "find", "idle") /\ src' = [src EXCEPT ![t] = Self]
              /\ UNCHANGED <<containers, maps>> /\ (alone' => alone)
         /\ BeginPush(t) =>
              /\ Moves(t, "found_none", "push") /\ UNCHANGED <<src, containers, maps, alone>>
         /\ EndPush(t) =>
              /\ Moves(t, "push", "print") /\ graph_name' = Append(graph_name, src[t])
              /\ UNCHANGED <<src, netnode_nhops, num_of_total_nodes, final_graph_name, maps, alone>>
         /\ BeginInsert(t) =>
              /\ Moves(t, "print", "insert") /\ UNCHANGED <<src, containers, maps, alone>>
         /\ EndInsert(t) =>
              /\ Moves(t, "insert", "inserted") /\ netnode_nhops' = netnode_nhops \cup {src[t]}
              /\ UNCHANGED <<src, graph_name, num_of_total_nodes, final_graph_name, maps>>
              /\ alone' => alone
         /\ Compare(t) =>
              /\ \/ /\ Len(graph_name) = num_of_total_nodes
                    /\ Moves(t, "inserted", "build_push") /\ src' = src
                 \/ /\ Len(graph_name) # num_of_total_nodes
                    /\ Moves(t, "inserted", "idle") /\ src' = [src EXCEPT ![t] = Self]
              /\ UNCHANGED <<containers, maps>> /\ (alone' => alone)
         /\ EndBuildPush(t) =>
              /\ Moves(t, "build_push", "build_pushed") /\ graph_name' = Append(graph_name, Self)
              /\ UNCHANGED <<src, netnode_nhops, num_of_total_nodes, final_graph_name, maps>>
              /\ alone' => alone
         /\ BeginBuildInsert(t) =>
              /\ Moves(t, "build_pushed", "build_insert") /\ UNCHANGED <<src, containers, maps, alone>>
         /\ EndBuildInsert(t) =>
              /\ Moves(t, "build_insert", "build_inserted") /\ netnode_nhops' = netnode_nhops \cup {Self}
              /\ UNCHANGED <<src, graph_name, num_of_total_nodes, final_graph_name, maps>>
              /\ alone' => alone
         /\ BeginCopy(t) =>
              /\ Moves(t, "build_inserted", "build_copy")
              /\ num_of_total_nodes' = num_of_total_nodes + 1
              /\ UNCHANGED <<src, graph_name, netnode_nhops, final_graph_name, maps, alone>>
         /\ EndCopy(t) =>
              /\ Moves(t, "build_copy", "build_edges")
              /\ final_graph_name' = [i \in 1 .. num_of_total_nodes |-> graph_name[i]]
              /\ UNCHANGED <<src, graph_name, netnode_nhops, num_of_total_nodes, maps, alone>>
         /\ EndBuild(t) =>
              /\ Moves(t, "build_edges", "idle") /\ src' = [src EXCEPT ![t] = Self]
              /\ maps' = Append(maps, [names |-> final_graph_name, nhops |-> netnode_nhops])
              /\ UNCHANGED containers /\ (alone' => alone)
         /\ Dies(t) =>
              /\ pc[t] = "build_copy" /\ num_of_total_nodes > Len(graph_name)
              /\ pc' = [u \in Listener |-> "dead"] /\ src' = [u \in Listener |-> Self]
              /\ UNCHANGED <<containers, maps, alone>>
<1> USE NoRaceStep DEF Moves
<1> "idle" \in Phase /\ "find" \in Phase /\ "found_none" \in Phase /\ "push" \in Phase
    /\ "print" \in Phase /\ "insert" \in Phase /\ "inserted" \in Phase
    /\ "build_push" \in Phase /\ "build_pushed" \in Phase /\ "build_insert" \in Phase
    /\ "build_inserted" \in Phase /\ "build_copy" \in Phase /\ "build_edges" \in Phase
  BY PhaseElements
<1>0. src[t] \in Name /\ Self \in Name /\ "found_none" \in Recording
  BY DEF TypeOK, Name, Recording
<1>1. ASSUME NEW a \in Phase, Begin(t, a) PROVE pc' = [pc EXCEPT ![t] = a] /\ alone' = alone
  BY <1>1, BeginEffect
<1>2. ASSUME NEW b \in Phase, Goto(t, b)
      PROVE  /\ pc' = [pc EXCEPT ![t] = b]
             /\ src' = IF b = "idle" THEN [src EXCEPT ![t] = Self] ELSE src
             /\ alone' => alone /\ (b \in Recording => \A u \in Listener \ {t} : pc[u] \notin Recording)
  BY <1>2, GotoEffect
<1>3. ASSUME NEW x \in Comes[t], BeginFind(t, x)
      PROVE  /\ Moves(t, "idle", "find") /\ src' = [src EXCEPT ![t] = x]
             /\ UNCHANGED <<containers, maps, alone>>
  BY <1>1, <1>3 DEF BeginFind
<1>4. ASSUME EndFind(t)
      PROVE  /\ \/ /\ src[t] \notin Range(graph_name)
                   /\ Moves(t, "find", "found_none") /\ src' = src
                   /\ alone' => \A u \in Listener \ {t} : pc[u] \notin Recording
                \/ /\ src[t] \in Range(graph_name)
                   /\ Moves(t, "find", "idle") /\ src' = [src EXCEPT ![t] = Self]
             /\ UNCHANGED <<containers, maps>> /\ (alone' => alone)
  <2>1. pc[t] = "find" /\ UNCHANGED <<containers, maps>>
    BY <1>4 DEF EndFind
  <2>2. CASE src[t] \in Range(graph_name)
    <3>1. Goto(t, "idle")
      BY <1>4, <2>2 DEF EndFind
    <3>2. QED
      BY <1>2, <2>1, <2>2, <3>1
  <2>3. CASE src[t] \notin Range(graph_name)
    <3>1. Goto(t, "found_none")
      BY <1>4, <2>3 DEF EndFind
    <3>2. QED
      BY <1>0, <1>2, <2>1, <2>3, <3>1
  <2>4. QED
    BY <2>2, <2>3
<1>5. ASSUME BeginPush(t)
      PROVE  /\ Moves(t, "found_none", "push") /\ UNCHANGED <<src, containers, maps, alone>>
  BY <1>1, <1>5 DEF BeginPush
<1>6. ASSUME EndPush(t)
      PROVE  /\ Moves(t, "push", "print") /\ graph_name' = Append(graph_name, src[t])
             /\ UNCHANGED <<src, netnode_nhops, num_of_total_nodes, final_graph_name, maps, alone>>
  BY <1>0, <1>1, <1>6, PushBackType DEF EndPush
<1>7. ASSUME BeginInsert(t)
      PROVE  /\ Moves(t, "print", "insert") /\ UNCHANGED <<src, containers, maps, alone>>
  BY <1>1, <1>7 DEF BeginInsert
<1>8. ASSUME EndInsert(t)
      PROVE  /\ Moves(t, "insert", "inserted") /\ netnode_nhops' = netnode_nhops \cup {src[t]}
             /\ UNCHANGED <<src, graph_name, num_of_total_nodes, final_graph_name, maps>>
             /\ alone' => alone
  BY <1>2, <1>8 DEF EndInsert
<1>9. ASSUME Compare(t)
      PROVE  /\ \/ /\ Len(graph_name) = num_of_total_nodes
                   /\ Moves(t, "inserted", "build_push") /\ src' = src
                \/ /\ Len(graph_name) # num_of_total_nodes
                   /\ Moves(t, "inserted", "idle") /\ src' = [src EXCEPT ![t] = Self]
             /\ UNCHANGED <<containers, maps>> /\ (alone' => alone)
  BY <1>1, <1>2, <1>9 DEF Compare
<1>10. ASSUME EndBuildPush(t)
      PROVE  /\ Moves(t, "build_push", "build_pushed") /\ graph_name' = Append(graph_name, Self)
             /\ UNCHANGED <<src, netnode_nhops, num_of_total_nodes, final_graph_name, maps>>
             /\ alone' => alone
  BY <1>0, <1>2, <1>10, PushBackType DEF EndBuildPush
<1>11. ASSUME BeginBuildInsert(t)
      PROVE  /\ Moves(t, "build_pushed", "build_insert") /\ UNCHANGED <<src, containers, maps, alone>>
  BY <1>1, <1>11 DEF BeginBuildInsert
<1>12. ASSUME EndBuildInsert(t)
      PROVE  /\ Moves(t, "build_insert", "build_inserted") /\ netnode_nhops' = netnode_nhops \cup {Self}
             /\ UNCHANGED <<src, graph_name, num_of_total_nodes, final_graph_name, maps>>
             /\ alone' => alone
  BY <1>2, <1>12 DEF EndBuildInsert
<1>13. ASSUME BeginCopy(t)
      PROVE  /\ Moves(t, "build_inserted", "build_copy")
             /\ num_of_total_nodes' = num_of_total_nodes + 1
             /\ UNCHANGED <<src, graph_name, netnode_nhops, final_graph_name, maps, alone>>
  BY <1>1, <1>13 DEF BeginCopy
<1>14. ASSUME EndCopy(t)
      PROVE  /\ Moves(t, "build_copy", "build_edges")
             /\ final_graph_name' = [i \in 1 .. num_of_total_nodes |-> graph_name[i]]
             /\ UNCHANGED <<src, graph_name, netnode_nhops, num_of_total_nodes, maps, alone>>
  <2>1. final_graph_name' = [i \in 1 .. num_of_total_nodes |-> graph_name[i]]
    <3>1. PICK bad \in SUBSET (1 .. num_of_total_nodes) :
            /\ bad # {} => raced[t]
            /\ final_graph_name' =
                 [i \in 1 .. num_of_total_nodes |-> IF i \in bad THEN Garbage ELSE graph_name[i]]
      BY <1>14 DEF EndCopy
    <3>2. bad = {}
      BY <3>1
    <3>3. QED
      BY <3>1, <3>2
  <2>2. QED
    BY <1>1, <1>14, <2>1 DEF EndCopy
<1>15. ASSUME EndBuild(t)
      PROVE  /\ Moves(t, "build_edges", "idle") /\ src' = [src EXCEPT ![t] = Self]
             /\ maps' = Append(maps, [names |-> final_graph_name, nhops |-> netnode_nhops])
             /\ UNCHANGED containers /\ (alone' => alone)
  <2>1. maps' = Append(maps, [names |-> final_graph_name, nhops |-> netnode_nhops])
    BY <1>15 DEF EndBuild
  <2>2. QED
    BY <1>2, <1>15, <2>1 DEF EndBuild
<1>16. ASSUME Dies(t)
      PROVE  /\ pc[t] = "build_copy" /\ num_of_total_nodes > Len(graph_name)
             /\ pc' = [u \in Listener |-> "dead"] /\ src' = [u \in Listener |-> Self]
             /\ UNCHANGED <<containers, maps, alone>>
  BY <1>16 DEF Dies
<1>17. QED
  BY <1>3, <1>4, <1>5, <1>6, <1>7, <1>8, <1>9, <1>10, <1>11, <1>12, <1>13, <1>14, <1>15, <1>16

LEMMA MovesEffect ==
  ASSUME TypeOK, NEW t \in Listener, NEW a, NEW b, Moves(t, a, b)
  PROVE  pc[t] = a /\ pc'[t] = b /\ \A u \in Listener \ {t} : pc'[u] = pc[u]
BY DEF Moves, TypeOK

-----------------------------------------------------------------------------
(* No listener records a source twice.                                     *)

LEMMA FewStep ==
  ASSUME TypeOK, NoRaces, OwnSource, Few, NEW t \in Listener, ListenerStep(t)
  PROVE  Few'
<1> SUFFICES ASSUME races' = 0, NEW x \in Source
             PROVE  Cardinality(Places(x)') + Cardinality(About(x)') <= Cardinality(ListenersOf(x))
  BY DEF Few, ListenersOf
<1> USE CalmMoves, MovesEffect
<1>1. races = 0
  BY NoRaceStep
<1>2. Cardinality(Places(x)) + Cardinality(About(x)) <= Cardinality(ListenersOf(x))
  BY <1>1 DEF Few
<1>3. /\ IsFiniteSet(About(x)) /\ Cardinality(About(x)) \in Nat
      /\ IsFiniteSet(ListenersOf(x)) /\ Cardinality(ListenersOf(x)) \in Nat
  BY ListenerSets DEF About, ListenersOf
<1>4. IsFiniteSet(Places(x)) /\ Cardinality(Places(x)) \in Nat
  <2>1. IsFiniteSet(1 .. Len(graph_name)) /\ Places(x) \subseteq 1 .. Len(graph_name)
    BY FS_Interval DEF Places, TypeOK
  <2>2. QED
    BY <2>1, FS_Subset, FS_CardinalityType
<1>5. About(x)' \subseteq Listener /\ Cardinality(About(x)') \in Nat
  BY ListenerSets DEF About
\* A step that leaves the names alone and lets nobody find none.
<1>6. ASSUME graph_name' = graph_name, About(x)' \subseteq About(x)
      PROVE  Cardinality(Places(x)') + Cardinality(About(x)') <= Cardinality(ListenersOf(x))
  <2>1. Places(x)' = Places(x)
    BY <1>6 DEF Places
  <2>2. Cardinality(About(x)') <= Cardinality(About(x))
    BY <1>3, <1>6, FS_Subset
  <2>3. QED
    BY <1>2, <1>3, <1>4, <1>5, <2>1, <2>2
<1>7. ASSUME pc'[t] \notin {"found_none", "push"} \/ (pc[t] = "found_none" /\ src'[t] = src[t]),
             \A u \in Listener \ {t} : pc'[u] = pc[u] /\ src'[u] = src[u]
      PROVE  About(x)' \subseteq About(x)
  BY <1>7 DEF About
<1>8. src \in [Listener -> Name] /\ pc \in [Listener -> Phase]
  BY DEF TypeOK
<1>9. ASSUME NEW y \in Comes[t], BeginFind(t, y) PROVE About(x)' \subseteq About(x) /\ graph_name' = graph_name
  BY <1>7, <1>8, <1>9 DEF containers
<1>10. CASE EndFind(t)
  <2>1. graph_name' = graph_name
    BY <1>10 DEF containers
  <2>2. CASE src[t] = x /\ Moves(t, "find", "found_none") /\ src' = src
    <3>1. x \notin Range(graph_name)
      BY <1>10, <2>2, <1>8
    <3>2. Places(x) = {} /\ Places(x)' = {}
      BY <2>1, <3>1 DEF Places, Range
    <3>3. About(x)' \subseteq ListenersOf(x)
      BY <2>2, <1>8 DEF About, ListenersOf, OwnSource
    <3>4. Cardinality(About(x)') <= Cardinality(ListenersOf(x))
      BY <1>3, <3>3, FS_Subset
    <3>5. QED
      BY <1>3, <1>5, <3>2, <3>4, FS_EmptySet
  <2>3. CASE src[t] # x /\ Moves(t, "find", "found_none") /\ src' = src
    <3>1. About(x)' \subseteq About(x)
      BY <2>3, <1>8 DEF About
    <3>2. QED
      BY <1>6, <2>1, <3>1
  <2>4. CASE Moves(t, "find", "idle") /\ src' = [src EXCEPT ![t] = Self]
    BY <1>6, <1>7, <1>8, <2>1, <2>4
  <2>5. QED
    BY <1>10, <2>2, <2>3, <2>4
<1>11. CASE BeginPush(t)
  <2>1. About(x)' \subseteq About(x) /\ graph_name' = graph_name
    BY <1>7, <1>8, <1>11 DEF containers
  <2>2. QED
    BY <1>6, <2>1
<1>12. CASE EndPush(t)
  <2>1. graph_name' = Append(graph_name, src[t]) /\ src[t] \in Name /\ src' = src
        /\ pc[t] = "push" /\ pc'[t] = "print" /\ \A u \in Listener \ {t} : pc'[u] = pc[u]
    BY <1>8, <1>12
  <2>2. CASE src[t] = x
    <3>1. Cardinality(Places(x)') <= Cardinality(Places(x)) + 1
      BY <2>1, <2>2, PlacesAppend
    <3>2. About(x)' = About(x) \ {t} /\ t \in About(x)
      BY <2>1, <2>2 DEF About
    <3>3. Cardinality(About(x)') = Cardinality(About(x)) - 1
      BY <1>3, <3>2, FS_RemoveElement
    <3>4. Cardinality(Places(x)') \in Nat
      <4>1. graph_name \in Seq(Name \cup {Garbage}) /\ src[t] \in Name \cup {Garbage}
        BY <2>1 DEF TypeOK
      <4>2. DOMAIN graph_name' = 1 .. Len(graph_name) + 1 /\ Len(graph_name) \in Nat
        BY <2>1, <4>1, RangeAppend
      <4>3. Places(x)' \subseteq 1 .. Len(graph_name) + 1
        BY <4>2 DEF Places
      <4>4. IsFiniteSet(1 .. Len(graph_name) + 1)
        BY <4>2, FS_Interval
      <4>5. QED
        BY <4>3, <4>4, FS_Subset, FS_CardinalityType
    <3>5. QED
      BY <1>2, <1>3, <1>4, <3>1, <3>3, <3>4
  <2>3. CASE src[t] # x
    <3>1. Places(x)' = Places(x)
      BY <2>1, <2>3, PlacesAppend
    <3>2. About(x)' = About(x)
      BY <2>1, <2>3 DEF About
    <3>3. QED
      BY <1>2, <3>1, <3>2
  <2>4. QED
    BY <2>2, <2>3
<1>13. CASE EndBuildPush(t)
  <2>1. /\ graph_name' = Append(graph_name, Self) /\ Self \in Name /\ src' = src
        /\ pc'[t] = "build_pushed" /\ pc[t] = "build_push" /\ \A u \in Listener \ {t} : pc'[u] = pc[u]
    BY <1>13 DEF Name
  <2>2. Places(x)' = Places(x)
    BY <2>1, PlacesAppend
  <2>3. About(x)' = About(x)
    BY <2>1 DEF About
  <2>4. QED
    BY <1>2, <2>2, <2>3
<1>14. ASSUME ~EndFind(t), ~BeginPush(t), ~EndPush(t), ~EndBuildPush(t),
              \A y \in Comes[t] : ~BeginFind(t, y)
       PROVE  About(x)' \subseteq About(x) /\ graph_name' = graph_name
  <2>1. CASE BeginInsert(t)
    BY <1>7, <2>1 DEF containers
  <2>2. CASE EndInsert(t)
    BY <1>7, <2>2
  <2>3. CASE Compare(t)
    BY <1>7, <1>8, <2>3 DEF containers
  <2>4. CASE BeginBuildInsert(t)
    BY <1>7, <2>4 DEF containers
  <2>5. CASE EndBuildInsert(t)
    BY <1>7, <2>5
  <2>6. CASE BeginCopy(t)
    BY <1>7, <2>6
  <2>7. CASE EndCopy(t)
    BY <1>7, <2>7
  <2>8. CASE EndBuild(t)
    BY <1>7, <1>8, <2>8 DEF containers
  <2>9. CASE Dies(t)
    BY <2>9 DEF About, containers
  <2>10. QED
    BY <1>14, <2>1, <2>2, <2>3, <2>4, <2>5, <2>6, <2>7, <2>8, <2>9 DEF ListenerStep
<1>15. QED
  BY <1>6, <1>9, <1>10, <1>11, <1>12, <1>13, <1>14

-----------------------------------------------------------------------------
(* What has been appended stays, and is counted.                           *)

LEMMA KeptStep ==
  ASSUME TypeOK, NoRaces, OwnSource, Kept, NEW t \in Listener, ListenerStep(t)
  PROVE  Kept'
<1> SUFFICES ASSUME Calm' PROVE Kept'
  BY DEF Kept
<1> USE CalmMoves, MovesEffect
<1>1. races' = 0 /\ Calm
  BY NoRaceStep DEF Calm, Outward
<1>2. /\ graph_name \in Seq(Name)
      /\ \A u \in Listener : pc[u] \in Appended => src[u] \in Range(graph_name)
  BY <1>1 DEF Kept
<1>3. src \in [Listener -> Name] /\ pc \in [Listener -> Phase]
  BY DEF TypeOK
\* The names only get more, and t has its source among them.
<1>4. ASSUME graph_name' \in Seq(Name), Range(graph_name) \subseteq Range(graph_name'),
             pc'[t] \in Appended => src'[t] \in Range(graph_name'),
             \A u \in Listener \ {t} : pc'[u] = pc[u] /\ src'[u] = src[u]
      PROVE  Kept'
  BY <1>2, <1>4 DEF Kept
<1>5. ASSUME NEW y \in Comes[t], BeginFind(t, y) PROVE Kept'
  BY <1>1, <1>2, <1>3, <1>4, <1>5 DEF containers, Appended
<1>6. CASE EndFind(t)
  BY <1>1, <1>2, <1>3, <1>4, <1>6 DEF containers, Appended
<1>7. CASE BeginPush(t)
  BY <1>1, <1>2, <1>3, <1>4, <1>7 DEF containers, Appended
<1>8. CASE EndPush(t)
  <2>1. graph_name' = Append(graph_name, src[t]) /\ src[t] \in Name
        /\ src' = src /\ \A u \in Listener \ {t} : pc'[u] = pc[u]
    BY <1>1, <1>3, <1>8
  <2>2. graph_name' \in Seq(Name) /\ Range(graph_name') = Range(graph_name) \cup {src[t]}
    BY <1>2, <2>1, RangeAppend
  <2>3. QED
    BY <1>4, <2>1, <2>2
<1>9. CASE BeginInsert(t)
  BY <1>1, <1>2, <1>3, <1>4, <1>9 DEF containers, Appended
<1>10. CASE EndInsert(t)
  BY <1>1, <1>2, <1>3, <1>4, <1>10 DEF Appended
<1>11. CASE Compare(t)
  BY <1>1, <1>2, <1>3, <1>4, <1>11 DEF containers, Appended
<1>12. CASE EndBuildPush(t)
  <2>1. graph_name' = Append(graph_name, Self) /\ Self \in Name
        /\ src' = src /\ pc'[t] = "build_pushed" /\ \A u \in Listener \ {t} : pc'[u] = pc[u]
    BY <1>1, <1>12 DEF Name
  <2>2. graph_name' \in Seq(Name) /\ Range(graph_name') = Range(graph_name) \cup {Self}
    BY <1>2, <2>1, RangeAppend
  <2>3. QED
    BY <1>4, <2>1, <2>2 DEF Appended
<1>13. CASE BeginBuildInsert(t)
  BY <1>1, <1>2, <1>3, <1>4, <1>13 DEF containers, Appended
<1>14. CASE EndBuildInsert(t)
  BY <1>1, <1>2, <1>3, <1>4, <1>14 DEF Appended
<1>15. CASE BeginCopy(t)
  BY <1>1, <1>2, <1>3, <1>4, <1>15 DEF Appended
<1>16. CASE EndCopy(t)
  BY <1>1, <1>2, <1>3, <1>4, <1>16 DEF Appended
<1>17. CASE EndBuild(t)
  BY <1>1, <1>2, <1>3, <1>4, <1>17 DEF containers, Appended
<1>18. CASE Dies(t)
  BY <1>1, <1>2, <1>18 DEF containers, Appended, Kept
<1>19. QED
  BY <1>5, <1>6, <1>7, <1>8, <1>9, <1>10, <1>11, <1>12, <1>13, <1>14, <1>15, <1>16, <1>17, <1>18
     DEF ListenerStep

\* The listeners that are alive after a step were so before it.
LEMMA AliveStep ==
  ASSUME TypeOK, NoRaces, OwnSource, NEW t \in Listener, ListenerStep(t), races' = 0, Alive'
  PROVE  Alive /\ ~Dies(t)
<1> USE CalmMoves
<1>1. pc \in [Listener -> Phase]
  BY DEF TypeOK
<1>2. ~Dies(t)
  BY DEF Alive
<1>3. ASSUME NEW a \in Phase \ {"dead"}, NEW b \in Phase, Moves(t, a, b) PROVE Alive
  BY <1>1, <1>3 DEF Alive, Moves
<1>4. \E a \in Phase \ {"dead"}, b \in Phase : Moves(t, a, b)
  <2>1. ASSUME NEW y \in Comes[t], BeginFind(t, y) PROVE Moves(t, "idle", "find")
    BY <2>1
  <2>2. CASE EndFind(t)
    BY <2>2, PhaseElements
  <2>3. CASE BeginPush(t)
    BY <2>3, PhaseElements
  <2>4. CASE EndPush(t)
    BY <2>4, PhaseElements
  <2>5. CASE BeginInsert(t)
    BY <2>5, PhaseElements
  <2>6. CASE EndInsert(t)
    BY <2>6, PhaseElements
  <2>7. CASE Compare(t)
    BY <2>7, PhaseElements
  <2>8. CASE EndBuildPush(t)
    BY <2>8, PhaseElements
  <2>9. CASE BeginBuildInsert(t)
    BY <2>9, PhaseElements
  <2>10. CASE EndBuildInsert(t)
    BY <2>10, PhaseElements
  <2>11. CASE BeginCopy(t)
    BY <2>11, PhaseElements
  <2>12. CASE EndCopy(t)
    BY <2>12, PhaseElements
  <2>13. CASE EndBuild(t)
    BY <2>13, PhaseElements
  <2>14. QED
    BY <1>2, <2>1, <2>2, <2>3, <2>4, <2>5, <2>6, <2>7, <2>8, <2>9, <2>10, <2>11, <2>12, <2>13,
       PhaseElements DEF ListenerStep
<1>5. QED
  BY <1>2, <1>3, <1>4

\* While no map is built, the listener that completes the sources finds their number.
LEMMA CountedStep ==
  ASSUME TypeOK, NoRaces, OwnSource, Kept, Counted, NEW t \in Listener, ListenerStep(t)
  PROVE  Counted'
<1> SUFFICES ASSUME Calm', SourcesOnce', Alive' PROVE Counted'
  BY DEF Counted
<1> USE CalmMoves, MovesEffect
<1>1. races' = 0 /\ Calm
  BY NoRaceStep DEF Calm, Outward
<1>2. Alive /\ ~Dies(t)
  BY <1>1, AliveStep
<1>3. SourcesOnce =>
        /\ Self \notin Range(graph_name) => Cardinality(Range(graph_name)) = Len(graph_name)
        /\ maps = <<>> =>
             /\ num_of_total_nodes = Cardinality(Source) \/ \E u \in Listener : pc[u] \in Copying
             /\ Self \in Range(graph_name) => \E u \in Listener : pc[u] \in SelfAppended
             /\ Source \subseteq Range(graph_name) =>
                  \E u \in Listener : pc[u] \in Appended \cup Building
  BY <1>1, <1>2 DEF Counted
<1>4. graph_name \in Seq(Name) /\ src \in [Listener -> Name] /\ pc \in [Listener -> Phase]
  BY <1>1 DEF Kept, TypeOK
<1> USE DEF Appended, Building, SelfAppended, Copying
\* A step that only moves t within its part.
<1>5. ASSUME UNCHANGED <<graph_name, num_of_total_nodes, maps>>,
             \A u \in Listener \ {t} : pc'[u] = pc[u],
             pc[t] \in Copying => pc'[t] \in Copying,
             pc[t] \in SelfAppended => pc'[t] \in SelfAppended,
             pc[t] \in Appended \cup Building => pc'[t] \in Appended \cup Building
      PROVE  Counted'
  <2>1. SourcesOnce
    BY <1>5 DEF SourcesOnce, Places
  <2>2. /\ \A u \in Listener : pc[u] \in Copying => pc'[u] \in Copying
        /\ \A u \in Listener : pc[u] \in SelfAppended => pc'[u] \in SelfAppended
        /\ \A u \in Listener : pc[u] \in Appended \cup Building => pc'[u] \in Appended \cup Building
    BY <1>5
  <2> HIDE DEF Appended, Building, SelfAppended, Copying
  <2>3. QED
    BY <1>3, <1>5, <2>1, <2>2 DEF Counted
<1>6. ASSUME NEW y \in Comes[t], BeginFind(t, y) PROVE Counted'
  BY <1>1, <1>5, <1>6 DEF containers
<1>7. CASE EndFind(t)
  BY <1>1, <1>5, <1>7 DEF containers
<1>8. CASE BeginPush(t)
  BY <1>1, <1>5, <1>8 DEF containers
<1>9. CASE EndPush(t)
  <2>1. /\ graph_name' = Append(graph_name, src[t]) /\ src[t] \in Name
        /\ UNCHANGED <<num_of_total_nodes, maps>>
        /\ pc[t] = "push" /\ pc'[t] = "print" /\ \A u \in Listener \ {t} : pc'[u] = pc[u]
    BY <1>1, <1>4, <1>9
  <2>2. src[t] # Self
    BY <1>1, <2>1 DEF OwnSource, Calm, Outward
  <2>3. SourcesOnce /\ src[t] \notin Range(graph_name)
    BY <2>1, <2>2, PlacesAppend DEF Name
  <2>4. Range(graph_name') = Range(graph_name) \cup {src[t]}
    BY <1>4, <2>1, RangeAppend
  <2>5. Self \notin Range(graph_name') => Cardinality(Range(graph_name')) = Len(graph_name')
    <3>1. Self \notin Range(graph_name') => Cardinality(Range(graph_name)) = Len(graph_name)
      BY <1>3, <2>3, <2>4
    <3>2. Cardinality(Range(graph_name)) = Len(graph_name) =>
            Cardinality(Range(Append(graph_name, src[t]))) = Len(Append(graph_name, src[t]))
      BY <1>4, <2>1, <2>3, NewName
    <3>3. QED
      BY <2>1, <3>1, <3>2
  <2>6. ASSUME NEW u \in Listener
        PROVE  /\ pc[u] \in SelfAppended => pc'[u] \in SelfAppended
               /\ pc[u] \in Copying => pc'[u] \in Copying
    BY <2>1
  <2>7. pc'[t] \in Appended
    BY <2>1
  <2> HIDE DEF Appended, Building, SelfAppended, Copying
  <2>8. QED
    BY <1>3, <2>1, <2>2, <2>3, <2>4, <2>5, <2>6, <2>7 DEF Counted
<1>10. CASE BeginInsert(t)
  BY <1>1, <1>5, <1>10 DEF containers
<1>11. CASE EndInsert(t)
  BY <1>1, <1>5, <1>11
<1>12. CASE Compare(t)
  <2>1. CASE Moves(t, "inserted", "build_push")
    BY <1>1, <1>5, <1>12, <2>1 DEF containers
  <2>2. CASE Moves(t, "inserted", "idle") /\ Len(graph_name) # num_of_total_nodes
    <3>1. /\ UNCHANGED <<graph_name, num_of_total_nodes, maps>>
          /\ pc[t] = "inserted" /\ \A u \in Listener \ {t} : pc'[u] = pc[u]
      BY <1>1, <1>12, <2>2 DEF containers
    <3>2. SourcesOnce
      BY <3>1 DEF SourcesOnce, Places
    <3>3. ASSUME NEW u \in Listener
          PROVE  /\ pc[u] \in SelfAppended => pc'[u] \in SelfAppended
                 /\ pc[u] \in Copying => pc'[u] \in Copying
      BY <3>1
    <3>4. SelfAppended \subseteq Building /\ Copying \subseteq SelfAppended
      OBVIOUS
    <3> HIDE DEF Appended, Building, SelfAppended, Copying
    <3>5. ASSUME maps = <<>>, Source \subseteq Range(graph_name)
          PROVE  \E u \in Listener : pc'[u] \in SelfAppended
      <4>1. CASE Self \in Range(graph_name)
        BY <1>3, <3>2, <3>3, <3>5, <4>1
      <4>2. CASE Self \notin Range(graph_name)
        <5>1. Range(graph_name) \subseteq Source
          BY <1>4, <4>2 DEF Range, Name
        <5>2. Range(graph_name) = Source
          BY <3>5, <5>1
        <5>3. num_of_total_nodes # Cardinality(Source)
          BY <1>3, <2>2, <3>2, <4>2, <5>2
        <5>4. QED
          BY <1>3, <3>2, <3>3, <3>4, <3>5, <5>3
      <4>3. QED
        BY <4>1, <4>2
    <3>6. QED
      BY <1>3, <3>1, <3>2, <3>3, <3>4, <3>5 DEF Counted
  <2>3. QED
    BY <1>1, <1>12, <2>1, <2>2
<1>13. CASE EndBuildPush(t)
  <2>1. /\ graph_name' = Append(graph_name, Self) /\ Self \in Name
        /\ UNCHANGED <<num_of_total_nodes, maps>>
        /\ pc[t] = "build_push" /\ pc'[t] = "build_pushed" /\ \A u \in Listener \ {t} : pc'[u] = pc[u]
    BY <1>1, <1>13 DEF Name
  <2>2. SourcesOnce
    BY <2>1, PlacesAppend
  <2>3. Range(graph_name') = Range(graph_name) \cup {Self}
    BY <1>4, <2>1, RangeAppend
  <2>4. pc'[t] \in SelfAppended
    BY <2>1
  <2>5. \A u \in Listener : pc[u] \in Copying => pc'[u] \in Copying
    BY <2>1
  <2>6. SelfAppended \subseteq Building
    OBVIOUS
  <2> HIDE DEF Appended, Building, SelfAppended, Copying
  <2>7. QED
    BY <1>3, <2>1, <2>2, <2>3, <2>4, <2>5, <2>6 DEF Counted
<1>14. CASE BeginBuildInsert(t)
  BY <1>1, <1>5, <1>14 DEF containers
<1>15. CASE EndBuildInsert(t)
  BY <1>1, <1>5, <1>15
<1>16. CASE BeginCopy(t)
  <2>1. /\ UNCHANGED <<graph_name, maps>>
        /\ pc[t] = "build_inserted" /\ pc'[t] = "build_copy" /\ \A u \in Listener \ {t} : pc'[u] = pc[u]
    BY <1>1, <1>16
  <2>2. SourcesOnce
    BY <2>1 DEF SourcesOnce, Places
  <2>3. pc'[t] \in Copying /\ Copying \subseteq SelfAppended /\ SelfAppended \subseteq Building
    BY <2>1
  <2> HIDE DEF Appended, Building, SelfAppended, Copying
  <2>4. QED
    BY <1>3, <2>1, <2>2, <2>3 DEF Counted
<1>17. CASE EndCopy(t)
  BY <1>1, <1>5, <1>17
<1>18. CASE EndBuild(t)
  <2>1. graph_name' = graph_name /\ maps' = Append(maps, [names |-> final_graph_name, nhops |-> netnode_nhops])
    BY <1>1, <1>18 DEF containers
  <2>2. maps' # <<>>
    <3>1. [names |-> final_graph_name, nhops |-> netnode_nhops]
            \in [names : Seq(Name \cup {Garbage}), nhops : SUBSET Name]
      BY DEF TypeOK
    <3>2. Len(maps') = Len(maps) + 1 /\ Len(maps) \in Nat
      BY <2>1, <3>1 DEF TypeOK
    <3>3. QED
      BY <3>2
  <2>3. SourcesOnce
    BY <2>1 DEF SourcesOnce, Places
  <2>4. QED
    BY <1>3, <2>1, <2>2, <2>3 DEF Counted
<1>19. QED
  BY <1>2, <1>6, <1>7, <1>8, <1>9, <1>10, <1>11, <1>12, <1>13, <1>14, <1>15, <1>16, <1>17, <1>18
     DEF ListenerStep

\* The only listener that records finds the containers as the others left them.
LEMMA AloneStep ==
  ASSUME TypeOK, NoRaces, OwnSource, Kept, Counted, Alone, NEW t \in Listener, ListenerStep(t)
  PROVE  Alone'
<1> SUFFICES ASSUME Calm', alone' PROVE Alone'
  BY DEF Alone
<1> USE CalmMoves, MovesEffect
<1>1. races' = 0 /\ Calm
  BY NoRaceStep DEF Calm, Outward
<1>2. ASSUME NEW a \in Phase, Begin(t, a) PROVE alone
  BY <1>2 DEF Begin
<1>3. alone
  <2>1. (\E a \in Phase : Begin(t, a)) \/ (\E b \in Phase : Goto(t, b)) \/ Dies(t)
    BY PhaseElements
       DEF ListenerStep, BeginFind, EndFind, BeginPush, EndPush, BeginInsert, EndInsert, Compare,
           EndBuildPush, BeginBuildInsert, EndBuildInsert, BeginCopy, EndCopy, EndBuild
  <2>2. QED
    BY <2>1, <1>2 DEF Goto, Dies
<1>4. /\ pc \in [Listener -> Phase] /\ src \in [Listener -> Name] /\ graph_name \in Seq(Name)
      /\ Len(graph_name) \in Nat
  BY <1>1 DEF TypeOK, Kept
<1>5. Alive /\ SourcesOnce /\ ~Dies(t)
  <2>1. Alive /\ SourcesOnce /\ \A u \in Listener : pc[u] \in Copying => num_of_total_nodes = Len(graph_name)
    BY <1>1, <1>3 DEF Alone
  <2>2. Dies(t) => pc[t] \in Copying /\ num_of_total_nodes > Len(graph_name)
    BY <1>1 DEF Copying
  <2>3. QED
    BY <1>4, <2>1, <2>2
<1>6. /\ \A u, v \in Listener : pc[u] \in Recording /\ pc[v] \in Recording => u = v
      /\ \A u \in Listener : pc[u] \in {"found_none", "push"} => src[u] \notin Range(graph_name)
      /\ Cardinality(Range(graph_name)) = Len(graph_name)
      /\ netnode_nhops \subseteq Range(graph_name)
      /\ \A x \in Range(graph_name) \ netnode_nhops : \E u \in Listener :
           \/ pc[u] \in {"print", "insert"} /\ x = src[u]
           \/ pc[u] \in {"build_pushed", "build_insert"} /\ x = Self
      /\ \A u \in Listener : pc[u] \in Building => maps = <<>> /\ Source \subseteq Range(graph_name)
      /\ \A u \in Listener : pc[u] \in SelfAppended => Self \in Range(graph_name)
      /\ \A u \in Listener : pc[u] \in Copying => num_of_total_nodes = Len(graph_name)
      /\ \A u \in Listener : pc[u] = "build_edges" => final_graph_name = graph_name
      /\ maps # <<>> => /\ Range(graph_name) = Name
                        /\ \A u \in Listener : pc[u] \notin Recording
      /\ Len(maps) <= 1
      /\ \A i \in DOMAIN maps :
           Distinct(maps[i].names) /\ Range(maps[i].names) = Name /\ maps[i].nhops = Name
  BY <1>1, <1>3 DEF Alone
<1>7. /\ Building \subseteq Recording /\ SelfAppended \subseteq Building /\ Copying \subseteq SelfAppended
      /\ {"found_none", "push", "print", "insert", "build_pushed", "build_insert", "build_edges"}
           \subseteq Recording
      /\ "idle" \notin Recording /\ "find" \notin Recording /\ "dead" \notin Recording
  BY DEF Building, SelfAppended, Copying, Recording
\* What the step needs to show of t, when t is the one that records.
<1>8. ASSUME pc[t] \in Recording, \A u \in Listener \ {t} : pc'[u] = pc[u],
             pc'[t] # "dead", maps' = maps, SourcesOnce',
             pc'[t] \in {"found_none", "push"} => src'[t] \notin Range(graph_name'),
             Cardinality(Range(graph_name')) = Len(graph_name'),
             netnode_nhops' \subseteq Range(graph_name'),
             \A x \in Range(graph_name') \ netnode_nhops' :
               \/ pc'[t] \in {"print", "insert"} /\ x = src'[t]
               \/ pc'[t] \in {"build_pushed", "build_insert"} /\ x = Self,
             pc'[t] \in Building => Source \subseteq Range(graph_name'),
             pc'[t] \in SelfAppended => Self \in Range(graph_name'),
             pc'[t] \in Copying => num_of_total_nodes' = Len(graph_name'),
             pc'[t] = "build_edges" => final_graph_name' = graph_name'
      PROVE  Alone'
  <2>1. maps = <<>> /\ maps' = <<>>
    BY <1>6, <1>8
  <2>2. \A u \in Listener \ {t} : pc'[u] \notin Recording
    BY <1>6, <1>8
  <2>3. /\ \A u, v \in Listener : pc'[u] \in Recording /\ pc'[v] \in Recording => u = v
        /\ \A u \in Listener : pc'[u] \in {"found_none", "push"} => src'[u] \notin Range(graph_name')
    BY <1>7, <1>8, <2>2
  <2>4. \A u \in Listener : pc'[u] \in Building => Source \subseteq Range(graph_name')
    BY <1>7, <1>8, <2>2
  <2>5. \A u \in Listener : pc'[u] \in SelfAppended => Self \in Range(graph_name')
    BY <1>7, <1>8, <2>2
  <2>6. \A u \in Listener : pc'[u] \in Copying => num_of_total_nodes' = Len(graph_name')
    BY <1>7, <1>8, <2>2
  <2>7. \A u \in Listener : pc'[u] = "build_edges" => final_graph_name' = graph_name'
    BY <1>7, <1>8, <2>2
  <2>8. DOMAIN maps' = {} /\ Len(maps') <= 1
    BY <1>6, <1>8, <2>1
  <2>9. Alive'
    BY <1>5, <1>8 DEF Alive
  <2>10. QED
    BY <1>8, <2>1, <2>3, <2>4, <2>5, <2>6, <2>7, <2>8, <2>9 DEF Alone
\* What is known of t then.
<1>9. ASSUME pc[t] \in Recording
      PROVE  /\ maps = <<>>
             /\ \A x \in Range(graph_name) \ netnode_nhops :
                  \/ pc[t] \in {"print", "insert"} /\ x = src[t]
                  \/ pc[t] \in {"build_pushed", "build_insert"} /\ x = Self
  BY <1>6, <1>7, <1>9
\* A step of t that does not record.
<1>10. ASSUME pc[t] \notin Recording, pc'[t] \notin Recording, pc'[t] # "dead",
              UNCHANGED <<containers, maps>>,
              \A u \in Listener \ {t} : pc'[u] = pc[u] /\ src'[u] = src[u]
       PROVE  Alone'
  <2>1. \A u \in Listener : (pc'[u] \in Recording \/ pc[u] \in Recording) => pc'[u] = pc[u] /\ src'[u] = src[u]
    BY <1>10
  <2>2. UNCHANGED <<graph_name, netnode_nhops, num_of_total_nodes, final_graph_name, maps>>
    BY <1>10 DEF containers
  <2>3. \A x \in Range(graph_name) \ netnode_nhops : \E u \in Listener :
           \/ pc'[u] \in {"print", "insert"} /\ x = src'[u]
           \/ pc'[u] \in {"build_pushed", "build_insert"} /\ x = Self
    BY <1>6, <1>7, <2>1
  <2>4. /\ \A u, v \in Listener : pc'[u] \in Recording /\ pc'[v] \in Recording => u = v
        /\ \A u \in Listener : pc'[u] \in {"found_none", "push"} => src'[u] \notin Range(graph_name)
    BY <1>6, <1>7, <2>1
  <2>5. \A u \in Listener : pc'[u] \in Building => maps = <<>> /\ Source \subseteq Range(graph_name)
    BY <1>6, <1>7, <2>1
  <2>6. \A u \in Listener : pc'[u] \in SelfAppended => Self \in Range(graph_name)
    BY <1>6, <1>7, <2>1
  <2>7. \A u \in Listener : pc'[u] \in Copying => num_of_total_nodes = Len(graph_name)
    BY <1>6, <1>7, <2>1
  <2>8. \A u \in Listener : pc'[u] = "build_edges" => final_graph_name = graph_name
    BY <1>6, <1>7, <2>1
  <2>9. maps # <<>> => \A u \in Listener : pc'[u] \notin Recording
    BY <1>6, <2>1
  <2>10. Alive' /\ SourcesOnce'
    BY <1>5, <1>10, <2>2 DEF Alive, SourcesOnce, Places
  <2>11. QED
    BY <1>6, <2>2, <2>3, <2>4, <2>5, <2>6, <2>7, <2>8, <2>9, <2>10 DEF Alone
\* A step that leaves the names alone leaves each source once among them.
<1>11. graph_name' = graph_name => SourcesOnce'
  BY <1>5 DEF SourcesOnce, Places
<1>12. ASSUME NEW x \in Comes[t], BeginFind(t, x) PROVE Alone'
  <2>1. /\ pc[t] = "idle" /\ pc'[t] = "find" /\ src' = [src EXCEPT ![t] = x]
        /\ \A u \in Listener \ {t} : pc'[u] = pc[u]
        /\ UNCHANGED <<containers, maps>>
    BY <1>1, <1>12
  <2>2. \A u \in Listener \ {t} : src'[u] = src[u]
    BY <1>4, <2>1
  <2>3. QED
    BY <1>7, <1>10, <2>1, <2>2
<1>13. CASE EndFind(t)
  <2>1. UNCHANGED <<containers, maps>>
    BY <1>1, <1>13
  <2>2. CASE Moves(t, "find", "idle") /\ src' = [src EXCEPT ![t] = Self]
    <3>1. \A u \in Listener \ {t} : src'[u] = src[u]
      BY <1>4, <2>2
    <3>2. QED
      BY <1>7, <1>10, <2>1, <2>2, <3>1
  <2>3. CASE /\ src[t] \notin Range(graph_name) /\ src' = src
             /\ Moves(t, "find", "found_none")
             /\ \A u \in Listener \ {t} : pc[u] \notin Recording
    <3>1. /\ pc[t] = "find" /\ pc'[t] = "found_none" /\ \A u \in Listener \ {t} : pc'[u] = pc[u]
          /\ UNCHANGED <<graph_name, netnode_nhops, num_of_total_nodes, final_graph_name, maps>>
      BY <2>1, <2>3 DEF containers
    <3>2. "found_none" \notin Building \cup {"print", "insert", "build_pushed", "build_insert", "build_edges"}
      BY DEF Building, SelfAppended, Copying
    <3>3. \A u \in Listener : pc[u] \notin Recording
      BY <1>7, <2>3, <3>1
    <3>4. Range(graph_name) \subseteq netnode_nhops
      BY <1>6, <1>7, <3>3
    <3>5. maps = <<>>
      BY <1>4, <1>6, <2>3
    <3>6. \A u \in Listener : pc'[u] \in Recording => u = t /\ pc'[u] = "found_none"
      BY <2>3, <3>1
    <3>7. \A u \in Listener : /\ pc'[u] \notin Building /\ pc'[u] \notin SelfAppended /\ pc'[u] \notin Copying
                              /\ pc'[u] # "build_edges"
                              /\ pc'[u] \in {"found_none", "push"} => src'[u] \notin Range(graph_name)
      BY <1>7, <2>3, <3>2, <3>6
    <3>8. \A u, v \in Listener : pc'[u] \in Recording /\ pc'[v] \in Recording => u = v
      BY <3>6
    <3>9. Alive' /\ SourcesOnce'
      BY <1>5, <1>11, <3>1 DEF Alive
    <3>10. QED
      BY <1>6, <3>1, <3>4, <3>5, <3>7, <3>8, <3>9 DEF Alone
  <2>4. QED
    BY <1>1, <1>13, <2>2, <2>3
<1>14. CASE BeginPush(t)
  <2>1. /\ pc[t] = "found_none" /\ pc'[t] = "push" /\ \A u \in Listener \ {t} : pc'[u] = pc[u]
        /\ UNCHANGED <<src, graph_name, netnode_nhops, maps>>
    BY <1>1, <1>14 DEF containers
  <2>2. pc[t] \in Recording /\ "push" \notin Building \cup SelfAppended \cup Copying
    BY <2>1 DEF Recording, Building, SelfAppended, Copying
  <2>3. QED
    BY <1>6, <1>8, <1>9, <1>11, <2>1, <2>2
<1>15. CASE EndPush(t)
  <2>1. /\ pc[t] = "push" /\ pc'[t] = "print" /\ \A u \in Listener \ {t} : pc'[u] = pc[u]
        /\ UNCHANGED <<src, netnode_nhops, maps>>
        /\ graph_name' = Append(graph_name, src[t])
    BY <1>1, <1>15
  <2>2. pc[t] \in Recording /\ "print" \notin Building \cup SelfAppended \cup Copying
    BY <2>1 DEF Recording, Building, SelfAppended, Copying
  <2>3. src[t] \in Name /\ src[t] \notin Range(graph_name)
    BY <1>4, <1>6, <2>1
  <2>4. Range(graph_name') = Range(graph_name) \cup {src[t]}
    BY <1>4, <2>1, <2>3, RangeAppend
  <2>5. Cardinality(Range(graph_name')) = Len(graph_name')
    BY <1>4, <1>6, <2>1, <2>3, NewName
  <2>6. Range(graph_name) \subseteq netnode_nhops
    BY <1>9, <2>1, <2>2
  <2>7. \A x \in Range(graph_name') \ netnode_nhops' : x = src'[t]
    BY <2>1, <2>4, <2>6
  <2>8. netnode_nhops' \subseteq Range(graph_name')
    BY <1>6, <2>1, <2>4
  <2>9. SourcesOnce'
    BY <1>5, <2>1, <2>3, PlacesAppend
  <2>10. QED
    BY <1>8, <2>1, <2>2, <2>5, <2>7, <2>8, <2>9
<1>16. CASE BeginInsert(t)
  <2>1. /\ pc[t] = "print" /\ pc'[t] = "insert" /\ \A u \in Listener \ {t} : pc'[u] = pc[u]
        /\ UNCHANGED <<src, graph_name, netnode_nhops, maps>>
    BY <1>1, <1>16 DEF containers
  <2>2. pc[t] \in Recording /\ "insert" \notin Building \cup SelfAppended \cup Copying
    BY <2>1 DEF Recording, Building, SelfAppended, Copying
  <2>3. \A x \in Range(graph_name) \ netnode_nhops : x = src[t]
    BY <1>9, <2>1, <2>2
  <2>4. QED
    BY <1>6, <1>8, <1>11, <2>1, <2>2, <2>3
<1>17. CASE EndInsert(t)
  <2>1. /\ pc[t] = "insert" /\ pc'[t] = "inserted" /\ \A u \in Listener \ {t} : pc'[u] = pc[u]
        /\ UNCHANGED <<graph_name, maps>>
        /\ netnode_nhops' = netnode_nhops \cup {src[t]}
    BY <1>1, <1>17
  <2>2. pc[t] \in Recording /\ "inserted" \notin Building \cup SelfAppended \cup Copying
        /\ pc[t] \in Appended
    BY <2>1 DEF Recording, Building, SelfAppended, Copying, Appended
  <2>3. \A x \in Range(graph_name) \ netnode_nhops : x = src[t]
    BY <1>9, <2>1, <2>2
  <2>4. src[t] \in Range(graph_name)
    BY <1>1, <2>2 DEF Kept
  <2>5. Range(graph_name') \ netnode_nhops' = {} /\ netnode_nhops' \subseteq Range(graph_name')
    BY <1>6, <2>1, <2>3, <2>4
  <2>6. QED
    BY <1>6, <1>8, <1>11, <2>1, <2>2, <2>5
<1>18. CASE Compare(t)
  <2>1. /\ pc[t] = "inserted" /\ \A u \in Listener \ {t} : pc'[u] = pc[u]
        /\ UNCHANGED <<graph_name, netnode_nhops, num_of_total_nodes, maps>>
    BY <1>1, <1>18 DEF containers
  <2>2. pc[t] \in Recording /\ pc[t] \notin SelfAppended /\ pc[t] \notin Copying
    BY <2>1 DEF Recording, SelfAppended, Copying
  <2>3. Range(graph_name) \ netnode_nhops = {} /\ maps = <<>>
    BY <1>9, <2>1, <2>2
  <2>4. CASE Len(graph_name) = num_of_total_nodes /\ Moves(t, "inserted", "build_push")
    <3>1. \A u \in Listener : pc[u] \notin SelfAppended /\ pc[u] \notin Copying
      BY <1>6, <1>7, <2>2
    <3>2. Self \notin Range(graph_name) /\ num_of_total_nodes = Cardinality(Source)
      BY <1>1, <1>5, <2>3, <3>1 DEF Counted
    <3>3. Cardinality(Range(graph_name)) = Cardinality(Source)
      BY <1>6, <2>4, <3>2
    <3>4. Source \subseteq Range(graph_name)
      BY <1>4, <3>2, <3>3, AllSources
    <3>5. pc'[t] = "build_push" /\ "build_push" \notin SelfAppended \cup Copying
      BY <2>4 DEF SelfAppended, Copying
    <3>6. QED
      BY <1>6, <1>8, <1>11, <2>1, <2>2, <2>3, <3>4, <3>5
  <2>5. CASE Moves(t, "inserted", "idle")
    <3>1. pc'[t] = "idle" /\ "idle" \notin Building \cup SelfAppended \cup Copying
      BY <2>5 DEF Building, SelfAppended, Copying
    <3>2. QED
      BY <1>6, <1>8, <1>11, <2>1, <2>2, <2>3, <3>1
  <2>6. QED
    BY <1>1, <1>18, <2>4, <2>5
<1>19. CASE EndBuildPush(t)
  <2>1. /\ pc[t] = "build_push" /\ pc'[t] = "build_pushed" /\ \A u \in Listener \ {t} : pc'[u] = pc[u]
        /\ UNCHANGED <<src, netnode_nhops, maps>>
        /\ graph_name' = Append(graph_name, Self) /\ Self \in Name
    BY <1>1, <1>19 DEF Name
  <2>2. pc[t] \in Recording /\ pc[t] \in Building /\ pc[t] \notin SelfAppended /\ "build_pushed" \notin Copying
    BY <2>1 DEF Recording, Building, SelfAppended, Copying
  <2>3. maps = <<>> /\ Range(graph_name) \ netnode_nhops = {} /\ Source \subseteq Range(graph_name)
    BY <1>6, <1>9, <2>1, <2>2
  <2>4. Self \notin Range(graph_name)
    <3>1. \A u \in Listener : pc[u] \notin SelfAppended
      BY <1>6, <1>7, <2>2
    <3>2. QED
      BY <1>1, <1>5, <2>3, <3>1 DEF Counted
  <2>5. Range(graph_name') = Range(graph_name) \cup {Self}
    BY <1>4, <2>1, RangeAppend
  <2>6. Cardinality(Range(graph_name')) = Len(graph_name')
    BY <1>4, <1>6, <2>1, <2>4, NewName
  <2>7. /\ \A x \in Range(graph_name') \ netnode_nhops' : x = Self
        /\ netnode_nhops' \subseteq Range(graph_name') /\ Source \subseteq Range(graph_name')
    BY <1>6, <2>1, <2>3, <2>5
  <2>8. SourcesOnce'
    BY <1>5, <2>1, <2>4, PlacesAppend
  <2>9. QED
    BY <1>8, <2>1, <2>2, <2>5, <2>6, <2>7, <2>8
<1>20. CASE BeginBuildInsert(t)
  <2>1. /\ pc[t] = "build_pushed" /\ pc'[t] = "build_insert" /\ \A u \in Listener \ {t} : pc'[u] = pc[u]
        /\ UNCHANGED <<src, graph_name, netnode_nhops, maps>>
    BY <1>1, <1>20 DEF containers
  <2>2. pc[t] \in Recording /\ pc[t] \in Building /\ pc[t] \in SelfAppended /\ "build_insert" \notin Copying
    BY <2>1 DEF Recording, Building, SelfAppended, Copying
  <2>3. \A x \in Range(graph_name) \ netnode_nhops : x = Self
    BY <1>9, <2>1, <2>2
  <2>4. QED
    BY <1>6, <1>8, <1>11, <2>1, <2>2, <2>3
<1>21. CASE EndBuildInsert(t)
  <2>1. /\ pc[t] = "build_insert" /\ pc'[t] = "build_inserted" /\ \A u \in Listener \ {t} : pc'[u] = pc[u]
        /\ UNCHANGED <<graph_name, maps>>
        /\ netnode_nhops' = netnode_nhops \cup {Self}
    BY <1>1, <1>21
  <2>2. pc[t] \in Recording /\ pc[t] \in Building /\ pc[t] \in SelfAppended /\ "build_inserted" \notin Copying
    BY <2>1 DEF Recording, Building, SelfAppended, Copying
  <2>3. \A x \in Range(graph_name) \ netnode_nhops : x = Self
    BY <1>9, <2>1, <2>2
  <2>4. Range(graph_name') \ netnode_nhops' = {} /\ netnode_nhops' \subseteq Range(graph_name')
    BY <1>6, <2>1, <2>2, <2>3
  <2>5. QED
    BY <1>6, <1>8, <1>11, <2>1, <2>2, <2>4
<1>22. CASE BeginCopy(t)
  <2>1. /\ pc[t] = "build_inserted" /\ pc'[t] = "build_copy" /\ \A u \in Listener \ {t} : pc'[u] = pc[u]
        /\ UNCHANGED <<graph_name, netnode_nhops, maps>>
        /\ num_of_total_nodes' = num_of_total_nodes + 1
    BY <1>1, <1>22
  <2>2. pc[t] \in Recording /\ pc[t] \in Building /\ pc[t] \in SelfAppended /\ pc[t] \notin Copying
    BY <2>1 DEF Recording, Building, SelfAppended, Copying
  <2>3. Range(graph_name) \ netnode_nhops = {} /\ maps = <<>>
    BY <1>9, <2>1, <2>2
  <2>4. \A u \in Listener : pc[u] \notin Copying
    BY <1>6, <1>7, <2>2
  <2>5. num_of_total_nodes = Cardinality(Source)
    BY <1>1, <1>5, <2>3, <2>4 DEF Counted
  <2>6. Range(graph_name) = Source \cup {Self}
    <3>1. Range(graph_name) \subseteq Name
      BY <1>4 DEF Range
    <3>2. QED
      BY <1>6, <2>2, <3>1 DEF Name
  <2>7. Cardinality(Source \cup {Self}) = Cardinality(Source) + 1
    BY FS_AddElement
  <2>8. num_of_total_nodes' = Len(graph_name)
    BY <1>6, <2>1, <2>5, <2>6, <2>7
  <2>9. QED
    BY <1>6, <1>8, <1>11, <2>1, <2>2, <2>3, <2>8
<1>23. CASE EndCopy(t)
  <2>1. /\ pc[t] = "build_copy" /\ pc'[t] = "build_edges" /\ \A u \in Listener \ {t} : pc'[u] = pc[u]
        /\ UNCHANGED <<graph_name, netnode_nhops, num_of_total_nodes, maps>>
        /\ final_graph_name' = [i \in 1 .. num_of_total_nodes |-> graph_name[i]]
    BY <1>1, <1>23
  <2>2. pc[t] \in Recording /\ pc[t] \in Building /\ pc[t] \in SelfAppended /\ pc[t] \in Copying
    BY <2>1 DEF Recording, Building, SelfAppended, Copying
  <2>3. Range(graph_name) \ netnode_nhops = {}
    BY <1>9, <2>1, <2>2
  <2>4. num_of_total_nodes = Len(graph_name)
    BY <1>6, <2>2
  <2>5. final_graph_name' = graph_name
    BY <1>4, <2>1, <2>4
  <2>6. QED
    BY <1>6, <1>8, <1>11, <2>1, <2>2, <2>3, <2>4, <2>5
<1>24. CASE EndBuild(t)
  <2>1. /\ pc[t] = "build_edges" /\ pc'[t] = "idle" /\ \A u \in Listener \ {t} : pc'[u] = pc[u]
        /\ UNCHANGED <<graph_name, netnode_nhops>>
        /\ maps' = Append(maps, [names |-> final_graph_name, nhops |-> netnode_nhops])
    BY <1>1, <1>24 DEF containers
  <2>2. pc[t] \in Recording /\ pc[t] \in Building /\ pc[t] \in SelfAppended
    BY <2>1 DEF Recording, Building, SelfAppended, Copying
  <2>3. maps = <<>> /\ Range(graph_name) \ netnode_nhops = {} /\ final_graph_name = graph_name
    BY <1>6, <1>9, <2>1, <2>2
  <2>4. Range(graph_name) \subseteq Name
    BY <1>4 DEF Range
  <2>5. Range(graph_name) = Name /\ netnode_nhops = Name
    BY <1>6, <2>2, <2>3, <2>4 DEF Name
  <2>6. \A u \in Listener : pc'[u] \notin Recording
    BY <1>6, <1>7, <2>1, <2>2
  <2>7. maps' = <<[names |-> graph_name, nhops |-> netnode_nhops]>>
    BY <2>1, <2>3
  <2>8. Len(maps') = 1 /\ DOMAIN maps' = {1}
        /\ maps'[1].names = graph_name /\ maps'[1].nhops = netnode_nhops
    BY <2>7
  <2>9. \A i \in DOMAIN maps' :
          Distinct(maps'[i].names) /\ Range(maps'[i].names) = Name /\ maps'[i].nhops = Name
    BY <1>6, <2>5, <2>8 DEF Distinct
  <2>10. \A u \in Listener : /\ pc'[u] \notin Building /\ pc'[u] \notin SelfAppended /\ pc'[u] \notin Copying
                             /\ pc'[u] \notin {"found_none", "push", "build_edges"}
    BY <1>7, <2>6
  <2>11. Alive' /\ SourcesOnce'
    BY <1>5, <1>11, <2>1 DEF Alive
  <2>12. QED
    BY <1>6, <2>1, <2>5, <2>6, <2>8, <2>9, <2>10, <2>11 DEF Alone
<1>25. QED
  BY <1>5, <1>12, <1>13, <1>14, <1>15, <1>16, <1>17, <1>18, <1>19, <1>20, <1>21, <1>22, <1>23, <1>24
     DEF ListenerStep
-----------------------------------------------------------------------------
(* The theorems.                                                           *)

LEMMA NextInvariant == IInv /\ [Next]_vars => IInv'
<1> SUFFICES ASSUME IInv, [Next]_vars PROVE IInv'
  OBVIOUS
<1>1. ASSUME NEW t \in Listener, ListenerStep(t) PROVE IInv'
  BY <1>1, TypeStep, FewStep, KeptStep, CountedStep, AloneStep DEF IInv
<1>2. CASE UNCHANGED vars
  <2>1. UNCHANGED <<pc, src, raced, graph_name, netnode_nhops, num_of_total_nodes, final_graph_name,
                    maps, races, alone>>
    BY <1>2 DEF vars, containers
  <2>2. TypeOK' /\ NoRaces' /\ OwnSource'
    BY <2>1 DEF IInv, TypeOK, NoRaces, OwnSource
  <2>3. \A x : Places(x)' = Places(x) /\ About(x)' = About(x) /\ ListenersOf(x)' = ListenersOf(x)
    BY <2>1 DEF Places, About, ListenersOf
  <2>4. Few' /\ (SourcesOnce' <=> SourcesOnce)
    BY <2>1, <2>3 DEF IInv, Few, SourcesOnce
  <2>5. (Alive' <=> Alive) /\ (Calm' <=> Calm)
    BY <2>1 DEF Alive, Calm, Outward
  <2>6. Kept' /\ Counted'
    BY <2>1, <2>4, <2>5 DEF IInv, Kept, Counted
  <2>7. Alone'
    BY <2>1, <2>4, <2>5 DEF IInv, Alone
  <2>8. QED
    BY <2>2, <2>4, <2>6, <2>7 DEF IInv
<1>3. QED
  BY <1>1, <1>2 DEF Next

THEOREM Invariance == Spec => []IInv
BY InitInvariant, NextInvariant, PTL DEF Spec

\* The containers have the types that the code gives them, however the accesses
\* overlap.
THEOREM TypeCorrect == Spec => []TypeOK
<1>1. IInv => TypeOK
  BY DEF IInv
<1>2. QED
  BY <1>1, Invariance, PTL

\* The lookup and the append (router.cpp:437-445), which no lock joins, record a
\* source at most once for each of the listeners that its packets come to, on any
\* network, as long as no two accesses overlap.
THEOREM NamedOncePerListener == Spec => []NamesPerListener
<1>1. ASSUME IInv PROVE NamesPerListener
  <2> SUFFICES ASSUME races = 0, NEW x \in Source
               PROVE  Cardinality(Places(x)) <= Cardinality(ListenersOf(x))
    BY DEF NamesPerListener
  <2>1. Cardinality(Places(x)) + Cardinality(About(x)) <= Cardinality(ListenersOf(x))
    BY <1>1 DEF IInv, Few
  <2>2. Cardinality(About(x)) \in Nat /\ Cardinality(ListenersOf(x)) \in Nat
    BY ListenerSets DEF About, ListenersOf
  <2>3. Cardinality(Places(x)) \in Nat
    <3>1. IsFiniteSet(1 .. Len(graph_name)) /\ Places(x) \subseteq 1 .. Len(graph_name)
      BY <1>1, FS_Interval DEF Places, IInv, TypeOK
    <3>2. QED
      BY <3>1, FS_Subset, FS_CardinalityType
  <2>4. QED
    BY <2>1, <2>2, <2>3
<1>2. QED
  BY <1>1, Invariance, PTL

\* However many listeners record at once, also where two share a port, once all the
\* sources are recorded, none twice, and every listener is idle again, one of them
\* has built a map (router.cpp:466-470).
THEOREM SomebodyBuilds == Spec => []NoMissedBuild
<1>1. IInv => NoMissedBuild
  BY DEF IInv, Counted, Calm, Alive, NoMissedBuild, Appended, Building, SelfAppended, Copying
<1>2. QED
  BY <1>1, Invariance, PTL

\* If one listener records at a time, also where two share a port, there is at most
\* one map, it is complete, and at() (router.cpp:201) does not throw.
THEOREM MapComplete == Spec => []OneCompleteMap
<1>1. IInv => OneCompleteMap
  BY DEF IInv, Alone, Calm, Alive, OneCompleteMap
<1>2. QED
  BY <1>1, Invariance, PTL
=============================================================================
