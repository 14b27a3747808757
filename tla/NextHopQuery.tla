---------------------------- MODULE NextHopQuery ----------------------------
(***************************************************************************)
(* forward_to_port, called by several listeners of one router, while and   *)
(* after the tables are filled (RouteTables).                              *)
(*                                                                         *)
(* A call for more than one destination first writes the possible next     *)
(* hops of each destination into dest_poss_nhop, which all the calls share *)
(* and nothing ever clears, and then tries all the combinations of what is *)
(* there.  No lock is taken: an access to that map is a span from a Begin  *)
(* to an End step, and a span that inserts a key and overlaps another is   *)
(* undefined behaviour (raced).  An entry that is there already is only    *)
(* overwritten with what it holds.                                         *)
(***************************************************************************)
EXTENDS RouteTables

CONSTANTS
  Listener,   \* listening threads of the router
  Query,      \* lists of destinations they are called for
  MaxCalls    \* bound on the calls

ASSUME QueryAssumption ==
  /\ Query \subseteq DestList \ {NoDests}
  /\ \A ds \in Query : Self \notin Dests(ds)
ASSUME MaxCallsAssumption == MaxCalls \in Nat

VARIABLES
  dest_poss_nhop,  \* dest_poss_nhop[d]: possible next hops of d by index, <<>> if none
  at,              \* at[t]: where the call of listener t is
  asked,           \* asked[t]: the destinations of that call
  todo,            \* todo[t]: entries that the call has still to write
  span,            \* span[t]: what t is doing to dest_poss_nhop
  answer,          \* answer[t]: the ports that the call gave, 0 for none
  calls,           \* calls so far
  early,           \* history: a call came before its tables were filled
  raced            \* history: conflicting spans have overlapped

callVars == <<at, asked, todo, span, answer>>
queryVars == <<dest_poss_nhop, callVars, calls, early, raced>>
vars == <<mapVars, queryVars>>

\* Indices start with 1 here, with 0 in the code.
Index == 1 .. Cardinality(Range(NbrTbl))
Span == {"none", "read", "insert", "scan"}
NoAnswer == [i \in Slot |-> 0]

QueryTypeOK ==
  /\ DOMAIN dest_poss_nhop = Node
  /\ \A d \in Node : /\ DOMAIN dest_poss_nhop[d] \subseteq Index
                     /\ Range(dest_poss_nhop[d]) \subseteq Range(NbrTbl)
  /\ at \in [Listener -> {"idle", "fill", "scan", "answered", "astray"}]
  /\ asked \in [Listener -> Query \cup {NoDests}]
  /\ todo \in [Listener -> Seq([dest : Node, index : Index, nhop : Range(NbrTbl)])]
  /\ span \in [Listener -> Span]
  /\ answer \in [Listener -> [Slot -> 0 .. Len(NbrTbl)]]
  /\ calls \in 0 .. MaxCalls
  /\ early \in BOOLEAN /\ raced \in BOOLEAN

Init ==
  /\ BuildInit
  /\ dest_poss_nhop = [d \in Node |-> <<>>]
  /\ at = [t \in Listener |-> "idle"]
  /\ asked = [t \in Listener |-> NoDests]
  /\ todo = [t \in Listener |-> <<>>]
  /\ span = [t \in Listener |-> "none"]
  /\ answer = [t \in Listener |-> NoAnswer]
  /\ calls = 0
  /\ early = FALSE
  /\ raced = FALSE

-----------------------------------------------------------------------------
(* What a call writes.                                                     *)

\* The neighbours ns in the order of nhop_port.
InOrder(ns) ==
  CHOOSE s \in [1 .. Cardinality(ns) -> ns] :
    \A i, j \in DOMAIN s : i < j => Letter[s[i]] < Letter[s[j]]

\* The possible next hops of d by the tables.
PossibleOf(d) ==
  InOrder({n \in DOMAIN nhop_dest_dist : dest_dist[d] >= nhop_dest_dist[n][d]})

EntriesFor(d) ==
  LET ns == PossibleOf(d)
  IN  [i \in DOMAIN ns |-> [dest |-> d, index |-> i, nhop |-> ns[i]]]

Entries_CounterKept(ds) ==
  LET of(i) == IF ds[i] = NoNode THEN <<>> ELSE EntriesFor(ds[i])
      shift(s, k) == [i \in DOMAIN s |-> [s[i] EXCEPT !.index = @ + k]]
  IN  of(1) \o shift(of(2), Len(of(1))) \o shift(of(3), Len(of(1)) + Len(of(2)))

\* The entries that a call for ds writes, destination by destination.
Entries(ds) ==
  LET of(i) == IF ds[i] = NoNode THEN <<>> ELSE EntriesFor(ds[i])
  IN  of(1) \o of(2) \o of(3)

\* The entries of old after those of new have been written over them.
Written(old, new) ==
  [i \in DOMAIN old \cup DOMAIN new |-> IF i \in DOMAIN new THEN new[i] ELSE old[i]]

\* The ids that every table has: those of vertices of the graph.
Listed(ds) == \A d \in Dests(ds) : d \in DOMAIN dest_dist

CanCall(t) == at[t] \in {"idle", "answered"} /\ calls < MaxCalls /\ Published

\* A call for one destination looks it up in dest_port.
CallUnicast(t, ds) ==
  /\ CanCall(t) /\ pc = "done" /\ Listed(ds)
  /\ Unicast(ds)
  /\ at' = [at EXCEPT ![t] = "answered"]
  /\ asked' = [asked EXCEPT ![t] = ds]
  /\ answer' = [answer EXCEPT ![t] =
                  [i \in Slot |-> IF ds[i] = NoNode THEN 0 ELSE dest_port[ds[i]]]]
  /\ calls' = calls + 1
  /\ UNCHANGED <<mapVars, dest_poss_nhop, todo, span, early, raced>>

CallMulticast(t, ds) ==
  /\ CanCall(t) /\ pc = "done" /\ Listed(ds)
  /\ ~Unicast(ds)
  /\ at' = [at EXCEPT ![t] = "fill"]
  /\ asked' = [asked EXCEPT ![t] = ds]
  /\ todo' = [todo EXCEPT ![t] = Entries(ds)]
  /\ answer' = [answer EXCEPT ![t] = NoAnswer]
  /\ calls' = calls + 1
  /\ UNCHANGED <<mapVars, dest_poss_nhop, span, early, raced>>

\* A call comes before the tables are filled, or names an id that they have not:
\* find() == end() is read for a distance or a row of distances, and whatever
\* that is decides which next hops are entered; the call then answers anything ...
CallTooEarly(t, ds) ==
  /\ CanCall(t) /\ ~(pc = "done" /\ Listed(ds))
  /\ \E ns \in SUBSET Range(NbrTbl) :
       dest_poss_nhop' =
         [d \in Node |->
            IF Unicast(ds) \/ d \notin Dests(ds) THEN dest_poss_nhop[d]
            ELSE Written(dest_poss_nhop[d], InOrder(ns))]
  /\ at' = [at EXCEPT ![t] = "astray"]
  /\ asked' = [asked EXCEPT ![t] = ds]
  /\ calls' = calls + 1
  /\ early' = TRUE
  /\ UNCHANGED <<mapVars, todo, span, answer, raced>>

\* ... or kills the router.
CallTooEarlyDies(t, ds) ==
  /\ CanCall(t) /\ ~(pc = "done" /\ Listed(ds))
  /\ pc' = "killed"
  /\ early' = TRUE
  /\ UNCHANGED <<graph, pred, dist, walk, tables, dest_poss_nhop, callVars, calls, raced>>

-----------------------------------------------------------------------------
(* The shared map.                                                         *)

Dead == pc \in {"dead", "killed"}

\* Two spans that must not overlap: one that inserts a key, and any other.
Conflict(t, kind) ==
  \E u \in Listener \ {t} :
    \/ kind = "insert" /\ span[u] # "none"
    \/ kind # "none" /\ span[u] = "insert"

Begins(t, kind) ==
  /\ span[t] = "none"
  /\ span' = [span EXCEPT ![t] = kind]
  /\ raced' = (raced \/ Conflict(t, kind))

\* operator[] of the next entry inserts a key unless the map has it.
BeginEntry(t) ==
  /\ ~Dead /\ at[t] = "fill" /\ todo[t] # <<>>
  /\ LET e == Head(todo[t])
     IN  Begins(t, IF e.index \notin DOMAIN dest_poss_nhop[e.dest] THEN "insert" ELSE "read")
  /\ UNCHANGED <<mapVars, dest_poss_nhop, at, asked, todo, answer, calls, early>>

\* The entry is written; an insertion that has raced may be lost.
EndEntry(t) ==
  /\ ~Dead /\ at[t] = "fill" /\ span[t] # "none"
  /\ LET e == Head(todo[t])
     IN  \/ dest_poss_nhop' = [dest_poss_nhop EXCEPT ![e.dest] =
                                 Written(@, [i \in {e.index} |-> e.nhop])]
         \/ raced /\ dest_poss_nhop' = dest_poss_nhop
  /\ span' = [span EXCEPT ![t] = "none"]
  /\ todo' = [todo EXCEPT ![t] = Tail(@)]
  /\ UNCHANGED <<mapVars, at, asked, answer, calls, early, raced>>

\* The loops that print the map and try the combinations only look things up.
BeginScan(t) ==
  /\ ~Dead /\ at[t] = "fill" /\ todo[t] = <<>>
  /\ Begins(t, "scan")
  /\ at' = [at EXCEPT ![t] = "scan"]
  /\ UNCHANGED <<mapVars, dest_poss_nhop, asked, todo, answer, calls, early>>

-----------------------------------------------------------------------------
(* The combinations.                                                       *)

\* size() of the entry of slot i.
Size(ds, i) == IF ds[i] = NoNode THEN 1 ELSE Cardinality(DOMAIN dest_poss_nhop[ds[i]])

\* What the nested loops count through: an index for each slot.
Indexes(ds) == {x \in [Slot -> Index] : \A i \in Slot : x[i] <= Size(ds, i)}

Combination(ds, x) ==
  [i \in Slot |-> IF ds[i] = NoNode THEN NoNode ELSE dest_poss_nhop[ds[i]][x[i]]]

\* cost(): the distances behind the next hops, and one for each that is used.
CostOf(ds, f) ==
  Sum([i \in Slot |-> IF ds[i] = NoNode THEN 0
                      ELSE nhop_dest_dist[f[i]][ds[i]] + LinkCost(f, i)])

\* The loops come to x before y, the last destination being the fastest.
Earlier(x, y) == \E i \in Slot : x[i] < y[i] /\ \A j \in 1 .. i - 1 : x[j] = y[j]

MinIndexes_Last(ds) ==
  LET cost(x) == CostOf(ds, Combination(ds, x))
  IN  CHOOSE x \in Indexes(ds) : \A y \in Indexes(ds) \ {x} :
        cost(x) < cost(y) \/ (cost(x) = cost(y) /\ Earlier(y, x))

\* What min_indexes holds after the loops: a later combination replaces the one
\* there if it costs less.
MinIndexes(ds) ==
  LET cost(x) == CostOf(ds, Combination(ds, x))
  IN  CHOOSE x \in Indexes(ds) : \A y \in Indexes(ds) \ {x} :
        cost(x) < cost(y) \/ (cost(x) = cost(y) /\ Earlier(x, y))

\* Without an entry for a destination there is no combination; an insertion that
\* was lost may leave a gap.
Choosable(ds) ==
  \A i \in Slot : Size(ds, i) > 0 /\
    (ds[i] # NoNode => DOMAIN dest_poss_nhop[ds[i]] = 1 .. Size(ds, i))

EndScan(t) ==
  /\ ~Dead /\ at[t] = "scan"
  /\ Choosable(asked[t])
  /\ LET f == Combination(asked[t], MinIndexes(asked[t]))
     IN  answer' = [answer EXCEPT ![t] =
                      [i \in Slot |-> IF f[i] = NoNode THEN 0 ELSE NhopPort[f[i]]]]
  /\ at' = [at EXCEPT ![t] = "answered"]
  /\ span' = [span EXCEPT ![t] = "none"]
  /\ UNCHANGED <<mapVars, dest_poss_nhop, asked, todo, calls, early, raced>>

\* The scan has met an insertion, or a destination has no entry: the ports come
\* from memory that was not set, or the router dies.
EndScanAstray(t) ==
  /\ ~Dead /\ at[t] = "scan"
  /\ raced \/ ~Choosable(asked[t])
  /\ at' = [at EXCEPT ![t] = "astray"]
  /\ span' = [span EXCEPT ![t] = "none"]
  /\ UNCHANGED <<mapVars, dest_poss_nhop, asked, todo, answer, calls, early, raced>>

CallDies(t) ==
  /\ ~Dead
  /\ \/ span[t] # "none" /\ raced
     \/ at[t] = "scan" /\ ~Choosable(asked[t])
  /\ pc' = "killed"
  /\ UNCHANGED <<graph, pred, dist, walk, tables, queryVars>>

QueryStep(t) ==
  \/ \E ds \in Query : CallUnicast(t, ds) \/ CallMulticast(t, ds)
                       \/ CallTooEarly(t, ds) \/ CallTooEarlyDies(t, ds)
  \/ BeginEntry(t) \/ EndEntry(t) \/ BeginScan(t) \/ EndScan(t)
  \/ EndScanAstray(t) \/ CallDies(t)

Next ==
  \/ BuildStep /\ UNCHANGED queryVars
  \/ \E t \in Listener : QueryStep(t)

Spec == Init /\ [][Next]_vars

\* The listener that builds the map runs.
FairSpec == Spec /\ WF_vars(BuildStep /\ UNCHANGED queryVars)

-----------------------------------------------------------------------------
(* Properties.                                                             *)

\* The answer of t is one that NextHops gives.
RightAnswer(t) ==
  LET f == [i \in Slot |-> IF asked[t][i] = NoNode THEN NoNode
                           ELSE NbrTbl[answer[t][i]]]
  IN  IF Unicast(asked[t])
      THEN \A i \in Slot : asked[t][i] # NoNode =>
             Dist[Self][asked[t][i]] = Dist[f[i]][asked[t][i]] + 1
      ELSE f \in Best(Self, asked[t])

\* A call gives what NextHops says, whatever other calls have left, or are
\* leaving, in the map that none of them clears, unless calls for new destinations
\* raced, or one came before the tables were filled
\* (forwarding_table_filler.h:40-152).
AnswersRight ==
  \A t \in Listener : at[t] = "answered" /\ Clean /\ ~raced /\ ~early => RightAnswer(t)

\* The race is over once the destinations that the calls are for have all their
\* entries: from then on no call changes the map (forwarding_table_filler.h:56).
RaceOnlyWhileNew ==
  [][(~raced /\ raced' /\ ~early /\ Clean) =>
       \E t \in Listener : \E d \in Dests(asked[t]) :
         at[t] \in {"fill", "scan"}
         /\ Cardinality(DOMAIN dest_poss_nhop[d]) < Cardinality(Possible(Self, d))]_vars
=============================================================================
