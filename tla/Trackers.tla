------------------------------- MODULE Trackers -------------------------------
(***************************************************************************)
(* The trackers as objects of C++.  A size_tracker or offset_tracker is a  *)
(* pointer to a representation and a pointer to the number of trackers     *)
(* that share it; copies share, and part when one of them outgrows what    *)
(* they share.  The two classes manage this by the same code: a behaviour  *)
(* is about trackers of one class, and the contents of a representation    *)
(* are those of module Sizes or Offsets.                                   *)
(*                                                                         *)
(* The program is any that uses the class as its interface allows.  Two    *)
(* things it must not do, and the repository does not: assign a tracker    *)
(* that has observed nothing (its count is dereferenced, sizes.hpp:243)    *)
(* and assign a tracker to itself (its representation would be deleted     *)
(* first, sizes.hpp:238).                                                  *)
(***************************************************************************)
EXTENDS Integers, Sequences, FiniteSets

CONSTANTS Tracker, Object,        \* the trackers, and where representations live
          None,                   \* the null pointer, and what freed memory holds
          Size, OffsetOp,         \* what trackers are fed with
          SizeLimit, OffsetLimit, Memory,
          MaxLog                  \* bound: how often a representation is fed

ASSUME NoneAssumption == None \notin Object
ASSUME FiniteAssumption == IsFiniteSet(Tracker)
ASSUME SizeAssumption == Size \subseteq Nat
ASSUME LimitsAssumption == {SizeLimit, OffsetLimit} \subseteq Nat \ {0, 1}
ASSUME MemoryAssumption == Memory \subseteq Int /\ Memory # {}

VARIABLES class,      \* which of the two classes the program uses
          live,       \* the trackers that are constructed and not destroyed
          st,         \* the representation of each, or None
          instances,  \* how many trackers share it: 0 for free memory
          rep,        \* what it holds
          log         \* (for the properties) everything it was fed with, in order

vars == <<class, live, st, instances, rep, log>>

S == INSTANCE Sizes
O == INSTANCE Offsets

Values == IF class = "size" THEN Size ELSE OffsetOp

New(v)          == IF class = "size" THEN S!simple_size(v) ELSE O!simple_offset(v)
Fed(r, v)       == IF class = "size" THEN S!Fed(r, v) ELSE O!Fed(r, v)
Outgrown(r, v)  == IF class = "size" THEN S!Outgrown(r, v) ELSE O!Outgrown(r, v)
Successor(r, v) == IF class = "size" THEN S!Successor(r, v) ELSE O!Successor(r, v)

Init ==
  /\ class \in {"size", "offset"}
  /\ live = {} /\ st = [t \in Tracker |-> None]
  /\ instances = [o \in Object |-> 0]
  /\ rep = [o \in Object |-> None] /\ log = [o \in Object |-> <<>>]

\* One tracker more, or less, that shares o.
TakeFaulty(n, o) == n

Take(n, o) == IF o = None THEN n ELSE [n EXCEPT ![o] = @ + 1]
Drop(n, o) == IF o = None THEN n ELSE [n EXCEPT ![o] = @ - 1]

Free == {o \in Object : instances[o] = 0}

\* The memory r, l of objects, once those with no instance are deleted.
Deleting(r, l) ==
  /\ rep' = [o \in Object |-> IF instances'[o] = 0 THEN None ELSE r[o]]
  /\ log' = [o \in Object |-> IF instances'[o] = 0 THEN <<>> ELSE l[o]]

\* The constructors: from nothing, from a value, and from a tracker.
Construct(t) ==
  /\ t \notin live /\ live' = live \cup {t}
  /\ UNCHANGED <<class, st, instances, rep, log>>

ConstructFrom(t, v) ==
  /\ t \notin live /\ live' = live \cup {t}
  /\ \E o \in Free :
       /\ st' = [st EXCEPT ![t] = o]
       /\ instances' = [instances EXCEPT ![o] = 1]
       /\ rep' = [rep EXCEPT ![o] = New(v)]
       /\ log' = [log EXCEPT ![o] = <<v>>]
  /\ UNCHANGED class

Copy(t, u) ==
  /\ t \notin live /\ u \in live
  /\ live' = live \cup {t}
  /\ st' = [st EXCEPT ![t] = st[u]]
  /\ instances' = Take(instances, st[u])
  /\ UNCHANGED <<class, rep, log>>

\* operator=, which lets go of its own representation before it takes another.
Assign(t, u) ==
  /\ t \in live /\ u \in live \ {t} /\ st[u] # None
  /\ st' = [st EXCEPT ![t] = st[u]]
  /\ instances' = Take(Drop(instances, st[t]), st[u])
  /\ Deleting(rep, log)
  /\ UNCHANGED <<class, live>>

Destroy(t) ==
  /\ t \in live /\ live' = live \ {t}
  /\ st' = [st EXCEPT ![t] = None]
  /\ instances' = Drop(instances, st[t])
  /\ Deleting(rep, log)
  /\ UNCHANGED class

\* input, first case: a temporary tracker is constructed, assigned, destroyed.
InputFirst(t, v) ==
  /\ t \in live /\ st[t] = None
  /\ \E o \in Free :
       /\ st' = [st EXCEPT ![t] = o]
       /\ instances' = Drop(Take([instances EXCEPT ![o] = 1], o), o)
       /\ rep' = [rep EXCEPT ![o] = New(v)]
       /\ log' = [log EXCEPT ![o] = <<v>>]
  /\ UNCHANGED <<class, live>>

Feedable(t) == t \in live /\ st[t] # None /\ Len(log[st[t]]) < MaxLog

\* The representation stays, fed, for all who share it.
InputShared(t, v) ==
  /\ Feedable(t) /\ ~Outgrown(rep[st[t]], v)
  /\ rep' = [rep EXCEPT ![st[t]] = Fed(@, v)]
  /\ log' = [log EXCEPT ![st[t]] = Append(@, v)]
  /\ UNCHANGED <<class, live, st, instances>>

\* What the others keep of it: a simple one is left before it is fed.
Left(o, v) ==
  IF rep[o].type = "SIMPLE" THEN log[o] ELSE Append(log[o], v)

\* The tracker goes on with a representation of its own.
InputOutgrown(t, v) ==
  /\ Feedable(t) /\ Outgrown(rep[st[t]], v)
  /\ \E o \in Free :
       /\ st' = [st EXCEPT ![t] = o]
       /\ instances' = [Drop(instances, st[t]) EXCEPT ![o] = 1]
       /\ Deleting([rep EXCEPT ![st[t]] = Fed(@, v),
                               ![o] = Successor(rep[st[t]], v)],
                   [log EXCEPT ![st[t]] = Left(st[t], v),
                               ![o] = Append(log[st[t]], v)])
  /\ UNCHANGED <<class, live>>

Next ==
  \E t \in Tracker :
    \/ Construct(t) \/ Destroy(t)
    \/ \E u \in Tracker : Copy(t, u) \/ Assign(t, u)
    \/ \E v \in Values :
         ConstructFrom(t, v) \/ InputFirst(t, v) \/ InputShared(t, v)
           \/ InputOutgrown(t, v)

Spec == Init /\ [][Next]_vars

-----------------------------------------------------------------------------
Users(o) == {t \in live : st[t] = o}
Seen(o) == {log[o][i] : i \in DOMAIN log[o]}
TimesIn(o, v) == Cardinality({i \in DOMAIN log[o] : log[o][i] = v})

\* The count of a representation is the number of trackers that point to it.
\* Hence none is deleted under a tracker that still uses it, and none is lost,
\* whatever the order of copies, assignments, inputs and destructions.
CountsExact ==
  /\ \A o \in Object : instances[o] = Cardinality(Users(o))
  /\ \A t \in Tracker \ live : st[t] = None

\* A grammar knows what it was fed: each value as often as it came, one symbol
\* for each value, and the values in order.  The symbols of values are map,
\* the values of symbols are inverse.
Knows(o, map, inverse) ==
  /\ rep[o].occurences = Len(log[o])
  /\ DOMAIN rep[o].occ_map = Seen(o) /\ DOMAIN map = Seen(o)
  /\ DOMAIN inverse = 0 .. rep[o].last - 1
  /\ \A v \in Seen(o) : rep[o].occ_map[v] = TimesIn(o, v) /\ inverse[map[v]] = v
  /\ rep[o].o = [i \in DOMAIN log[o] |-> map[log[o][i]]]

\* What o holds is what its history says.
Kept(o) ==
  CASE rep[o].type = "SIMPLE" ->
         log[o] = [i \in 1 .. rep[o].occurences |->
                     IF class = "size" THEN rep[o].size ELSE rep[o].offset]
    [] rep[o].type = "GRAMMAR" /\ class = "size" ->
         Knows(o, rep[o].size_map, rep[o].symbols_size)
    [] rep[o].type = "GRAMMAR" /\ class = "offset" ->
         /\ Knows(o, rep[o].offset_map, rep[o].symbols_offset)
         /\ rep[o].last_off = log[o][Len(log[o])]
    [] rep[o].type = "AVERAGE" -> rep[o].occurences = Len(log[o])
    [] rep[o].type = "FOLLOW" -> Cardinality(Seen(o)) > OffsetLimit

\* No change of representation loses or repeats an observation: what a tracker
\* holds is what its history says, also when others fed it before they left.
HistoryKept == \A o \in Object : instances[o] > 0 => Kept(o)

\* The sum that a mean is computed from is that of all sizes fed, although it is
\* added up anew from how often each came when a grammar is outgrown.
SumsKept ==
  \A o \in Object :
    instances[o] > 0 /\ class = "size" /\ rep[o].type # "SIMPLE" =>
      rep[o].sum = S!MapThenSumSet(LAMBDA i : log[o][i], DOMAIN log[o])

\* A predicted size lies between the smallest and the largest that were seen,
\* also when it is a mean that was rounded; a predicted operation on the
\* offset is one that was seen, or "following".
PredictsSeen ==
  \A o \in Object : instances[o] > 0 =>
    IF class = "size"
    THEN \A p \in S!Predictions(rep[o]) :
           \E v, w \in Seen(o) : v <= p /\ p <= w
    ELSE \A p \in O!Predictions(rep[o]) :
           p \in Seen(o) \/ p.type = "FOLLOWING"

==============================================================================
