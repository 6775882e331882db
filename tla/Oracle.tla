-------------------------------- MODULE Oracle --------------------------------
(***************************************************************************)
(* The Sequitur oracle (oracle.cpp, symbols.cpp) as a state machine.  One  *)
(* call of oracle::input appends a value to the start rule, advances the   *)
(* predictors past it and restores the grammar's two constraints by a      *)
(* cascade of member calls that call each other; `stack` is the C++ call   *)
(* stack, one frame per call whose work is not finished, and every step    *)
(* runs the frame on top up to the next call.  Input is enabled when the   *)
(* stack is empty: the oracle has no threads of its own.                   *)
(***************************************************************************)
EXTENDS Predictors

CONSTANT MaxInput     \* bound: how many values are fed to the oracle

ASSUME MaxInputAssumption == MaxInput \in Nat

VARIABLES g,          \* the heap of module Symbols
          stack,      \* the calls in progress, innermost first
          hist        \* history variable: the values given to input so far

vars == <<g, stack, hist>>

\* oracle::oracle: the start rule and its guard, then the root that uses it.
Start == 1
StartGuard == 1
Root == 2

EmptyHeap ==
  [sym |-> <<>>, rule |-> <<>>, table |-> <<>>, predictions |-> {},
   brk |-> StartGuard, rbrk |-> Start, free |-> <<>>, rfree |-> <<>>,
   stale |-> <<>>]

Init ==
  /\ g = NewSymbol(NewRule(EmptyHeap), Start, Null)
  /\ stack = <<>>
  /\ hist = <<>>

-----------------------------------------------------------------------------
(* The frames.  Check's orNext says that the caller is substitute, which   *)
(* checks the next digram too when this one was not found in the table.    *)

CheckFrame(a, orNext) == [op |-> "check", at |-> a, orNext |-> orNext]
SubstituteFrame(a, r) == [op |-> "substitute", at |-> a, by |-> r]
TidyFrame(r, fresh)   == [op |-> "tidy", by |-> r, fresh |-> fresh]
UpdateFrame(a, c)     == [op |-> "update", at |-> a, done |-> c]
LearnFrame(a)         == [op |-> "learn", at |-> a]

Running(op) == stack # <<>> /\ Head(stack).op = op
Return == Tail(stack)

\* root->compute_next_predictors on value v, then root->update_predictors,
\* which returns at once when nothing was computed: the heap and the frames.
Advance(h, v) == ComputeNextPredictors(h, Root, v)
Updating(h) == IF h.sym[Root].pred /\ h.sym[Root].upd
               THEN [h EXCEPT !.sym[Root].upd = FALSE] ELSE h
UpdateRoot(h) == IF h.sym[Root].pred /\ h.sym[Root].upd
                 THEN <<UpdateFrame(Root, 0)>> ELSE <<>>

-----------------------------------------------------------------------------
\* oracle::input(x), up to its calls: update_predictors leaves the grammar
\* alone, so the node to check, start->last()->prev(), is known already.
Input(x) ==
  /\ stack = <<>>
  /\ Len(hist) < MaxInput
  /\ LET a  == SymbolAddress(g)
         g1 == InsertAfter(NewSymbol(g, x, Start), Last(g, Start), a)
         g2 == Advance(g1, x)
     IN  /\ g' = Updating(g2)
         /\ stack' = UpdateRoot(g2)
                       \o <<CheckFrame(g1.sym[a].p, FALSE), LearnFrame(a)>>
  /\ hist' = Append(hist, x)

\* symbols::update_predictors calls itself on the next child in address order.
UpdateChild ==
  /\ Running("update")
  /\ LET f    == Head(stack)
         todo == ToUpdate(g, f.at, f.done)
     IN  /\ todo # {}
         /\ LET c == CHOOSE d \in todo : \A e \in todo : d <= e
            IN  /\ g' = [g EXCEPT !.sym[c].upd = FALSE]
                /\ stack' = <<UpdateFrame(c, 0), UpdateFrame(f.at, c)>> \o Return
  /\ UNCHANGED hist

\* symbols::update_predictors after its last child.
UpdateSelf ==
  /\ Running("update")
  /\ ToUpdate(g, Head(stack).at, Head(stack).done) = {}
  /\ g' = AdoptNext(g, Head(stack).at)
  /\ stack' = Return
  /\ UNCHANGED hist

-----------------------------------------------------------------------------
(* symbols::check.                                                         *)

\* There is no digram at a: this node or the next one is a guard.
HasDigram(a) == ~IsGuard(g, a) /\ ~IsGuard(g, g.sym[a].n)
Found(a) == HasDigram(a) /\ Digram(g, a) \in DOMAIN g.table
Match(a) == g.table[Digram(g, a)]

OverlapsFaulty(a) == FALSE

\* The table's digram may overlap this one, as in aaa; check then does nothing.
Overlaps(a) == g.sym[Match(a)].n = a

AfterZeroFaulty(f) == IF f.orNext THEN <<CheckFrame(f.at, TRUE)>> ELSE <<>>

\* When check returns 0 to substitute, substitute checks the next digram.
AfterZero(f) == IF f.orNext THEN <<CheckFrame(g.sym[f.at].n, FALSE)>> ELSE <<>>

CheckNoDigram ==
  /\ Running("check")
  /\ ~HasDigram(Head(stack).at)
  /\ stack' = AfterZero(Head(stack)) \o Return
  /\ UNCHANGED <<g, hist>>

CheckNewDigram ==
  /\ Running("check")
  /\ HasDigram(Head(stack).at)
  /\ ~Found(Head(stack).at)
  /\ g' = SetDigram(g, Head(stack).at)
  /\ stack' = AfterZero(Head(stack)) \o Return
  /\ UNCHANGED hist

CheckOverlap ==
  /\ Running("check")
  /\ Found(Head(stack).at)
  /\ Overlaps(Head(stack).at)
  /\ stack' = Return
  /\ UNCHANGED <<g, hist>>

MatchWholeRuleFaulty(m) == IsGuard(g, g.sym[m].p)

\* The table's digram m is a whole rule.
MatchWholeRule(m) ==
  /\ IsGuard(g, g.sym[m].p)
  /\ IsGuard(g, g.sym[g.sym[m].n].n)

\* symbols::match: that rule replaces a.
CheckReuseRule ==
  /\ Running("check")
  /\ LET a == Head(stack).at
     IN  /\ Found(a)
         /\ ~Overlaps(a)
         /\ MatchWholeRule(Match(a))
         /\ LET r == g.sym[g.sym[Match(a)].p].s
            IN  stack' = <<SubstituteFrame(a, r), TidyFrame(r, FALSE)>> \o Return
  /\ UNCHANGED <<g, hist>>

NewRuleCalls(m, a, r) ==
  <<SubstituteFrame(m, r), SubstituteFrame(a, r), TidyFrame(r, TRUE)>>

CheckNewRule ==
  /\ Running("check")
  /\ LET a == Head(stack).at
         r == RuleAddress(g)
     IN  /\ Found(a)
         /\ ~Overlaps(a)
         /\ ~MatchWholeRule(Match(a))
         /\ g' = RuleOfDigram(g, a)
         /\ stack' = NewRuleCalls(Match(a), a, r) \o Return
  /\ UNCHANGED hist

\* symbols::substitute: the call of check it ends with is the next frame.
Substitute ==
  /\ Running("substitute")
  /\ LET f == Head(stack)
     IN  /\ g' = Replace(g, f.at, f.by)
         /\ stack' = <<CheckFrame(g.sym[f.at].p, TRUE)>> \o Return
  /\ UNCHANGED hist

\* The end of symbols::match: a new rule records its digram; a rule whose first
\* node is the last user of its own rule takes that rule in.
UnderusedFaulty(h, r) == FALSE

Underused(h, r) ==
  LET v == h.sym[First(h, r)].s IN NT(v) /\ h.rule[v].count = 1

Tidy ==
  /\ Running("tidy")
  /\ LET f  == Head(stack)
         g1 == IF f.fresh THEN SetDigram(g, First(g, f.by)) ELSE g
     IN  g' = IF Underused(g1, f.by) THEN Expand(g1, First(g1, f.by)) ELSE g1
  /\ stack' = Return
  /\ UNCHANGED hist

\* The end of oracle::input: when no prediction held, look for new predictors
\* and advance them past the node given to input.  The cascade may have freed
\* that node: its raw value is then what its memory holds by now.
RawValue(h, a) == IF a \in DOMAIN h.sym THEN h.sym[a].s ELSE h.stale[a]

LearnFaulty ==
  /\ Running("learn")
  /\ g' = IF g.sym[Root].pred THEN g ELSE FindNewPredictors(g, Last(g, Start))
  /\ stack' = Return
  /\ UNCHANGED hist

Learn ==
  /\ Running("learn")
  /\ IF g.sym[Root].pred
     THEN g' = g /\ stack' = Return
     ELSE LET g1 == FindNewPredictors(g, Last(g, Start))
              g2 == Advance(g1, RawValue(g1, Head(stack).at))
          IN  /\ g' = Updating(g2)
              /\ stack' = UpdateRoot(g2) \o Return
  /\ UNCHANGED hist

Cascade ==
  \/ UpdateChild \/ UpdateSelf
  \/ CheckNoDigram \/ CheckNewDigram \/ CheckOverlap
  \/ CheckReuseRule \/ CheckNewRule
  \/ Substitute \/ Tidy \/ Learn

\* The bounded input is read: the oracle stays as it is.
Finished ==
  /\ stack = <<>> /\ Len(hist) = MaxInput
  /\ UNCHANGED vars

Next == (\E x \in Terminal : Input(x)) \/ Cascade \/ Finished

Spec == Init /\ [][Next]_vars

==============================================================================
