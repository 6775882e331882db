----------------------------- MODULE OracleProofs -----------------------------
(***************************************************************************)
(* Proofs about module Oracle, for any terminals, bound and allocator: the *)
(* calls nest (IsStack), every step of an input keeps the grammar sound    *)
(* (Inductive), and a rule that begins with the only use of another waits  *)
(* to be tidied up (Firsts).  The properties of OracleProperties about the *)
(* grammar follow.  Then what the rules spell: every change of the heap    *)
(* keeps it (Keeps), so the expansion of the start rule is the input, and  *)
(* an iterator reads that (Readable).  Last, every step of an input lowers *)
(* a rank (Lower), so that the input returns (Descent).                    *)
(***************************************************************************)
EXTENDS HeapProofs

\* The frames of a stack nest as the calls of the code do: update_predictors calls
\* only itself, substitute and the check at its end run inside match, and input
\* waits below all.
Nested(s) ==
  \A i \in DOMAIN s :
    /\ s[i].op = "learn" => i = Len(s)
    /\ s[i].op = "update" => \A j \in 1 .. i : s[j].op = "update"
    /\ s[i].op = "substitute" =>
         /\ i + 1 \in DOMAIN s
         /\ s[i + 1].op \in {"substitute", "tidy"}
         /\ s[i + 1].by = s[i].by
    /\ s[i].op = "check" =>
         /\ i + 1 \in DOMAIN s
         /\ s[i + 1].op \in IF s[i].orNext THEN {"substitute", "tidy"}
                            ELSE {"substitute", "tidy", "learn"}

\* The call f may be made with the calls t in progress.
Fits(f, t) ==
  /\ f.op = "learn" => t = <<>>
  /\ f.op # "update" => (t # <<>> => t[1].op # "update")
  /\ f.op = "substitute" =>
       t # <<>> /\ t[1].op \in {"substitute", "tidy"} /\ t[1].by = f.by
  /\ f.op = "check" =>
       /\ t # <<>>
       /\ t[1].op \in IF f.orNext THEN {"substitute", "tidy"}
                      ELSE {"substitute", "tidy", "learn"}

\* A stack is a sequence of some frames, and they nest.
IsStack(s) == (\E F : s \in Seq(F)) /\ Nested(s)

\* A call that fits may be made.
LEMMA Push ==
  ASSUME NEW f, NEW t, IsStack(t), Fits(f, t)
  PROVE  IsStack(<<f>> \o t) /\ <<f>> \o t # <<>> /\ (<<f>> \o t)[1] = f
<1>1. PICK E : t \in Seq(E)
  BY DEF IsStack
<1> DEFINE F == E \cup {f}
           s == <<f>> \o t
<1>2. t \in Seq(F) /\ f \in F
  BY <1>1
<1>3. /\ s \in Seq(F) /\ Len(s) = Len(t) + 1 /\ s[1] = f
      /\ \A i \in 2 .. Len(t) + 1 : s[i] = t[i - 1]
  BY <1>2, Cons
<1>4. Len(t) \in Nat /\ DOMAIN t = 1 .. Len(t) /\ DOMAIN s = 1 .. Len(t) + 1
  BY <1>2, <1>3, LenProperties
<1>5. t = <<>> <=> Len(t) = 0
  BY <1>2, EmptySeq, SeqEqual
<1> HIDE DEF s, F
<1>6. Nested(s)
  <2> SUFFICES ASSUME NEW i \in DOMAIN s
               PROVE  /\ s[i].op = "learn" => i = Len(s)
                      /\ s[i].op = "update" => \A j \in 1 .. i : s[j].op = "update"
                      /\ s[i].op = "substitute" =>
                           /\ i + 1 \in DOMAIN s
                           /\ s[i + 1].op \in {"substitute", "tidy"}
                           /\ s[i + 1].by = s[i].by
                      /\ s[i].op = "check" =>
                           /\ i + 1 \in DOMAIN s
                           /\ s[i + 1].op \in IF s[i].orNext THEN {"substitute", "tidy"}
                                              ELSE {"substitute", "tidy", "learn"}
    BY DEF Nested
  <2>1. CASE i = 1
    <3>1. t # <<>> => 2 \in DOMAIN s /\ s[2] = t[1]
      BY <1>3, <1>4, <1>5
    <3> QED
      BY <2>1, <3>1, <1>3, <1>4, <1>5 DEF Fits
  <2>2. CASE i > 1
    <3> DEFINE k == i - 1
    <3>1. k \in DOMAIN t /\ s[i] = t[k] /\ i = k + 1 /\ t # <<>>
      BY <2>2, <1>3, <1>4, <1>5
    <3>2. k + 1 \in DOMAIN t => i + 1 \in DOMAIN s /\ s[i + 1] = t[k + 1]
      BY <3>1, <1>3, <1>4
    <3>3. /\ t[k].op = "learn" => k = Len(t)
          /\ t[k].op = "update" => \A j \in 1 .. k : t[j].op = "update"
          /\ t[k].op = "substitute" =>
               /\ k + 1 \in DOMAIN t
               /\ t[k + 1].op \in {"substitute", "tidy"}
               /\ t[k + 1].by = t[k].by
          /\ t[k].op = "check" =>
               /\ k + 1 \in DOMAIN t
               /\ t[k + 1].op \in IF t[k].orNext THEN {"substitute", "tidy"}
                                  ELSE {"substitute", "tidy", "learn"}
      BY <3>1 DEF IsStack, Nested
    <3>4. t[k].op = "update" => \A j \in 1 .. i : s[j].op = "update"
      <4> SUFFICES ASSUME t[k].op = "update", NEW j \in 1 .. i
                   PROVE  s[j].op = "update"
        OBVIOUS
      <4>1. \A l \in 1 .. k : t[l].op = "update"
        BY <3>3
      <4>2. CASE j = 1
        <5>1. 1 \in 1 .. k
          BY <3>1, <1>4
        <5>2. f.op = "update"
          BY <4>1, <5>1, <3>1 DEF Fits
        <5> QED
          BY <4>2, <5>2, <1>3
      <4>3. CASE j > 1
        <5>1. j - 1 \in 1 .. k /\ j \in 2 .. Len(t) + 1
          BY <4>3, <3>1, <1>4
        <5> QED
          BY <5>1, <4>1, <1>3
      <4> QED
        BY <4>2, <4>3, <1>4
    <3>5. t[k].op = "learn" => i = Len(s)
      BY <3>1, <3>3, <1>3
    <3> HIDE DEF k
    <3> QED
      BY <3>1, <3>2, <3>3, <3>4, <3>5
  <2> QED
    BY <2>1, <2>2, <1>4
<1>7. s # <<>>
  BY <1>3, <1>4
<1> QED
  BY <1>3, <1>6, <1>7 DEF IsStack, s

\* A call may return: the calls below it nest, and it had to fit on them.
LEMMA Pop ==
  ASSUME NEW s, IsStack(s), s # <<>>
  PROVE  IsStack(Tail(s)) /\ Head(s) = s[1] /\ Fits(Head(s), Tail(s))
<1> DEFINE t == Tail(s)
<1>1. PICK F : s \in Seq(F)
  BY DEF IsStack
<1>2. t \in Seq(F) /\ Len(t) = Len(s) - 1 /\ \A i \in 1 .. Len(t) : t[i] = s[i + 1]
  BY <1>1, HeadTailProperties
<1>3. /\ Len(s) \in Nat /\ Len(t) \in Nat
      /\ DOMAIN s = 1 .. Len(s) /\ DOMAIN t = 1 .. Len(t)
  BY <1>1, <1>2, LenProperties
<1>4. Head(s) = s[1]
  BY <1>1
<1> HIDE DEF t
<1>5. (t = <<>> <=> Len(t) = 0) /\ Len(s) > 0
  <2>1. t = <<>> <=> Len(t) = 0
    BY <1>2, EmptySeq, SeqEqual
  <2>2. s = <<>> <=> Len(s) = 0
    BY <1>1, EmptySeq, SeqEqual
  <2> QED
    BY <2>1, <2>2, <1>3
<1>6. ASSUME NEW i \in DOMAIN s
      PROVE  /\ s[i].op = "learn" => i = Len(s)
             /\ s[i].op = "update" => \A j \in 1 .. i : s[j].op = "update"
             /\ s[i].op = "substitute" =>
                  /\ i + 1 \in DOMAIN s
                  /\ s[i + 1].op \in {"substitute", "tidy"}
                  /\ s[i + 1].by = s[i].by
             /\ s[i].op = "check" =>
                  /\ i + 1 \in DOMAIN s
                  /\ s[i + 1].op \in IF s[i].orNext THEN {"substitute", "tidy"}
                                     ELSE {"substitute", "tidy", "learn"}
  BY DEF IsStack, Nested
<1>7. Nested(t)
  <2> SUFFICES ASSUME NEW i \in DOMAIN t
               PROVE  /\ t[i].op = "learn" => i = Len(t)
                      /\ t[i].op = "update" => \A j \in 1 .. i : t[j].op = "update"
                      /\ t[i].op = "substitute" =>
                           /\ i + 1 \in DOMAIN t
                           /\ t[i + 1].op \in {"substitute", "tidy"}
                           /\ t[i + 1].by = t[i].by
                      /\ t[i].op = "check" =>
                           /\ i + 1 \in DOMAIN t
                           /\ t[i + 1].op \in IF t[i].orNext THEN {"substitute", "tidy"}
                                              ELSE {"substitute", "tidy", "learn"}
    BY DEF Nested
  <2> DEFINE k == i + 1
  <2>1. k \in DOMAIN s /\ t[i] = s[k] /\ k = i + 1 /\ i \in Nat
    BY <1>2, <1>3
  <2>2. k + 1 \in DOMAIN s => i + 1 \in DOMAIN t /\ t[i + 1] = s[k + 1]
    BY <2>1, <1>2, <1>3
  <2>3. t[i].op = "update" => \A j \in 1 .. i : t[j].op = "update"
    <3> SUFFICES ASSUME t[i].op = "update", NEW j \in 1 .. i
                 PROVE  t[j].op = "update"
      OBVIOUS
    <3>1. \A l \in 1 .. k : s[l].op = "update"
      BY <2>1, <1>6
    <3>2. j + 1 \in 1 .. k /\ t[j] = s[j + 1]
      BY <2>1, <1>2, <1>3
    <3> QED
      BY <3>1, <3>2
  <2>4. t[i].op = "learn" => i = Len(t)
    <3>1. s[k].op = "learn" => k = Len(s)
      BY <2>1, <1>6
    <3> QED
      BY <2>1, <3>1, <1>2, <1>3
  <2> HIDE DEF k
  <2> QED
    BY <2>1, <2>2, <2>3, <2>4, <1>6
<1>8. Fits(s[1], t)
  <2>1. 1 \in DOMAIN s
    BY <1>3, <1>5
  <2>2. t # <<>> => 2 \in DOMAIN s /\ t[1] = s[2]
    BY <1>2, <1>3, <1>5
  <2>3. 2 \in DOMAIN s => t # <<>>
    BY <1>2, <1>3, <1>5
  <2>4. s[1].op = "learn" => t = <<>>
    BY <2>1, <1>6, <1>2, <1>3, <1>5
  <2>5. s[1].op # "update" => (t # <<>> => t[1].op # "update")
    <3>1. 2 \in DOMAIN s /\ s[2].op = "update" => s[1].op = "update"
      <4> SUFFICES ASSUME 2 \in DOMAIN s, s[2].op = "update"
                   PROVE  s[1].op = "update"
        OBVIOUS
      <4>1. \A j \in 1 .. 2 : s[j].op = "update"
        BY <1>6
      <4> QED
        BY <4>1
    <3> QED
      BY <2>2, <3>1
  <2> QED
    BY <2>1, <2>2, <2>3, <2>4, <2>5, <1>6 DEF Fits
<1> QED
  BY <1>2, <1>4, <1>7, <1>8 DEF IsStack, t

-----------------------------------------------------------------------------
(* The steps.                                                              *)

\* What a frame may come back to: the frames below the one on top, with what
\* Fits says of the two.
LEMMA TopFits ==
  ASSUME NEW op, IsStack(stack), Running(op)
  PROVE  /\ IsStack(Return)
         /\ Fits(Head(stack), Return)
         /\ Head(stack).op = op
  BY Pop DEF Running, Return

\* AfterZero makes the call of check on the next node, or none.
LEMMA AfterZeroFits ==
  ASSUME IsStack(stack), Running("check")
  PROVE  IsStack(AfterZero(Head(stack)) \o Return)
<1>1. IsStack(Return) /\ Fits(Head(stack), Return) /\ Head(stack).op = "check"
  BY TopFits
<1>2. CASE Head(stack).orNext
  <2> DEFINE f == CheckFrame(g.sym[Head(stack).at].n, FALSE)
  <2>1. f.op = "check" /\ f.orNext = FALSE
    BY DEF CheckFrame
  <2> HIDE DEF f
  <2>2. Fits(f, Return)
    BY <1>1, <1>2, <2>1 DEF Fits
  <2>3. AfterZero(Head(stack)) = <<f>>
    BY <1>2 DEF AfterZero, f
  <2> QED
    BY <1>1, <2>2, <2>3, Push
<1>3. CASE ~Head(stack).orNext
  <2>1. AfterZero(Head(stack)) = <<>>
    BY <1>3 DEF AfterZero
  <2>2. PICK F : Return \in Seq(F)
    BY <1>1 DEF IsStack
  <2> QED
    BY <1>1, <2>1, <2>2, ConcatEmptySeq
<1> QED
  BY <1>2, <1>3

\* Two calls, then three, pushed at once are pushed one on the other.
LEMMA Tuples ==
  ASSUME NEW d, NEW e, NEW f
  PROVE  <<e>> \o <<f>> = <<e, f>> /\ <<d>> \o <<e, f>> = <<d, e, f>>
<1> DEFINE F == {d, e, f}
<1>1. /\ <<d>> \in Seq(F) /\ <<e>> \in Seq(F) /\ <<f>> \in Seq(F)
      /\ <<e, f>> \in Seq(F) /\ <<d, e, f>> \in Seq(F)
  OBVIOUS
<1>2. /\ Len(<<d>>) = 1 /\ Len(<<e>>) = 1 /\ Len(<<f>>) = 1
      /\ Len(<<e, f>>) = 2 /\ Len(<<d, e, f>>) = 3
  OBVIOUS
<1> HIDE DEF F
<1>3. <<e>> \o <<f>> = <<e, f>>
  <2> DEFINE s == <<e>> \o <<f>>
             u == <<e, f>>
  <2>1. s \in Seq(F) /\ Len(s) = 2 /\ s[1] = <<e>>[1] /\ s[2] = <<f>>[1]
    BY <1>1, <1>2, ConcatProperties
  <2>2. u \in Seq(F) /\ Len(u) = 2 /\ u[1] = e /\ u[2] = f
    BY <1>1
  <2>3. s[1] = e /\ s[2] = f
    BY <2>1
  <2> HIDE DEF s, u
  <2>4. \A i \in 1 .. 2 : s[i] = u[i]
    BY <2>2, <2>3
  <2> QED
    BY <2>1, <2>2, <2>4, SeqEqual DEF s, u
<1>4. <<d>> \o <<e, f>> = <<d, e, f>>
  <2> DEFINE o == <<d>>
             p == <<e, f>>
             s == o \o p
             u == <<d, e, f>>
  <2>1. /\ o \in Seq(F) /\ Len(o) = 1 /\ o[1] = d
        /\ p \in Seq(F) /\ Len(p) = 2 /\ p[1] = e /\ p[2] = f
    BY <1>1
  <2>2. u \in Seq(F) /\ Len(u) = 3 /\ u[1] = d /\ u[2] = e /\ u[3] = f
    BY <1>1
  <2> HIDE DEF o, p, u
  <2>3. s \in Seq(F) /\ Len(s) = 3 /\ s[1] = o[1] /\ s[2] = p[1] /\ s[3] = p[2]
    BY <2>1, ConcatProperties
  <2> HIDE DEF s
  <2>4. \A i \in 1 .. 3 : s[i] = u[i]
    BY <2>1, <2>2, <2>3
  <2> QED
    BY <2>2, <2>3, <2>4, SeqEqual DEF o, s, u, p
<1> QED
  BY <1>3, <1>4

\* Two frames pushed at once are two frames pushed in turn.
LEMMA Cons2 ==
  ASSUME NEW t, IsStack(t), NEW e, NEW f
  PROVE  <<e, f>> \o t = <<e>> \o (<<f>> \o t)
<1>1. PICK E : t \in Seq(E)
  BY DEF IsStack
<1> DEFINE F == E \cup {e, f}
           p == <<e>>
           q == <<f>>
<1>2. t \in Seq(F) /\ p \in Seq(F) /\ q \in Seq(F)
  BY <1>1
<1> HIDE DEF F, p, q
<1>3. (p \o q) \o t = p \o (q \o t)
  BY <1>2, ConcatAssociative
<1>4. p \o q = <<e, f>>
  BY Tuples DEF p, q
<1> QED
  BY <1>3, <1>4 DEF p, q

\* So are three.
LEMMA Cons3 ==
  ASSUME NEW t, IsStack(t), NEW d, NEW e, NEW f
  PROVE  <<d, e, f>> \o t = <<d>> \o (<<e>> \o (<<f>> \o t))
<1>1. PICK E : t \in Seq(E)
  BY DEF IsStack
<1> DEFINE F == E \cup {d, e, f}
           p == <<d>>
           q == <<e, f>>
<1>2. t \in Seq(F) /\ p \in Seq(F) /\ q \in Seq(F)
  BY <1>1
<1> HIDE DEF F, p, q
<1>3. (p \o q) \o t = p \o (q \o t)
  BY <1>2, ConcatAssociative
<1>4. p \o q = <<d, e, f>>
  BY Tuples DEF p, q
<1>5. q \o t = <<e>> \o (<<f>> \o t)
  BY Cons2 DEF q
<1> QED
  BY <1>3, <1>4, <1>5 DEF p, q

\* match makes a substitution, or two, and then tidies the rule up.
LEMMA MatchFits ==
  ASSUME NEW t, IsStack(t), t # <<>> => t[1].op # "update",
         NEW m, NEW a, NEW r, NEW fresh
  PROVE  /\ IsStack(<<SubstituteFrame(a, r), TidyFrame(r, fresh)>> \o t)
         /\ IsStack(<<SubstituteFrame(m, r), SubstituteFrame(a, r),
                      TidyFrame(r, fresh)>> \o t)
<1> DEFINE x == TidyFrame(r, fresh)
           y == SubstituteFrame(a, r)
           z == SubstituteFrame(m, r)
<1>1. /\ x.op = "tidy" /\ x.by = r
      /\ y.op = "substitute" /\ y.by = r
      /\ z.op = "substitute" /\ z.by = r
  BY DEF TidyFrame, SubstituteFrame
<1> HIDE DEF x, y, z
<1>2. Fits(x, t)
  BY <1>1 DEF Fits
<1> DEFINE u == <<x>> \o t
<1>3. IsStack(u) /\ u # <<>> /\ u[1] = x
  BY <1>2, Push
<1> HIDE DEF u
<1>4. Fits(y, u)
  BY <1>1, <1>3 DEF Fits
<1> DEFINE v == <<y>> \o u
<1>5. IsStack(v) /\ v # <<>> /\ v[1] = y
  BY <1>3, <1>4, Push
<1> HIDE DEF v
<1>6. Fits(z, v)
  BY <1>1, <1>5 DEF Fits
<1>7. IsStack(<<z>> \o v)
  BY <1>5, <1>6, Push
<1>8. <<y, x>> \o t = v
  <2>1. <<y, x>> \o t = <<y>> \o (<<x>> \o t)
    BY Cons2
  <2> QED
    BY <2>1 DEF u, v
<1>9. <<z, y, x>> \o t = <<z>> \o v
  <2>1. <<z, y, x>> \o t = <<z>> \o (<<y>> \o (<<x>> \o t))
    BY Cons3
  <2> QED
    BY <2>1 DEF u, v
<1> QED
  BY <1>5, <1>7, <1>8, <1>9 DEF x, y, z

\* update_predictors on the root, or nothing, on top of what input has left.
LEMMA UpdateRootFits ==
  ASSUME NEW h, NEW t, IsStack(t)
  PROVE  IsStack(UpdateRoot(h) \o t)
<1>1. CASE h.sym[Root].pred /\ h.sym[Root].upd
  <2> DEFINE f == UpdateFrame(Root, 0)
  <2>1. f.op = "update"
    BY DEF UpdateFrame
  <2> HIDE DEF f
  <2>2. Fits(f, t)
    BY <2>1 DEF Fits
  <2>3. UpdateRoot(h) = <<f>>
    BY <1>1 DEF UpdateRoot, f
  <2> QED
    BY <2>2, <2>3, Push
<1>2. CASE ~(h.sym[Root].pred /\ h.sym[Root].upd)
  <2>1. UpdateRoot(h) = <<>>
    BY <1>2 DEF UpdateRoot
  <2>2. PICK F : t \in Seq(F)
    BY DEF IsStack
  <2> QED
    BY <2>1, <2>2, ConcatEmptySeq
<1> QED
  BY <1>1, <1>2

\* No call is in progress: any frame but substitute and check may be made.
LEMMA EmptyStack == IsStack(<<>>)
  BY EmptySeq DEF IsStack, Nested

\* The calls input makes: check and learn, under the update of the predictors.
LEMMA InputFits ==
  ASSUME NEW h, NEW a, NEW b
  PROVE  IsStack(UpdateRoot(h) \o <<CheckFrame(a, FALSE), LearnFrame(b)>>)
<1> DEFINE f == CheckFrame(a, FALSE)
           l == LearnFrame(b)
<1>1. f.op = "check" /\ f.orNext = FALSE /\ l.op = "learn"
  BY DEF CheckFrame, LearnFrame
<1> HIDE DEF f, l
<1>2. Fits(l, <<>>)
  BY <1>1 DEF Fits
<1>3. <<l>> \o <<>> = <<l>> /\ <<f>> \o <<l>> = <<f, l>>
  <2>1. <<l>> \in Seq({l})
    OBVIOUS
  <2> QED
    BY <2>1, ConcatEmptySeq, Tuples
<1>4. IsStack(<<l>>) /\ <<l>> # <<>> /\ <<l>>[1] = l
  BY <1>2, <1>3, EmptyStack, Push
<1>5. Fits(f, <<l>>)
  BY <1>1, <1>4 DEF Fits
<1>6. IsStack(<<f, l>>)
  BY <1>3, <1>4, <1>5, Push
<1> QED
  BY <1>6, UpdateRootFits DEF f, l

\* Every step leaves a stack.
LEMMA StepFits ==
  ASSUME IsStack(stack), [Next]_vars
  PROVE  IsStack(stack')
<1>1. ASSUME NEW x \in Terminal, Input(x)
      PROVE  IsStack(stack')
  BY <1>1, InputFits DEF Input
<1>2. ASSUME UpdateChild
      PROVE  IsStack(stack')
  <2>1. Running("update")
    BY <1>2 DEF UpdateChild
  <2>2. PICK c, d : stack' = <<UpdateFrame(c, 0), UpdateFrame(d, c)>> \o Return
    BY <1>2 DEF UpdateChild
  <2> DEFINE e == UpdateFrame(c, 0)
             f == UpdateFrame(d, c)
  <2>3. e.op = "update" /\ f.op = "update"
    BY DEF UpdateFrame
  <2> HIDE DEF e, f
  <2>4. IsStack(Return)
    BY <2>1, TopFits
  <2>5. Fits(f, Return)
    BY <2>3 DEF Fits
  <2>6. IsStack(<<f>> \o Return)
    BY <2>4, <2>5, Push
  <2>7. Fits(e, <<f>> \o Return)
    BY <2>3 DEF Fits
  <2>8. IsStack(<<e>> \o (<<f>> \o Return))
    BY <2>6, <2>7, Push
  <2>9. stack' = <<e>> \o (<<f>> \o Return)
    BY <2>2, <2>4, Cons2 DEF e, f
  <2> QED
    BY <2>8, <2>9
<1>3. ASSUME UpdateSelf
      PROVE  IsStack(stack')
  BY <1>3, TopFits DEF UpdateSelf
<1>4. ASSUME CheckNoDigram
      PROVE  IsStack(stack')
  BY <1>4, AfterZeroFits DEF CheckNoDigram
<1>5. ASSUME CheckNewDigram
      PROVE  IsStack(stack')
  BY <1>5, AfterZeroFits DEF CheckNewDigram
<1>6. ASSUME CheckOverlap
      PROVE  IsStack(stack')
  BY <1>6, TopFits DEF CheckOverlap
<1>7. ASSUME Running("check")
      PROVE  IsStack(Return) /\ (Return # <<>> => Return[1].op # "update")
  BY <1>7, TopFits DEF Fits
<1>8. ASSUME CheckReuseRule
      PROVE  IsStack(stack')
  <2>1. Running("check")
    BY <1>8 DEF CheckReuseRule
  <2>2. PICK a, r : stack' = <<SubstituteFrame(a, r), TidyFrame(r, FALSE)>> \o Return
    BY Zenon, <1>8 DEF CheckReuseRule
  <2> QED
    BY <2>1, <2>2, <1>7, MatchFits
<1>9. ASSUME CheckNewRule
      PROVE  IsStack(stack')
  <2>1. Running("check")
    BY <1>9 DEF CheckNewRule
  <2>2. PICK m, a, r :
          stack' = <<SubstituteFrame(m, r), SubstituteFrame(a, r),
                     TidyFrame(r, TRUE)>> \o Return
    BY <1>9 DEF CheckNewRule, NewRuleCalls
  <2> QED
    BY <2>1, <2>2, <1>7, MatchFits
<1>10. ASSUME Substitute
       PROVE  IsStack(stack')
  <2>1. PICK a : stack' = <<CheckFrame(a, TRUE)>> \o Return
    BY <1>10 DEF Substitute
  <2> DEFINE f == CheckFrame(a, TRUE)
  <2>2. f.op = "check" /\ f.orNext = TRUE
    BY DEF CheckFrame
  <2> HIDE DEF f
  <2>3. /\ IsStack(Return) /\ Fits(Head(stack), Return)
        /\ Head(stack).op = "substitute"
    BY <1>10, TopFits DEF Substitute
  <2>4. Fits(f, Return)
    BY <2>2, <2>3 DEF Fits
  <2>5. stack' = <<f>> \o Return
    BY <2>1 DEF f
  <2> QED
    BY <2>3, <2>4, <2>5, Push
<1>11. ASSUME Tidy
       PROVE  IsStack(stack')
  BY <1>11, TopFits DEF Tidy
<1>12. ASSUME Learn
       PROVE  IsStack(stack')
  <2>1. IsStack(Return)
    BY <1>12, TopFits DEF Learn
  <2>2. stack' = Return \/ \E h : stack' = UpdateRoot(h) \o Return
    BY <1>12 DEF Learn
  <2> QED
    BY <2>1, <2>2, UpdateRootFits
<1>13. ASSUME Finished \/ UNCHANGED vars
       PROVE  IsStack(stack')
  BY <1>13 DEF Finished, vars
<1> QED
  BY <1>1, <1>2, <1>3, <1>4, <1>5, <1>6, <1>8, <1>9, <1>10, <1>11, <1>12, <1>13
  DEF Next, Cascade

-----------------------------------------------------------------------------
(* What the calls in progress may count on.                                 *)

\* No node but b has the value r.
Sole(h, b, r) == \A c \in DOMAIN h.sym \ Guards(h) : h.sym[c].s = r => c = b

\* Node a starts the last digram of the start rule, and no entry is a's.
Ends(h, a) ==
  /\ a \in Linked(h) /\ h.sym[a].n = Last(h, Start)
  /\ Last(h, Start) \in Inner(h) /\ NoEntry(h, a)

\* The digram at a ends the start rule and is the one that r stands for.
Target(h, a, r) ==
  /\ r \in DOMAIN h.rule \ {Start} /\ Pair(h, r)
  /\ a \in Inner(h) /\ h.sym[a].n \in Inner(h) /\ h.sym[a].n = Last(h, Start)
  /\ h.sym[a].s = h.sym[First(h, r)].s
  /\ h.sym[h.sym[a].n].s = h.sym[Last(h, r)].s

\* The digram at m is the one at a, elsewhere; r is to replace both.
FirstTarget(h, m, a, r) ==
  /\ m \in Inner(h) /\ h.sym[m].n \in Inner(h)
  /\ a \in Inner(h) /\ h.sym[a].n \in Inner(h)
  /\ m # a /\ h.sym[m].n # a
  /\ h.sym[m].s = h.sym[a].s /\ h.sym[h.sym[m].n].s = h.sym[h.sym[a].n].s
  /\ Unused(h, r) /\ ~Whole(h, m)

\* The node after q, or b, is the only one of value r, and no entry is theirs.
BeforeNew(h, q, r) ==
  /\ q \in Linked(h) /\ h.sym[q].n \in Inner(h) /\ h.sym[h.sym[q].n].s = r
  /\ Sole(h, h.sym[q].n, r) /\ NoEntry(h, q) /\ NoEntry(h, h.sym[q].n)
\* A check at the new node of a rule that has no other.
AtNew(h, b, r) ==
  /\ b \in Inner(h) /\ h.sym[b].s = r /\ Sole(h, b, r) /\ NoEntry(h, b)

\* What call f, made by call e, may count on.
Over(h, f, e) ==
  /\ f.op = "check" /\ e.op = "learn" => Ends(h, f.at)
  /\ f.op = "check" /\ e.op = "tidy" =>
       IF f.orNext THEN Ends(h, f.at) /\ h.sym[h.sym[f.at].n].s = e.by
                   ELSE f.at = Last(h, Start)
  /\ f.op = "check" /\ e.op = "substitute" =>
       IF f.orNext THEN BeforeNew(h, f.at, e.by) ELSE AtNew(h, f.at, e.by)
  /\ f.op = "substitute" /\ e.op = "tidy" => Target(h, f.at, f.by)
  /\ f.op = "substitute" /\ e.op = "substitute" => FirstTarget(h, f.at, e.at, f.by)
  /\ f.op = "tidy" /\ e.op = "tidy" => h.sym[Last(h, f.by)].s = e.by

\* A rule that is going to be tidied has two symbols.
Tidied(h, r) == r \in DOMAIN h.rule \ {Start} /\ Pair(h, r)

\* Calls that only wait for a rule to be tidied up, or for learning.
Waits(t) == \A j \in DOMAIN t : t[j].op \in {"tidy", "learn"}

\* What every frame knows of the one it returns to, and of those further down.
Held(h, s) ==
  /\ \A i \in DOMAIN s : i + 1 \in DOMAIN s => Over(h, s[i], s[i + 1])
  /\ \A i \in DOMAIN s : s[i].op = "tidy" => Tidied(h, s[i].by)
  /\ \A i, j \in DOMAIN s : i + 2 <= j /\ s[i].op # "update" => s[j].op \in {"tidy", "learn"}
  /\ \A i, j \in DOMAIN s : i < j /\ s[i].op = "tidy" =>
        /\ s[j].op \in {"tidy", "learn"}
        /\ s[j].op = "tidy" => s[j].by # s[i].by

\* Call f may be made with the calls t in progress.
Rests(h, f, t) ==
  /\ t # <<>> => Over(h, f, t[1])
  /\ f.op = "tidy" => Tidied(h, f.by)
  /\ f.op # "update" => \A j \in DOMAIN t : 2 <= j => t[j].op \in {"tidy", "learn"}
  /\ f.op = "tidy" =>
       \A j \in DOMAIN t : /\ t[j].op \in {"tidy", "learn"}
                           /\ t[j].op = "tidy" => t[j].by # f.by

\* The positions of a stack.
LEMMA Positions ==
  ASSUME NEW t, IsStack(t), NEW f
  PROVE  LET s == <<f>> \o t
         IN  /\ Len(t) \in Nat /\ DOMAIN t = 1 .. Len(t) /\ DOMAIN s = 1 .. Len(t) + 1
             /\ s[1] = f /\ \A i \in DOMAIN t : s[i + 1] = t[i]
             /\ \A i \in DOMAIN s : i = 1 \/ (i - 1 \in DOMAIN t /\ s[i] = t[i - 1])
             /\ t = <<>> <=> Len(t) = 0
             /\ s # <<>> /\ Head(s) = f /\ Tail(s) = t
<1>1. PICK E : t \in Seq(E)
  BY DEF IsStack
<1> DEFINE F == E \cup {f}
           s == <<f>> \o t
<1>2. t \in Seq(F) /\ f \in F
  BY <1>1
<1> HIDE DEF F
<1>3. /\ s \in Seq(F) /\ Len(s) = Len(t) + 1 /\ s[1] = f
      /\ \A i \in 1 .. Len(t) : s[i + 1] = t[i]
      /\ \A i \in 2 .. Len(t) + 1 : s[i] = t[i - 1]
  BY <1>2, Cons
<1>4. Len(t) \in Nat /\ DOMAIN t = 1 .. Len(t) /\ DOMAIN s = 1 .. Len(t) + 1
  BY <1>2, <1>3, LenProperties
<1>5. t = <<>> <=> Len(t) = 0
  BY <1>2, EmptySeq, SeqEqual
<1> HIDE DEF s
<1>6. s # <<>>
  BY <1>3, <1>4
<1>7. Head(s) = f
  BY <1>3, <1>6
<1>8. Tail(s) = t
  <2> DEFINE u == Tail(s)
  <2>1. u \in Seq(F) /\ Len(u) = Len(s) - 1 /\ \A i \in 1 .. Len(u) : u[i] = s[i + 1]
    BY <1>3, <1>6, HeadTailProperties
  <2> HIDE DEF u
  <2>2. Len(u) = Len(t) /\ \A i \in 1 .. Len(t) : u[i] = t[i]
    BY <2>1, <1>3, <1>4
  <2>3. u = t
    BY <2>1, <2>2, <1>2, SeqEqual
  <2> QED
    BY <2>3 DEF u
<1> QED
  BY <1>3, <1>4, <1>5, <1>6, <1>7, <1>8 DEF s

\* A stack that is not empty is a call on the calls below it.
LEMMA Decons ==
  ASSUME NEW s, IsStack(s), s # <<>>
  PROVE  s = <<Head(s)>> \o Tail(s) /\ IsStack(Tail(s))
<1>1. PICK F : s \in Seq(F)
  BY DEF IsStack
<1>2. Head(s) \in F /\ Tail(s) \in Seq(F) /\ <<Head(s)>> \in Seq(F)
  BY <1>1, HeadTailProperties
<1>3. s = <<Head(s)>> \o Tail(s)
  <2> DEFINE u == <<Head(s)>> \o Tail(s)
             f == Head(s)
             t == Tail(s)
  <2>1. /\ Len(t) = Len(s) - 1 /\ \A i \in 1 .. Len(t) : t[i] = s[i + 1]
        /\ Len(s) \in Nat /\ Len(t) \in Nat /\ f = s[1]
    BY <1>1, <1>2, HeadTailProperties, LenProperties
  <2>2. /\ u \in Seq(F) /\ Len(u) = Len(t) + 1 /\ u[1] = f
        /\ \A i \in 2 .. Len(t) + 1 : u[i] = t[i - 1]
    BY <1>2, Cons
  <2> HIDE DEF u, f, t
  <2>3. ASSUME NEW i \in 1 .. Len(s) PROVE s[i] = u[i]
    <3>1. CASE i = 1
      BY <3>1, <2>1, <2>2
    <3>2. CASE i # 1
      <4>1. i \in 2 .. Len(t) + 1 /\ i - 1 \in 1 .. Len(t) /\ (i - 1) + 1 = i
        BY <3>2, <2>1
      <4>2. u[i] = t[i - 1] /\ t[i - 1] = s[(i - 1) + 1]
        BY <4>1, <2>1, <2>2
      <4> QED
        BY <4>1, <4>2
    <3> QED
      BY <3>1, <3>2
  <2>4. Len(s) = Len(u)
    BY <2>1, <2>2
  <2>5. s = u
    BY <2>2, <2>3, <2>4, <1>1, SeqEqual
  <2> QED
    BY <2>5 DEF u
<1>4. IsStack(Tail(s))
  BY Pop
<1> QED
  BY <1>3, <1>4

\* Pushing a frame that fits the stack keeps this, and so does popping one.
LEMMA HeldPush ==
  ASSUME NEW h, NEW f, NEW t, IsStack(t), Held(h, t), Rests(h, f, t)
  PROVE  Held(h, <<f>> \o t)
<1> DEFINE s == <<f>> \o t
<1>1. /\ Len(t) \in Nat /\ DOMAIN t = 1 .. Len(t) /\ DOMAIN s = 1 .. Len(t) + 1
      /\ s[1] = f
      /\ \A i \in DOMAIN s : i = 1 \/ (i - 1 \in DOMAIN t /\ s[i] = t[i - 1])
      /\ t = <<>> <=> Len(t) = 0
  BY Positions
<1> HIDE DEF s
<1>2. ASSUME NEW i \in DOMAIN s, i + 1 \in DOMAIN s PROVE Over(h, s[i], s[i + 1])
  <2>1. i + 1 # 1 /\ i \in DOMAIN t /\ s[i + 1] = t[i]
    BY <1>1, <1>2
  <2>2. CASE i = 1
    BY <2>1, <2>2, <1>1 DEF Rests
  <2>3. CASE i # 1
    <3> DEFINE j == i - 1
    <3>1. j \in DOMAIN t /\ s[i] = t[j] /\ j + 1 = i
      BY <2>3, <1>1
    <3> HIDE DEF j
    <3>2. Over(h, t[j], t[j + 1])
      BY <3>1, <2>1 DEF Held
    <3> QED
      BY <3>1, <3>2, <2>1
  <2> QED
    BY <2>2, <2>3
<1>3. ASSUME NEW i \in DOMAIN s, s[i].op = "tidy" PROVE Tidied(h, s[i].by)
  BY <1>1, <1>3 DEF Rests, Held
<1>4. ASSUME NEW i \in DOMAIN s, NEW j \in DOMAIN s, i + 2 <= j, s[i].op # "update"
      PROVE  s[j].op \in {"tidy", "learn"}
  <2>1. j # 1 /\ j - 1 \in DOMAIN t /\ s[j] = t[j - 1]
    BY <1>1, <1>4
  <2>2. CASE i = 1
    BY <2>1, <2>2, <1>1, <1>4 DEF Rests
  <2>3. CASE i # 1
    <3>1. i - 1 \in DOMAIN t /\ s[i] = t[i - 1] /\ (i - 1) + 2 <= j - 1
      BY <2>3, <1>1, <1>4
    <3> QED
      BY <3>1, <2>1, <1>4 DEF Held
  <2> QED
    BY <2>2, <2>3
<1>5. ASSUME NEW i \in DOMAIN s, NEW j \in DOMAIN s, i < j, s[i].op = "tidy"
      PROVE  s[j].op \in {"tidy", "learn"} /\ (s[j].op = "tidy" => s[j].by # s[i].by)
  <2>1. j # 1 /\ j - 1 \in DOMAIN t /\ s[j] = t[j - 1]
    BY <1>1, <1>5
  <2>2. CASE i = 1
    BY <2>1, <2>2, <1>1, <1>5 DEF Rests
  <2>3. CASE i # 1
    <3>1. i - 1 \in DOMAIN t /\ s[i] = t[i - 1] /\ i - 1 < j - 1
      BY <2>3, <1>1, <1>5
    <3> QED
      BY <3>1, <2>1, <1>5 DEF Held
  <2> QED
    BY <2>2, <2>3
<1> QED
  BY <1>2, <1>3, <1>4, <1>5 DEF Held, s

\* What is held of a stack is held of the calls below the top one.
LEMMA HeldPop ==
  ASSUME NEW h, NEW s, IsStack(s), s # <<>>, Held(h, s)
  PROVE  IsStack(Tail(s)) /\ Held(h, Tail(s)) /\ Rests(h, Head(s), Tail(s))
<1> DEFINE f == Head(s)
           t == Tail(s)
<1>1. s = <<f>> \o t /\ IsStack(t)
  BY Decons
<1> HIDE DEF f, t
<1>2. /\ Len(t) \in Nat /\ DOMAIN t = 1 .. Len(t) /\ DOMAIN s = 1 .. Len(t) + 1
      /\ s[1] = f /\ \A i \in DOMAIN t : s[i + 1] = t[i]
      /\ t = <<>> <=> Len(t) = 0
  BY <1>1, Positions
<1>3. \A i \in DOMAIN t : i + 1 \in DOMAIN s
  BY <1>2
<1>4. Held(h, t)
  <2>1. ASSUME NEW i \in DOMAIN t, i + 1 \in DOMAIN t PROVE Over(h, t[i], t[i + 1])
    <3>1. i + 1 \in DOMAIN s /\ (i + 1) + 1 \in DOMAIN s /\ s[i + 1] = t[i] /\ s[(i + 1) + 1] = t[i + 1]
      BY <2>1, <1>2, <1>3
    <3> QED
      BY <3>1 DEF Held
  <2>2. ASSUME NEW i \in DOMAIN t, t[i].op = "tidy" PROVE Tidied(h, t[i].by)
    BY <2>2, <1>2, <1>3 DEF Held
  <2>3. ASSUME NEW i \in DOMAIN t, NEW j \in DOMAIN t, i + 2 <= j, t[i].op # "update"
        PROVE  t[j].op \in {"tidy", "learn"}
    <3>1. i + 1 \in DOMAIN s /\ j + 1 \in DOMAIN s /\ s[i + 1] = t[i] /\ s[j + 1] = t[j]
          /\ (i + 1) + 2 <= j + 1
      BY <2>3, <1>2, <1>3
    <3> QED
      BY <3>1, <2>3 DEF Held
  <2>4. ASSUME NEW i \in DOMAIN t, NEW j \in DOMAIN t, i < j, t[i].op = "tidy"
        PROVE  t[j].op \in {"tidy", "learn"} /\ (t[j].op = "tidy" => t[j].by # t[i].by)
    <3>1. i + 1 \in DOMAIN s /\ j + 1 \in DOMAIN s /\ s[i + 1] = t[i] /\ s[j + 1] = t[j]
          /\ i + 1 < j + 1
      BY <2>4, <1>2, <1>3
    <3> QED
      BY <3>1, <2>4 DEF Held
  <2> QED
    BY <2>1, <2>2, <2>3, <2>4 DEF Held
<1>5. Rests(h, f, t)
  <2>0. 1 \in DOMAIN s
    BY <1>2
  <2>1. t # <<>> => Over(h, f, t[1])
    <3> SUFFICES ASSUME t # <<>> PROVE Over(h, s[1], s[1 + 1])
      BY <1>2
    <3>1. 1 + 1 \in DOMAIN s
      BY <1>2
    <3> QED
      BY <3>1, <2>0 DEF Held
  <2>2. f.op = "tidy" => Tidied(h, f.by)
    BY <2>0, <1>2 DEF Held
  <2>3. ASSUME f.op # "update", NEW j \in DOMAIN t, 2 <= j
        PROVE  t[j].op \in {"tidy", "learn"}
    <3>1. j + 1 \in DOMAIN s /\ s[j + 1] = t[j] /\ 1 + 2 <= j + 1
      BY <2>3, <1>2, <1>3
    <3> QED
      BY <3>1, <2>0, <2>3, <1>2 DEF Held
  <2>4. ASSUME f.op = "tidy", NEW j \in DOMAIN t
        PROVE  t[j].op \in {"tidy", "learn"} /\ (t[j].op = "tidy" => t[j].by # f.by)
    <3>1. j + 1 \in DOMAIN s /\ s[j + 1] = t[j] /\ 1 < j + 1
      BY <2>4, <1>2, <1>3
    <3> QED
      BY <3>1, <2>0, <2>4, <1>2 DEF Held
  <2> QED
    BY <2>1, <2>2, <2>3, <2>4 DEF Rests
<1> QED
  BY <1>1, <1>4, <1>5 DEF f, t

\* Nothing is held of no calls.
LEMMA HeldEmpty ==
  ASSUME NEW h
  PROVE  Held(h, <<>>)
  BY DEF Held

\* Calls that wait look only at the rules they wait to tidy up.
LEMMA HeldKept ==
  ASSUME NEW h, NEW k, NEW t, Held(h, t), Waits(t),
         \A r : (\E j \in DOMAIN t : t[j].op = "tidy" /\ t[j].by = r) =>
            Tidied(k, r) /\ k.sym[Last(k, r)].s = h.sym[Last(h, r)].s
  PROVE  Held(k, t)
<1>1. ASSUME NEW i \in DOMAIN t, i + 1 \in DOMAIN t PROVE Over(k, t[i], t[i + 1])
  <2>1. t[i].op \in {"tidy", "learn"} /\ t[i + 1].op \in {"tidy", "learn"}
    BY <1>1 DEF Waits
  <2>2. Over(h, t[i], t[i + 1])
    BY <1>1 DEF Held
  <2>3. t[i].op = "tidy" => k.sym[Last(k, t[i].by)].s = h.sym[Last(h, t[i].by)].s
    OBVIOUS
  <2>4. ASSUME t[i].op = "tidy", t[i + 1].op = "tidy"
        PROVE  k.sym[Last(k, t[i].by)].s = t[i + 1].by
    BY <2>2, <2>3, <2>4 DEF Over
  <2> QED
    BY <2>1, <2>4 DEF Over
<1>2. \A i \in DOMAIN t : t[i].op = "tidy" => Tidied(k, t[i].by)
  OBVIOUS
<1> QED
  BY <1>1, <1>2 DEF Held

\* No call but check looks at the digram table.
LEMMA HeldTable ==
  ASSUME NEW h, NEW k, NEW t, Held(h, t), k.sym = h.sym, k.rule = h.rule,
         \A j \in DOMAIN t : t[j].op # "check"
  PROVE  Held(k, t)
<1>1. /\ Guards(k) = Guards(h) /\ Linked(k) = Linked(h) /\ Inner(k) = Inner(h)
      /\ \A r : First(k, r) = First(h, r) /\ Last(k, r) = Last(h, r)
  BY DEF Guards, Linked, Inner, First, Last
<1>2. \A r : Tidied(k, r) <=> Tidied(h, r)
  BY DEF Tidied, Pair
<1>3. \A a, r : Target(k, a, r) <=> Target(h, a, r)
  BY Zenon, <1>1 DEF Target, Pair
<1>4. \A m, a, r : FirstTarget(k, m, a, r) <=> FirstTarget(h, m, a, r)
  BY <1>1 DEF FirstTarget, Unused, Whole
<1>5. ASSUME NEW i \in DOMAIN t, i + 1 \in DOMAIN t PROVE Over(k, t[i], t[i + 1])
  <2>1. Over(h, t[i], t[i + 1])
    BY <1>5 DEF Held
  <2> QED
    BY <2>1, <1>1, <1>3, <1>4 DEF Over
<1> QED
  BY <1>2, <1>5 DEF Held

-----------------------------------------------------------------------------
(* Every rule is used, but the new one that is about to replace two digrams. *)

\* The rule that waits for its first use: the frame on top makes it.
Coming(s, r) ==
  2 \in DOMAIN s /\ s[1].op = "substitute" /\ s[2].op = "substitute" /\ s[1].by = r
\* Every other rule but the start rule has a use.
InUse(h, s) == \A r \in DOMAIN h.rule \ {Start} : Used(h, r) \/ Coming(s, r)

\* What does not touch the lists changes nothing of this.
LEMMA SameSound ==
  ASSUME NEW h, Sound(h), NEW k, Same(h, k)
  PROVE  /\ Sound(k)
         /\ \A s : Held(h, s) => Held(k, s)
         /\ \A s : InUse(h, s) => InUse(k, s)
<1>1. /\ Core(k) /\ (\E rk : Ranking(k, rk))
      /\ Guards(k) = Guards(h) /\ Linked(k) = Linked(h) /\ Inner(k) = Inner(h)
  BY SameCore DEF Sound
<1>2. /\ DOMAIN k.sym = DOMAIN h.sym /\ k.rule = h.rule /\ k.table = h.table
      /\ \A a \in DOMAIN h.sym :
           /\ k.sym[a].n = h.sym[a].n /\ k.sym[a].p = h.sym[a].p
           /\ k.sym[a].s = h.sym[a].s /\ k.sym[a].owner = h.sym[a].owner
  BY DEF Same, SameLists
<1>3. Core(h) /\ Long(h) /\ Rooted(h)
  BY DEF Sound
<1>4. \A a \in Linked(h) : a \in DOMAIN h.sym /\ h.sym[a].n \in Linked(h) /\ h.sym[a].p \in Linked(h)
  BY <1>3, Lists
<1>5. \A r \in DOMAIN h.rule : h.rule[r].guard \in Linked(h)
  BY <1>3, GuardNodes
<1>6. \A a \in Linked(h) : k.sym[k.sym[a].n].n = h.sym[h.sym[a].n].n
                        /\ k.sym[k.sym[k.sym[a].n].n].n = h.sym[h.sym[h.sym[a].n].n].n
  <2> SUFFICES ASSUME NEW a \in Linked(h)
               PROVE  /\ k.sym[k.sym[a].n].n = h.sym[h.sym[a].n].n
                      /\ k.sym[k.sym[k.sym[a].n].n].n = h.sym[h.sym[h.sym[a].n].n].n
    OBVIOUS
  <2>1. h.sym[a].n \in Linked(h) /\ h.sym[h.sym[a].n].n \in Linked(h)
    BY <1>4
  <2>2. k.sym[a].n = h.sym[a].n /\ k.sym[h.sym[a].n].n = h.sym[h.sym[a].n].n
        /\ k.sym[h.sym[h.sym[a].n].n].n = h.sym[h.sym[h.sym[a].n].n].n
    BY <2>1, <1>2, <1>4
  <2> QED
    BY <2>2
<1>7. Long(k)
  <2> SUFFICES ASSUME NEW r \in DOMAIN k.rule \ {Start}
               PROVE  LET q == k.rule[r].guard
                      IN  k.sym[q].n # q /\ k.sym[k.sym[q].n].n # q
    BY DEF Long
  <2> DEFINE q == h.rule[r].guard
  <2>1. h.sym[q].n # q /\ h.sym[h.sym[q].n].n # q
    BY <1>2, <1>3 DEF Long
  <2>2. q \in Linked(h) /\ k.rule[r].guard = q
    BY <1>2, <1>5
  <2> HIDE DEF q
  <2>3. k.sym[q].n = h.sym[q].n
    BY <2>2, <1>2, <1>4
  <2> QED
    BY <2>1, <2>2, <2>3, <1>6
<1>8. Rooted(k)
  BY <1>1, <1>2, <1>3 DEF Rooted
<1>9. \A r \in DOMAIN h.rule :
        /\ First(k, r) = First(h, r) /\ Last(k, r) = Last(h, r)
        /\ k.sym[First(k, r)].s = h.sym[First(h, r)].s /\ k.sym[Last(k, r)].s = h.sym[Last(h, r)].s
        /\ Pair(k, r) <=> Pair(h, r)
  <2> SUFFICES ASSUME NEW r \in DOMAIN h.rule
               PROVE  /\ First(k, r) = First(h, r) /\ Last(k, r) = Last(h, r)
                      /\ k.sym[First(k, r)].s = h.sym[First(h, r)].s
                      /\ k.sym[Last(k, r)].s = h.sym[Last(h, r)].s
                      /\ Pair(k, r) <=> Pair(h, r)
    OBVIOUS
  <2> DEFINE q == h.rule[r].guard
  <2>1. q \in Linked(h) /\ h.sym[q].n \in Linked(h) /\ h.sym[q].p \in Linked(h) /\ k.rule[r].guard = q
    BY <1>2, <1>4, <1>5
  <2>2. First(h, r) = h.sym[q].n /\ First(k, r) = k.sym[q].n
        /\ Last(h, r) = h.sym[q].p /\ Last(k, r) = k.sym[q].p
    BY <1>2 DEF First, Last
  <2>5. h.rule[r].guard = q
    OBVIOUS
  <2> HIDE DEF q
  <2>3. k.sym[q].n = h.sym[q].n /\ k.sym[q].p = h.sym[q].p
        /\ k.sym[h.sym[q].n].s = h.sym[h.sym[q].n].s /\ k.sym[h.sym[q].p].s = h.sym[h.sym[q].p].s
    BY <2>1, <1>2, <1>4
  <2>4. Pair(k, r) <=> Pair(h, r)
    <3>1. Pair(h, r) <=> /\ h.sym[q].n # q /\ h.sym[h.sym[q].n].n # q
                         /\ h.sym[q].n # h.sym[h.sym[q].n].n
                         /\ h.sym[h.sym[h.sym[q].n].n].n = q
      BY <2>5 DEF Pair
    <3>2. Pair(k, r) <=> /\ k.sym[q].n # q /\ k.sym[k.sym[q].n].n # q
                         /\ k.sym[q].n # k.sym[k.sym[q].n].n
                         /\ k.sym[k.sym[k.sym[q].n].n].n = q
      BY <2>1 DEF Pair
    <3>3. /\ k.sym[k.sym[q].n].n = h.sym[h.sym[q].n].n
          /\ k.sym[k.sym[k.sym[q].n].n].n = h.sym[h.sym[h.sym[q].n].n].n
      BY <2>1, <1>6
    <3> QED
      BY <3>1, <3>2, <3>3, <2>3
  <2> QED
    BY <2>2, <2>3, <2>4
<1>10. \A a : NoEntry(k, a) <=> NoEntry(h, a)
  BY <1>2 DEF NoEntry
<1>11. \A a \in Inner(h) : a \in DOMAIN h.sym /\ h.sym[a].n \in DOMAIN h.sym
                           /\ h.sym[h.sym[a].n].n \in DOMAIN h.sym /\ h.sym[a].p \in DOMAIN h.sym
  <2>1. \A a \in Inner(h) : a \in Linked(h)
    BY <1>3, Lists
  <2> QED
    BY <2>1, <1>4
<1>12. ASSUME NEW s, Held(h, s) PROVE Held(k, s)
  <2>1. ASSUME NEW a, Ends(h, a) PROVE Ends(k, a)
    <3>1. a \in Linked(h) /\ h.sym[a].n = Last(h, Start) /\ Last(h, Start) \in Inner(h) /\ NoEntry(h, a)
      BY <2>1 DEF Ends
    <3>2. a \in DOMAIN h.sym /\ k.sym[a].n = h.sym[a].n
      BY <3>1, <1>2, <1>4
    <3>3. Last(k, Start) = Last(h, Start)
      BY <1>3, <1>9 DEF Rooted
    <3> QED
      BY <3>1, <3>2, <3>3, <1>1, <1>10 DEF Ends
  <2>2. \A r : Tidied(h, r) => Tidied(k, r)
    BY <1>2, <1>9 DEF Tidied
  <2>3. ASSUME NEW a, NEW r, Target(h, a, r) PROVE Target(k, a, r)
    <3>1. /\ r \in DOMAIN h.rule \ {Start} /\ Pair(h, r)
          /\ a \in Inner(h) /\ h.sym[a].n \in Inner(h) /\ h.sym[a].n = Last(h, Start)
          /\ h.sym[a].s = h.sym[First(h, r)].s
          /\ h.sym[h.sym[a].n].s = h.sym[Last(h, r)].s
      BY <2>3 DEF Target
    <3>2. Last(k, Start) = Last(h, Start)
      BY <1>3, <1>9 DEF Rooted
    <3>3. /\ Pair(k, r) /\ k.sym[First(k, r)].s = h.sym[First(h, r)].s
          /\ k.sym[Last(k, r)].s = h.sym[Last(h, r)].s
      BY <3>1, <1>9
    <3>4. k.sym[a].n = h.sym[a].n /\ k.sym[a].s = h.sym[a].s /\ k.sym[h.sym[a].n].s = h.sym[h.sym[a].n].s
      BY <3>1, <1>2, <1>11
    <3> QED
      BY <3>1, <3>2, <3>3, <3>4, <1>1, <1>2 DEF Target
  <2>4. ASSUME NEW m, NEW a, NEW r, FirstTarget(h, m, a, r) PROVE FirstTarget(k, m, a, r)
    <3>1. /\ m \in Inner(h) /\ h.sym[m].n \in Inner(h)
          /\ a \in Inner(h) /\ h.sym[a].n \in Inner(h)
          /\ m # a /\ h.sym[m].n # a
          /\ h.sym[m].s = h.sym[a].s /\ h.sym[h.sym[m].n].s = h.sym[h.sym[a].n].s
          /\ Unused(h, r) /\ ~Whole(h, m)
      BY <2>4 DEF FirstTarget
    <3>2. Unused(k, r)
      BY <3>1, <1>1, <1>2 DEF Unused
    <3>3. /\ k.sym[m].n = h.sym[m].n /\ k.sym[m].s = h.sym[m].s /\ k.sym[m].p = h.sym[m].p
          /\ k.sym[h.sym[m].n].s = h.sym[h.sym[m].n].s /\ k.sym[h.sym[m].n].n = h.sym[h.sym[m].n].n
          /\ k.sym[a].n = h.sym[a].n /\ k.sym[a].s = h.sym[a].s
          /\ k.sym[h.sym[a].n].s = h.sym[h.sym[a].n].s
      BY <3>1, <1>2, <1>11
    <3>4. ~Whole(k, m)
      BY <3>1, <3>3, <1>1 DEF Whole
    <3> QED
      BY <3>1, <3>2, <3>3, <3>4, <1>1 DEF FirstTarget
  <2>5. ASSUME NEW r, NEW b, b \in DOMAIN h.sym
        PROVE  Sole(h, b, r) => Sole(k, b, r)
    BY <1>1, <1>2 DEF Sole
  <2>6. ASSUME NEW q, NEW r, BeforeNew(h, q, r) PROVE BeforeNew(k, q, r)
    <3>1. /\ q \in Linked(h) /\ h.sym[q].n \in Inner(h) /\ h.sym[h.sym[q].n].s = r
          /\ Sole(h, h.sym[q].n, r) /\ NoEntry(h, q) /\ NoEntry(h, h.sym[q].n)
      BY <2>6 DEF BeforeNew
    <3>2. k.sym[q].n = h.sym[q].n /\ k.sym[h.sym[q].n].s = h.sym[h.sym[q].n].s
          /\ h.sym[q].n \in DOMAIN h.sym
      BY <3>1, <1>2, <1>4, <1>11
    <3> QED
      BY <3>1, <3>2, <2>5, <1>1, <1>10 DEF BeforeNew
  <2>7. ASSUME NEW b, NEW r, AtNew(h, b, r) PROVE AtNew(k, b, r)
    <3>1. b \in Inner(h) /\ h.sym[b].s = r /\ Sole(h, b, r) /\ NoEntry(h, b)
      BY <2>7 DEF AtNew
    <3>2. b \in DOMAIN h.sym
      BY <3>1, <1>11
    <3> QED
      BY <3>1, <3>2, <2>5, <1>1, <1>2, <1>10 DEF AtNew
  <2>8. ASSUME NEW i \in DOMAIN s, i + 1 \in DOMAIN s PROVE Over(k, s[i], s[i + 1])
    <3> DEFINE f == s[i]
               e == s[i + 1]
    <3>1. Over(h, f, e)
      BY <2>8, <1>12 DEF Held
    <3>2. f.op = "tidy" => f.by \in DOMAIN h.rule
      BY <1>12 DEF Held, Tidied
    <3> HIDE DEF f, e
    <3>3. f.op = "check" /\ e.op = "learn" => Ends(k, f.at)
      BY <3>1, <2>1 DEF Over
    <3>4. f.op = "check" /\ e.op = "tidy" =>
            IF f.orNext THEN Ends(k, f.at) /\ k.sym[k.sym[f.at].n].s = e.by
                        ELSE f.at = Last(k, Start)
      <4> SUFFICES ASSUME f.op = "check", e.op = "tidy"
                   PROVE  IF f.orNext THEN Ends(k, f.at) /\ k.sym[k.sym[f.at].n].s = e.by
                                      ELSE f.at = Last(k, Start)
        OBVIOUS
      <4>1. CASE f.orNext
        <5>1. Ends(h, f.at) /\ h.sym[h.sym[f.at].n].s = e.by
          BY <3>1, <4>1 DEF Over
        <5>2. f.at \in Linked(h)
          BY <5>1 DEF Ends
        <5>3. k.sym[f.at].n = h.sym[f.at].n /\ k.sym[h.sym[f.at].n].s = h.sym[h.sym[f.at].n].s
          BY <5>2, <1>2, <1>4
        <5> QED
          BY <5>1, <5>3, <2>1, <4>1
      <4>2. CASE ~f.orNext
        <5>1. f.at = Last(h, Start)
          BY <3>1, <4>2 DEF Over
        <5> QED
          BY <5>1, <4>2, <1>3, <1>9 DEF Rooted
      <4> QED
        BY <4>1, <4>2
    <3>5. f.op = "check" /\ e.op = "substitute" =>
            IF f.orNext THEN BeforeNew(k, f.at, e.by) ELSE AtNew(k, f.at, e.by)
      BY <3>1, <2>6, <2>7 DEF Over
    <3>6. f.op = "substitute" /\ e.op = "tidy" => Target(k, f.at, f.by)
      BY <3>1, <2>3 DEF Over
    <3>7. f.op = "substitute" /\ e.op = "substitute" => FirstTarget(k, f.at, e.at, f.by)
      <4> SUFFICES ASSUME f.op = "substitute", e.op = "substitute"
                   PROVE  FirstTarget(k, f.at, e.at, f.by)
        OBVIOUS
      <4>1. FirstTarget(h, f.at, e.at, f.by)
        BY <3>1 DEF Over
      <4> QED
        BY <4>1, <2>4
    <3>8. f.op = "tidy" /\ e.op = "tidy" => k.sym[Last(k, f.by)].s = e.by
      BY <3>1, <3>2, <1>9 DEF Over
    <3>9. Over(k, f, e)
      BY <3>3, <3>4, <3>5, <3>6, <3>7, <3>8 DEF Over
    <3> QED
      BY <3>9 DEF f, e
  <2> QED
    BY <2>2, <2>8, <1>12 DEF Held
<1>13. ASSUME NEW s, InUse(h, s) PROVE InUse(k, s)
  BY <1>1, <1>2, <1>13 DEF InUse, Used
<1> QED
  BY <1>1, <1>3, <1>7, <1>8, <1>12, <1>13 DEF Sound

\* A set of naturals has a least element.
LEMMA Least ==
  ASSUME NEW T, T \subseteq Nat, T # {}
  PROVE  \E m \in T : \A n \in T : m <= n
<1> DEFINE R == OpToRel(<, Nat)
<1>1. IsWellFoundedOn(R, Nat)
  BY NatLessThanWellFounded
<1>2. \A x, y \in Nat : x < y => <<x, y>> \in R
  BY DEF OpToRel
<1> HIDE DEF R
<1>3. PICK m \in T : \A n \in T : <<n, m>> \notin R
  BY <1>1, WFMin
<1>4. \A n \in T : ~(n < m)
  BY <1>2, <1>3
<1> QED
  BY <1>3, <1>4

\* Each rule that waits to be tidied up is used in the one above it, so that
\* their ranks fall and none is the rule about to be tidied up on top of them.
LEMMA TidyRanks ==
  ASSUME NEW h, Core(h), NEW rk, Ranking(h, rk), NEW t, IsStack(t), Held(h, t), Waits(t),
         NEW r \in DOMAIN h.rule, Pair(h, r),
         t # <<>> => (t[1].op = "tidy" => h.sym[Last(h, r)].s = t[1].by)
  PROVE  \A j \in DOMAIN t : t[j].op = "tidy" => t[j].by # r
<1> DEFINE Bad == {j \in DOMAIN t : t[j].op = "tidy" /\ ~(rk[t[j].by] < rk[r])}
<1>1. PICK F : t \in Seq(F)
  BY DEF IsStack
<1>2. Len(t) \in Nat /\ DOMAIN t = 1 .. Len(t)
  BY <1>1, LenProperties
<1>3. /\ \A x \in DOMAIN h.rule : rk[x] \in Nat
      /\ \A x \in DOMAIN h.rule : Pair(h, x) /\ h.sym[Last(h, x)].s \in DOMAIN h.rule =>
            rk[h.sym[Last(h, x)].s] < rk[x]
  <2>1. \A x \in DOMAIN h.rule : rk[x] \in Nat
    BY DEF Ranking
  <2>2. ASSUME NEW x \in DOMAIN h.rule, Pair(h, x), h.sym[Last(h, x)].s \in DOMAIN h.rule
        PROVE  rk[h.sym[Last(h, x)].s] < rk[x]
    <3>1. Last(h, x) \in Inner(h) /\ h.sym[Last(h, x)].owner = x
      BY <2>2, PairNodes
    <3> QED
      BY <3>1, <2>2 DEF Ranking
  <2> QED
    BY <2>1, <2>2
<1>4. \A j \in DOMAIN t : t[j].op = "tidy" => t[j].by \in DOMAIN h.rule /\ Pair(h, t[j].by)
  BY DEF Held, Tidied
<1>5. ASSUME Bad # {} PROVE FALSE
  <2>1. Bad \subseteq Nat
    BY <1>2
  <2>2. PICK m \in Bad : \A n \in Bad : m <= n
    BY <1>5, <2>1, Least
  <2>3. m \in 1 .. Len(t) /\ t[m].op = "tidy" /\ ~(rk[t[m].by] < rk[r])
    BY <1>2
  <2>4. CASE m = 1
    <3>1. t # <<>> /\ t[1].op = "tidy"
      BY <1>2, <2>3, <2>4
    <3>2. h.sym[Last(h, r)].s = t[1].by /\ t[1].by \in DOMAIN h.rule
      BY <3>1, <2>3, <2>4, <1>2, <1>4
    <3> QED
      BY <3>2, <2>3, <2>4, <1>3
  <2>5. CASE m # 1
    <3> DEFINE i == m - 1
    <3>1. i \in DOMAIN t /\ i + 1 = m /\ m \in DOMAIN t /\ i # Len(t) /\ i < m /\ i \in Nat
      BY <2>3, <2>5, <1>2
    <3> HIDE DEF i
    <3>2. t[i].op = "tidy"
      <4>1. t[i].op = "learn" => i = Len(t)
        BY <3>1 DEF IsStack, Nested
      <4> QED
        BY <4>1, <3>1 DEF Waits
    <3>3. i \notin Bad
      BY <2>2, <3>1, <2>3
    <3>4. rk[t[i].by] < rk[r]
      BY <3>1, <3>2, <3>3
    <3>5. h.sym[Last(h, t[i].by)].s = t[m].by
      <4>1. Over(h, t[i], t[i + 1])
        BY <3>1 DEF Held
      <4> QED
        BY <4>1, <3>1, <3>2, <2>3 DEF Over
    <3>6. /\ t[i].by \in DOMAIN h.rule /\ Pair(h, t[i].by) /\ t[m].by \in DOMAIN h.rule
      BY <3>1, <3>2, <2>3, <1>4
    <3>7. rk[t[m].by] < rk[t[i].by]
      BY <3>5, <3>6, <1>3
    <3>8. rk[t[m].by] \in Nat /\ rk[t[i].by] \in Nat /\ rk[r] \in Nat
      BY <3>6, <1>3
    <3> QED
      BY <3>4, <3>7, <3>8, <2>3
  <2> QED
    BY <2>4, <2>5
<1>6. \A j \in DOMAIN t : t[j].op = "tidy" => rk[t[j].by] < rk[r]
  BY <1>5
<1> QED
  BY <1>3, <1>6

-----------------------------------------------------------------------------
(* The inductive invariant.                                                 *)

\* The inductive invariant: a sound grammar, frames that know what they return
\* to, every rule in use.
Inductive == Sound(g) /\ Held(g, stack) /\ InUse(g, stack) /\ IsStack(stack)

\* What a call about to go on may count on.
LEMMA Top ==
  ASSUME Inductive, NEW op, Running(op)
  PROVE  /\ Head(stack).op = op /\ stack # <<>> /\ Head(stack) = stack[1]
         /\ IsStack(Return) /\ Held(g, Return)
         /\ Rests(g, Head(stack), Return) /\ Fits(Head(stack), Return)
         /\ Sound(g) /\ Core(g)
<1>1. stack # <<>> /\ Head(stack).op = op /\ IsStack(stack) /\ Held(g, stack) /\ Sound(g)
  BY DEF Running, Inductive
<1>2. IsStack(Tail(stack)) /\ Held(g, Tail(stack)) /\ Rests(g, Head(stack), Tail(stack))
  BY <1>1, HeldPop
<1>3. Fits(Head(stack), Tail(stack)) /\ Head(stack) = stack[1]
  BY <1>1, Pop
<1> QED
  BY <1>1, <1>2, <1>3 DEF Return, Sound

\* Unless match has just made a new rule, every rule is used.
LEMMA InUseAll ==
  ASSUME NEW h, NEW s, InUse(h, s), s = <<>> \/ s[1].op # "substitute"
  PROVE  AllUsed(h)
<1>1. \A r : ~Coming(s, r)
  <2>1. CASE s = <<>>
    BY <2>1 DEF Coming
  <2>2. CASE s[1].op # "substitute"
    BY <2>2 DEF Coming
  <2> QED
    BY <2>1, <2>2
<1> QED
  BY <1>1 DEF InUse, AllUsed

\* Nothing waits for a use when everything has one.
LEMMA AllInUse ==
  ASSUME NEW h, AllUsed(h), NEW s
  PROVE  InUse(h, s)
  BY DEF InUse, AllUsed

-----------------------------------------------------------------------------
(* The predictors.                                                          *)

\* Setting the flag of a node.
LEMMA FlagSame ==
  ASSUME NEW h, IsHeap(h), NEW c
  PROVE  Same(h, [h EXCEPT !.sym[c].upd = FALSE])
<1> DEFINE e == [h.sym EXCEPT ![c].upd = FALSE]
           k == [h EXCEPT !.sym[c].upd = FALSE]
<1>1. k = [h EXCEPT !.sym = e]
  OBVIOUS
<1> HIDE DEF k
<1>2. Remarks(h.sym, e)
  BY DEF Remarks, IsHeap, NodeFields
<1> HIDE DEF e
<1>3. /\ DOMAIN k = HeapFields /\ k.sym = e /\ k.rule = h.rule /\ k.table = h.table
      /\ k.brk = h.brk /\ k.rbrk = h.rbrk /\ k.free = h.free /\ k.rfree = h.rfree
  BY <1>1 DEF IsHeap, HeapFields
<1>4. Same(h, k)
  BY <1>2, <1>3, RemarksSame
<1> QED
  BY <1>4 DEF k

\* The beginning of an update of the predictors changes nothing of the grammar.
LEMMA UpdatingSame ==
  ASSUME NEW h, IsHeap(h)
  PROVE  Same(h, Updating(h))
<1>1. Same(h, h)
  BY DEF Same, SameLists
<1> QED
  BY <1>1, FlagSame DEF Updating

\* update_predictors on the root may be called over any calls.
LEMMA UpdateRootHeld ==
  ASSUME NEW h, NEW k, NEW t, IsStack(t), Held(k, t), t # <<>> => t[1].op # "substitute"
  PROVE  /\ Held(k, UpdateRoot(h) \o t)
         /\ \/ UpdateRoot(h) \o t = <<>>
            \/ (UpdateRoot(h) \o t)[1].op # "substitute"
<1> DEFINE f == UpdateFrame(Root, 0)
<1>1. f.op = "update"
  BY DEF UpdateFrame
<1>2. PICK F : t \in Seq(F)
  BY DEF IsStack
<1> HIDE DEF f
<1>3. CASE UpdateRoot(h) = <<f>>
  <2>1. Rests(k, f, t)
    BY <1>1 DEF Rests, Over
  <2>2. Held(k, <<f>> \o t)
    BY <2>1, HeldPush
  <2>3. (<<f>> \o t)[1] = f
    BY Positions
  <2> QED
    BY <1>1, <1>3, <2>2, <2>3
<1>4. CASE UpdateRoot(h) = <<>>
  <2>1. <<>> \o t = t
    BY <1>2
  <2> QED
    BY <1>4, <2>1
<1> QED
  BY <1>3, <1>4 DEF UpdateRoot, f

\* The inductive invariant after a step.
Kept == Sound(g') /\ Held(g', stack') /\ InUse(g', stack')

\* A call of update_predictors may be made over any calls.
LEMMA UpdateRests ==
  ASSUME NEW h, NEW t, IsStack(t), Held(h, t), NEW a, NEW c
  PROVE  LET s == <<UpdateFrame(a, c)>> \o t
         IN  IsStack(s) /\ Held(h, s) /\ s[1].op # "substitute"
<1> DEFINE f == UpdateFrame(a, c)
<1>1. f.op = "update"
  BY DEF UpdateFrame
<1> HIDE DEF f
<1>2. Fits(f, t) /\ Rests(h, f, t)
  BY <1>1 DEF Fits, Rests, Over
<1>3. IsStack(<<f>> \o t) /\ Held(h, <<f>> \o t) /\ (<<f>> \o t)[1] = f
  BY <1>2, Push, HeldPush
<1> QED
  BY <1>1, <1>3 DEF f

\* A step of the update of the predictors keeps the invariant.
LEMMA UpdateChildKeeps ==
  ASSUME Inductive, UpdateChild
  PROVE  Kept
<1> DEFINE t == Return
           f == Head(stack)
<1>1. Running("update")
  BY DEF UpdateChild
<1>2. /\ f.op = "update" /\ f = stack[1] /\ IsStack(t) /\ Held(g, t) /\ Sound(g) /\ Core(g)
  BY <1>1, Top
<1>3. PICK c : /\ g' = [g EXCEPT !.sym[c].upd = FALSE]
               /\ stack' = <<UpdateFrame(c, 0), UpdateFrame(f.at, c)>> \o t
  BY DEF UpdateChild
<1>4. AllUsed(g)
  BY <1>2, InUseAll DEF Inductive
<1>5. Same(g, g')
  BY <1>2, <1>3, FlagSame DEF Core
<1>6. Sound(g') /\ (\A s : Held(g, s) => Held(g', s)) /\ AllUsed(g')
  <2>1. InUse(g, <<>>)
    BY <1>4, AllInUse
  <2>2. InUse(g', <<>>)
    BY <2>1, <1>2, <1>5, SameSound
  <2> QED
    BY <2>2, <1>2, <1>5, SameSound, InUseAll
<1>7. Held(g, stack')
  <2> HIDE DEF t, f
  <2> DEFINE u == <<UpdateFrame(f.at, c)>> \o t
  <2>1. stack' = <<UpdateFrame(c, 0)>> \o u
    BY <1>2, <1>3, Cons2
  <2>2. IsStack(u) /\ Held(g, u)
    BY <1>2, UpdateRests
  <2> HIDE DEF u
  <2> QED
    BY <2>1, <2>2, UpdateRests
<1> QED
  BY <1>6, <1>7, AllInUse DEF Kept

\* update_predictors after its last child keeps the invariant.
LEMMA UpdateSelfKeeps ==
  ASSUME Inductive, UpdateSelf
  PROVE  Kept
<1> DEFINE t == Return
<1>1. Running("update") /\ g' = AdoptNext(g, Head(stack).at) /\ stack' = t
  BY DEF UpdateSelf
<1>2. Head(stack).op = "update" /\ Head(stack) = stack[1] /\ Held(g, t) /\ Sound(g) /\ Core(g)
  BY <1>1, Top
<1>3. AllUsed(g)
  BY <1>2, InUseAll DEF Inductive
<1>4. Same(g, g')
  BY <1>1, <1>2, AdoptNextSame DEF Core
<1>5. InUse(g, t)
  BY <1>3, AllInUse
<1> QED
  BY <1>1, <1>2, <1>4, <1>5, SameSound DEF Kept

\* Reading the predictors again keeps the invariant.
LEMMA LearnKeeps ==
  ASSUME Inductive, Learn
  PROVE  Kept
<1> DEFINE t == Return
<1>1. Running("learn")
  BY DEF Learn
<1>2. /\ Head(stack).op = "learn" /\ Head(stack) = stack[1] /\ Held(g, t) /\ Sound(g) /\ Core(g)
      /\ Fits(Head(stack), t) /\ IsStack(t)
  BY <1>1, Top
<1>3. t = <<>>
  BY <1>2 DEF Fits
<1>4. AllUsed(g)
  BY <1>2, InUseAll DEF Inductive
<1>5. InUse(g, <<>>)
  BY <1>4, AllInUse
<1>6. CASE g.sym[Root].pred
  BY <1>2, <1>3, <1>5, <1>6 DEF Learn, Kept
<1>7. CASE ~g.sym[Root].pred
  <2> DEFINE g1 == FindNewPredictors(g, Last(g, Start))
             g2 == Advance(g1, RawValue(g1, Head(stack).at))
  <2>1. g' = Updating(g2) /\ stack' = UpdateRoot(g2) \o t
    BY <1>7 DEF Learn
  <2>2. Same(g, g1)
    BY <1>2, FindSame DEF Core
  <2> HIDE DEF g1
  <2>3. Same(g1, g2)
    BY <2>2, ComputeSame DEF Same, Advance
  <2> HIDE DEF g2
  <2>4. Same(g2, Updating(g2))
    BY <2>3, UpdatingSame DEF Same
  <2>5. Same(g, g')
    <3>1. Same(g, g2)
      BY <2>2, <2>3, SameTrans
    <3> QED
      BY <3>1, <2>1, <2>4, SameTrans
  <2>6. Sound(g') /\ Held(g', t) /\ InUse(g', <<>>)
    BY <1>2, <1>5, <2>5, SameSound
  <2>7. Held(g', UpdateRoot(g2) \o t)
    BY <1>2, <1>3, <2>6, UpdateRootHeld
  <2>8. InUse(g', stack')
    BY <2>6, InUseAll, AllInUse
  <2> QED
    BY <2>1, <2>6, <2>7, <2>8 DEF Kept
<1> QED
  BY <1>6, <1>7

-----------------------------------------------------------------------------
(* check.                                                                   *)

\* Where check may be called.
LEMMA CheckAt ==
  ASSUME Inductive, Running("check")
  PROVE  LET f == Head(stack)
             a == f.at
             t == Return
             e == t[1]
         IN  /\ f.op = "check" /\ f = stack[1] /\ IsStack(t) /\ Held(g, t) /\ t # <<>>
             /\ Sound(g) /\ Core(g) /\ AllUsed(g)
             /\ \/ e.op = "learn" /\ ~f.orNext /\ Ends(g, a)
                \/ e.op = "tidy" /\ f.orNext /\ Ends(g, a) /\ g.sym[g.sym[a].n].s = e.by
                \/ e.op = "tidy" /\ ~f.orNext /\ a = Last(g, Start)
                \/ e.op = "substitute" /\ f.orNext /\ BeforeNew(g, a, e.by)
                \/ e.op = "substitute" /\ ~f.orNext /\ AtNew(g, a, e.by)
             /\ \A j \in DOMAIN t : 2 <= j => t[j].op \in {"tidy", "learn"}
             /\ e.op \in {"tidy", "learn"} => Waits(t)
             /\ a \in Linked(g)
<1> DEFINE f == Head(stack)
           a == f.at
           t == Return
           e == t[1]
<1>1. /\ f.op = "check" /\ f = stack[1] /\ IsStack(t) /\ Held(g, t) /\ Sound(g) /\ Core(g)
      /\ Rests(g, f, t) /\ Fits(f, t) /\ InUse(g, stack)
  BY Top DEF Inductive
<1>2. AllUsed(g)
  BY <1>1, InUseAll
<1> HIDE DEF f, t
<1>3. t # <<>> /\ e.op \in IF f.orNext THEN {"substitute", "tidy"}
                                       ELSE {"substitute", "tidy", "learn"}
  BY <1>1 DEF Fits
<1>4. Over(g, f, e)
  BY <1>1, <1>3 DEF Rests
<1>5. \/ e.op = "learn" /\ ~f.orNext /\ Ends(g, a)
      \/ e.op = "tidy" /\ f.orNext /\ Ends(g, a) /\ g.sym[g.sym[a].n].s = e.by
      \/ e.op = "tidy" /\ ~f.orNext /\ a = Last(g, Start)
      \/ e.op = "substitute" /\ f.orNext /\ BeforeNew(g, a, e.by)
      \/ e.op = "substitute" /\ ~f.orNext /\ AtNew(g, a, e.by)
  BY <1>1, <1>3, <1>4 DEF Over
<1>6. \A j \in DOMAIN t : 2 <= j => t[j].op \in {"tidy", "learn"}
  BY <1>1 DEF Rests
<1>7. PICK F : t \in Seq(F)
  BY <1>1 DEF IsStack
<1>8. DOMAIN t = 1 .. Len(t) /\ Len(t) \in Nat
  BY <1>7, LenProperties
<1>9. e.op \in {"tidy", "learn"} => Waits(t)
  BY <1>6, <1>8 DEF Waits
<1>10. Last(g, Start) \in Linked(g)
  <2>1. Start \in DOMAIN g.rule
    BY <1>1 DEF Sound, Rooted
  <2> QED
    BY <2>1, <1>1, GuardNodes, Lists DEF Last
<1>11. a \in Linked(g)
  <2>1. \A b \in Inner(g) : b \in Linked(g)
    BY <1>1, Lists
  <2> QED
    BY <1>5, <1>10, <2>1 DEF Ends, BeforeNew, AtNew
<1> QED
  BY <1>1, <1>2, <1>3, <1>5, <1>6, <1>9, <1>11 DEF f, t

\* check returned 0: substitute goes on to the next digram.
LEMMA CheckZeroKeeps ==
  ASSUME Inductive, Running("check"), stack' = AfterZero(Head(stack)) \o Return,
         g'.sym = g.sym, g'.rule = g.rule, Sound(g'),
         \A b : b # Head(stack).at /\ NoEntry(g, b) => NoEntry(g', b)
  PROVE  Kept
<1> DEFINE f == Head(stack)
           a == f.at
           b == g.sym[a].n
           t == Return
           e == t[1]
<1>1. /\ IsStack(t) /\ Held(g, t) /\ t # <<>> /\ Core(g) /\ AllUsed(g)
      /\ \/ e.op = "learn" /\ ~f.orNext /\ Ends(g, a)
         \/ e.op = "tidy" /\ f.orNext /\ Ends(g, a) /\ g.sym[g.sym[a].n].s = e.by
         \/ e.op = "tidy" /\ ~f.orNext /\ a = Last(g, Start)
         \/ e.op = "substitute" /\ f.orNext /\ BeforeNew(g, a, e.by)
         \/ e.op = "substitute" /\ ~f.orNext /\ AtNew(g, a, e.by)
      /\ \A j \in DOMAIN t : 2 <= j => t[j].op \in {"tidy", "learn"}
      /\ a \in Linked(g)
  BY CheckAt
<1>2. stack' = IF f.orNext THEN <<CheckFrame(b, FALSE)>> \o t ELSE <<>> \o t
  BY DEF AfterZero
<1>3. /\ Guards(g') = Guards(g) /\ Linked(g') = Linked(g) /\ Inner(g') = Inner(g)
      /\ First(g', Start) = First(g, Start) /\ Last(g', Start) = Last(g, Start)
      /\ \A c, r : Sole(g', c, r) <=> Sole(g, c, r)
  BY DEF Guards, Linked, Inner, First, Last, Sole
<1>4. AllUsed(g')
  BY <1>1, <1>3 DEF AllUsed, Used
<1>5. \A c : c # a /\ NoEntry(g, c) => NoEntry(g', c)
  OBVIOUS
<1>6. b # a \/ b \in Guards(g)
  BY Zenon, <1>1, Lists, Neighbours
<1>7. b = g.sym[a].n
  OBVIOUS
<1> HIDE DEF f, a, b, t
<1>8. PICK F : t \in Seq(F)
  BY <1>1 DEF IsStack
<1>9. DOMAIN t = 1 .. Len(t) /\ Len(t) \in Nat /\ <<>> \o t = t
  BY <1>8, LenProperties
<1>10. 1 \in DOMAIN t
  <2>1. Len(t) # 0
    BY <1>1, <1>8, EmptySeq
  <2> QED
    BY <2>1, <1>9
<1>11. \A j \in DOMAIN t : t[j].op # "check"
  <2> SUFFICES ASSUME NEW j \in DOMAIN t PROVE t[j].op # "check"
    OBVIOUS
  <2>1. CASE j = 1
    BY <2>1, <1>1
  <2>2. CASE j # 1
    <3>1. 2 <= j
      BY <2>2, <1>9
    <3> QED
      BY <3>1, <1>1
  <2> QED
    BY <2>1, <2>2
<1>12. Held(g', t)
  BY <1>1, <1>11, HeldTable
<1>13. CASE f.orNext
  <2> DEFINE c == CheckFrame(b, FALSE)
  <2>1. c.op = "check" /\ c.at = b /\ ~c.orNext
    BY DEF CheckFrame
  <2>2. e.op \in {"tidy", "substitute"}
    BY <1>1, <1>13
  <2> HIDE DEF c
  <2>3. ASSUME e.op = "tidy" PROVE Over(g', c, e)
    <3>1. b = Last(g', Start)
      BY <1>1, <1>3, <1>7, <1>13, <2>3 DEF Ends
    <3>2. Over(g', c, e)
      BY <3>1, <2>1, <2>3 DEF Over
    <3> QED
      BY <3>2
  <2>4. ASSUME e.op = "substitute" PROVE Over(g', c, e)
    <3>1. b \in Inner(g) /\ g.sym[b].s = e.by /\ Sole(g, b, e.by) /\ NoEntry(g, b)
      BY <1>1, <1>7, <1>13, <2>4 DEF BeforeNew
    <3>2. b # a
      BY <3>1, <1>6 DEF Inner
    <3>3. AtNew(g', b, e.by)
      BY <3>1, <3>2, <1>3, <1>5 DEF AtNew
    <3>4. Over(g', c, e)
      BY <3>3, <2>1, <2>4 DEF Over
    <3> QED
      BY <3>4
  <2>5. Over(g', c, e)
    BY <2>2, <2>3, <2>4
  <2>6. Rests(g', c, t)
    BY <2>1, <2>5, <1>1 DEF Rests
  <2>7. Held(g', <<c>> \o t)
    BY <2>6, <1>1, <1>12, HeldPush
  <2>8. stack' = <<c>> \o t
    BY <1>2, <1>13 DEF c
  <2> QED
    BY <2>7, <2>8, <1>4, AllInUse DEF Kept
<1>14. CASE ~f.orNext
  BY <1>2, <1>4, <1>9, <1>12, <1>14, AllInUse DEF Kept
<1> QED
  BY <1>13, <1>14

\* A check that finds nothing, or nothing to replace, keeps the invariant.
LEMMA CheckNoDigramKeeps ==
  ASSUME Inductive, CheckNoDigram
  PROVE  Kept
<1>1. Running("check") /\ stack' = AfterZero(Head(stack)) \o Return /\ g' = g
  BY DEF CheckNoDigram
<1>2. Sound(g)
  BY DEF Inductive
<1> QED
  BY <1>1, <1>2, CheckZeroKeeps

\* A digram with two ends may get an entry.
LEMMA SetDigramSound ==
  ASSUME NEW h, Sound(h), NEW a \in Linked(h)
  PROVE  LET k == SetDigram(h, a)
         IN  /\ Sound(k) /\ k.sym = h.sym /\ k.rule = h.rule
             /\ \A b : b # a /\ NoEntry(h, b) => NoEntry(k, b)
<1> DEFINE k == SetDigram(h, a)
<1>1. Core(h) /\ Long(h) /\ Rooted(h) /\ \E rk : Ranking(h, rk)
  BY DEF Sound
<1>2. /\ IsHeap(k) /\ k.sym = h.sym /\ SameLists(h, k)
      /\ NoDigram(h, a) => k.table = h.table
      /\ ~NoDigram(h, a) =>
           /\ DOMAIN k.table = DOMAIN h.table \cup {Digram(h, a)}
           /\ k.table[Digram(h, a)] = a
           /\ \A d \in DOMAIN h.table : d # Digram(h, a) => k.table[d] = h.table[d]
  BY <1>1, SetDigramIs DEF Core
<1> HIDE DEF k
<1>3. /\ k.rule = h.rule /\ k.brk = h.brk /\ k.rbrk = h.rbrk
      /\ k.free = h.free /\ k.rfree = h.rfree
  BY <1>2 DEF SameLists
<1>4. Guards(k) = Guards(h) /\ Linked(k) = Linked(h) /\ Inner(k) = Inner(h)
      /\ \A r : NodeOf(k, r) = NodeOf(h, r)
  BY <1>2, <1>3 DEF Guards, Linked, Inner, NodeOf
<1>5. ~NoDigram(h, a) => a \in Inner(h) /\ h.sym[a].n \in Inner(h)
  <2>1. a \in DOMAIN h.sym /\ h.sym[a].n \in Linked(h) /\ h.sym[a].n \in DOMAIN h.sym
    BY <1>1, Lists
  <2> QED
    BY <2>1, <1>1, Lists, GuardNodes DEF NoDigram
<1>6. \A c : Digram(k, c) = Digram(h, c)
  BY <1>2 DEF Digram
<1>7. Entries(k)
  <2> SUFFICES ASSUME NEW d \in DOMAIN k.table
               PROVE  /\ k.table[d] \in Inner(h) /\ h.sym[k.table[d]].n \in Inner(h)
                      /\ d = Digram(h, k.table[d])
    BY <1>2, <1>4, <1>6 DEF Entries
  <2>1. Entries(h)
    BY <1>1 DEF Core
  <2>2. CASE d \in DOMAIN h.table /\ k.table[d] = h.table[d]
    BY <2>1, <2>2 DEF Entries
  <2>3. CASE ~(d \in DOMAIN h.table /\ k.table[d] = h.table[d])
    <3>1. ~NoDigram(h, a) /\ d = Digram(h, a) /\ k.table[d] = a
      BY <2>3, <1>2
    <3> QED
      BY <3>1, <1>5
  <2> QED
    BY <2>2, <2>3
<1>8. Core(k)
  <2>1. Linking(k)
    BY <1>1, <1>2, <1>3, <1>4 DEF Core, Linking
  <2>2. Forward(k) /\ Backward(k)
    BY <1>1, <1>2, <1>3, <1>4 DEF Core, Forward, Backward
  <2>3. Valued(k) /\ Counted(k) /\ Allocated(k)
    BY <1>1, <1>2, <1>3, <1>4 DEF Core, Valued, Counted, Allocated
  <2> QED
    BY <2>1, <2>2, <2>3, <1>2, <1>7 DEF Core
<1>9. \E rk : Ranking(k, rk)
  BY <1>1, <1>2, <1>3, <1>4 DEF Ranking
<1>10. Long(k) /\ Rooted(k)
  BY <1>1, <1>2, <1>3, <1>4 DEF Long, Rooted
<1>11. ASSUME NEW b, b # a, NoEntry(h, b) PROVE NoEntry(k, b)
  <2> SUFFICES ASSUME NEW d \in DOMAIN k.table PROVE k.table[d] # b
    BY DEF NoEntry
  <2> QED
    BY <1>2, <1>11 DEF NoEntry
<1>12. /\ Sound(k) /\ k.sym = h.sym /\ k.rule = h.rule
       /\ \A b : b # a /\ NoEntry(h, b) => NoEntry(k, b)
  BY <1>2, <1>3, <1>8, <1>9, <1>10, <1>11 DEF Sound
<1> QED
  BY <1>12 DEF k

\* check that enters a new digram keeps the invariant.
LEMMA CheckNewDigramKeeps ==
  ASSUME Inductive, CheckNewDigram
  PROVE  Kept
<1>1. /\ Running("check") /\ stack' = AfterZero(Head(stack)) \o Return
      /\ g' = SetDigram(g, Head(stack).at)
  BY DEF CheckNewDigram
<1>2. Sound(g) /\ Head(stack).at \in Linked(g)
  BY <1>1, CheckAt
<1>3. /\ Sound(g') /\ g'.sym = g.sym /\ g'.rule = g.rule
      /\ \A b : b # Head(stack).at /\ NoEntry(g, b) => NoEntry(g', b)
  BY <1>1, <1>2, SetDigramSound
<1> QED
  BY <1>1, <1>3, CheckZeroKeeps

\* check that meets an overlap keeps the invariant.
LEMMA CheckOverlapKeeps ==
  ASSUME Inductive, CheckOverlap
  PROVE  Kept
<1>1. Running("check") /\ stack' = Return /\ g' = g
  BY DEF CheckOverlap
<1>2. Sound(g) /\ Held(g, Return) /\ AllUsed(g)
  BY <1>1, CheckAt
<1> QED
  BY <1>1, <1>2, AllInUse DEF Kept

\* When check finds the digram, it is the last one of the start rule, and the
\* table's entry is another.
LEMMA FoundAt ==
  ASSUME Inductive, Running("check"), Found(Head(stack).at)
  PROVE  LET a == Head(stack).at
             m == Match(a)
             t == Return
         IN  /\ Ends(g, a) /\ Waits(t) /\ IsStack(t) /\ Held(g, t) /\ t # <<>>
             /\ Sound(g) /\ Core(g) /\ AllUsed(g)
             /\ t[1].op = "tidy" => g.sym[g.sym[a].n].s = t[1].by
             /\ a \in Inner(g) /\ g.sym[a].n \in Inner(g)
             /\ m \in Inner(g) /\ g.sym[m].n \in Inner(g) /\ m # a
             /\ g.sym[m].s = g.sym[a].s /\ g.sym[g.sym[m].n].s = g.sym[g.sym[a].n].s
<1> DEFINE f == Head(stack)
           a == f.at
           t == Return
           e == t[1]
           m == Match(a)
<1>1. /\ IsStack(t) /\ Held(g, t) /\ t # <<>> /\ Sound(g) /\ Core(g) /\ AllUsed(g)
      /\ \/ e.op = "learn" /\ ~f.orNext /\ Ends(g, a)
         \/ e.op = "tidy" /\ f.orNext /\ Ends(g, a) /\ g.sym[g.sym[a].n].s = e.by
         \/ e.op = "tidy" /\ ~f.orNext /\ a = Last(g, Start)
         \/ e.op = "substitute" /\ f.orNext /\ BeforeNew(g, a, e.by)
         \/ e.op = "substitute" /\ ~f.orNext /\ AtNew(g, a, e.by)
      /\ e.op \in {"tidy", "learn"} => Waits(t)
      /\ a \in Linked(g)
  BY CheckAt
<1>2. /\ ~IsGuard(g, a) /\ ~IsGuard(g, g.sym[a].n) /\ Digram(g, a) \in DOMAIN g.table
      /\ m = g.table[Digram(g, a)]
  BY DEF Found, HasDigram, Match
<1> HIDE DEF f, a, t, m
<1>3. a \in Inner(g) /\ g.sym[a].n \in Inner(g)
  <2>1. a \in DOMAIN g.sym /\ g.sym[a].n \in Linked(g) /\ g.sym[a].n \in DOMAIN g.sym
    BY <1>1, Lists
  <2> QED
    BY <2>1, <1>1, <1>2, Lists, GuardNodes
<1>4. m \in Inner(g) /\ g.sym[m].n \in Inner(g) /\ Digram(g, a) = Digram(g, m)
  BY <1>1, <1>2 DEF Core, Entries
<1>5. g.sym[m].s = g.sym[a].s /\ g.sym[g.sym[m].n].s = g.sym[g.sym[a].n].s
  BY <1>4 DEF Digram
<1>6. NoEntry(g, a) => m # a
  BY <1>2 DEF NoEntry
<1>7. /\ m \in DOMAIN g.sym \ Guards(g) /\ g.sym[m].n \in DOMAIN g.sym \ Guards(g)
      /\ g.sym[g.sym[m].n].p = m /\ g.sym[g.sym[a].n].p = a
  <2>1. m \in Linked(g) /\ m \notin Guards(g) /\ g.sym[m].n \in Linked(g) /\ g.sym[m].n \notin Guards(g)
    BY <1>1, <1>4, Lists
  <2>2. m \in DOMAIN g.sym /\ g.sym[m].n \in DOMAIN g.sym /\ g.sym[g.sym[m].n].p = m
    BY <2>1, <1>1, NextNode, Lists
  <2>3. g.sym[g.sym[a].n].p = a
    BY <1>1, NextNode
  <2> QED
    BY <2>1, <2>2, <2>3
<1>8. ~(e.op = "substitute" /\ BeforeNew(g, a, e.by))
  BY <1>5, <1>6, <1>7 DEF BeforeNew, Sole
<1>9. ~(e.op = "substitute" /\ AtNew(g, a, e.by))
  BY <1>5, <1>6, <1>7 DEF AtNew, Sole
<1>10. a # Last(g, Start)
  <2>1. Start \in DOMAIN g.rule
    BY <1>1 DEF Sound, Rooted
  <2>2. g.sym[Last(g, Start)].n = g.rule[Start].guard
    <3>1. g.rule[Start].guard \in Linked(g)
      BY <2>1, <1>1, GuardNodes
    <3> QED
      BY <3>1, <1>1, PrevNode DEF Last
  <2>3. g.rule[Start].guard \notin Inner(g)
    BY <2>1, <1>1, GuardNodes
  <2> QED
    BY <2>2, <2>3, <1>3
<1>11. /\ Ends(g, a) /\ Waits(t)
       /\ e.op = "tidy" => g.sym[g.sym[a].n].s = e.by
  BY <1>1, <1>8, <1>9, <1>10
<1>12. m # a
  BY <1>6, <1>11 DEF Ends
<1> QED
  BY <1>1, <1>3, <1>4, <1>5, <1>11, <1>12 DEF a, m, t, f

\* A rule may be tidied up, once it has replaced the digram at a, over calls
\* that wait for the digram.
LEMMA MatchRests ==
  ASSUME NEW h, NEW t, IsStack(t), Held(h, t), Waits(t),
         NEW a, NEW r, NEW fresh, Target(h, a, r),
         t # <<>> => (t[1].op = "tidy" => h.sym[h.sym[a].n].s = t[1].by),
         \A j \in DOMAIN t : t[j].op = "tidy" => t[j].by # r
  PROVE  LET u == <<TidyFrame(r, fresh)>> \o t
             s == <<SubstituteFrame(a, r)>> \o u
         IN  /\ IsStack(u) /\ Held(h, u) /\ Waits(u)
             /\ IsStack(s) /\ Held(h, s) /\ s[1] = SubstituteFrame(a, r)
             /\ \A j \in DOMAIN s : 2 <= j => s[j].op \in {"tidy", "learn"}
<1> DEFINE e == TidyFrame(r, fresh)
           f == SubstituteFrame(a, r)
           u == <<e>> \o t
           s == <<f>> \o u
<1>1. e.op = "tidy" /\ e.by = r /\ f.op = "substitute" /\ f.by = r /\ f.at = a
  BY DEF TidyFrame, SubstituteFrame
<1> HIDE DEF e, f
<1>2. /\ r \in DOMAIN h.rule \ {Start} /\ Pair(h, r)
      /\ h.sym[h.sym[a].n].s = h.sym[Last(h, r)].s
  BY DEF Target
<1>3. t # <<>> => 1 \in DOMAIN t
  <2>1. PICK F : t \in Seq(F)
    BY DEF IsStack
  <2> QED
    BY <2>1, EmptySeq, LenProperties
<1>4. Fits(e, t)
  BY <1>1, <1>3 DEF Fits, Waits
<1>5. Rests(h, e, t)
  <2>1. t # <<>> => Over(h, e, t[1])
    BY <1>1, <1>2, <1>3 DEF Over, Waits
  <2>2. Tidied(h, e.by)
    BY <1>1, <1>2 DEF Tidied
  <2>3. \A j \in DOMAIN t : t[j].op \in {"tidy", "learn"}
    BY DEF Waits
  <2> QED
    BY <2>1, <2>2, <2>3, <1>1 DEF Rests
<1>6. IsStack(u) /\ Held(h, u) /\ u # <<>> /\ u[1] = e
  BY <1>4, <1>5, Push, HeldPush
<1>7. /\ DOMAIN u = 1 .. Len(t) + 1 /\ Len(t) \in Nat
      /\ \A i \in DOMAIN u : i = 1 \/ (i - 1 \in DOMAIN t /\ u[i] = t[i - 1])
  BY Positions
<1>8. Waits(u)
  BY <1>1, <1>6, <1>7 DEF Waits
<1> HIDE DEF u
<1>9. Fits(f, u)
  BY <1>1, <1>6 DEF Fits
<1>10. Rests(h, f, u)
  <2>1. Over(h, f, u[1])
    BY <1>1, <1>6 DEF Over
  <2>2. \A j \in DOMAIN u : u[j].op \in {"tidy", "learn"}
    BY <1>8 DEF Waits
  <2> QED
    BY <2>1, <2>2, <1>1 DEF Rests
<1>11. IsStack(s) /\ Held(h, s) /\ s[1] = f
  BY <1>6, <1>9, <1>10, Push, HeldPush
<1>12. \A j \in DOMAIN s : j = 1 \/ (j - 1 \in DOMAIN u /\ s[j] = u[j - 1])
  BY <1>6, Positions
<1>13. \A j \in DOMAIN s : 2 <= j => s[j].op \in {"tidy", "learn"}
  <2> SUFFICES ASSUME NEW j \in DOMAIN s, 2 <= j PROVE s[j].op \in {"tidy", "learn"}
    OBVIOUS
  <2>1. j # 1
    OBVIOUS
  <2>2. j - 1 \in DOMAIN u /\ s[j] = u[j - 1]
    BY <2>1, <1>12
  <2> QED
    BY <2>2, <1>8 DEF Waits
<1>14. /\ IsStack(u) /\ Held(h, u) /\ Waits(u) /\ IsStack(s) /\ Held(h, s) /\ s[1] = f
       /\ \A j \in DOMAIN s : 2 <= j => s[j].op \in {"tidy", "learn"}
  BY <1>6, <1>8, <1>11, <1>13
<1> QED
  BY <1>14 DEF s, u, e, f

\* The digram found is a whole rule.
LEMMA CheckReuseRuleKeeps ==
  ASSUME Inductive, CheckReuseRule
  PROVE  Kept
<1> DEFINE a == Head(stack).at
           m == Match(a)
           q == g.sym[m].p
           r == g.sym[q].s
           Y == g.sym[m].n
           t == Return
<1>1. /\ Running("check") /\ Found(a) /\ ~Overlaps(a) /\ MatchWholeRule(m)
      /\ stack' = <<SubstituteFrame(a, r), TidyFrame(r, FALSE)>> \o t /\ g' = g
  BY DEF CheckReuseRule
<1>2. /\ Ends(g, a) /\ Waits(t) /\ IsStack(t) /\ Held(g, t)
      /\ Sound(g) /\ Core(g) /\ AllUsed(g) /\ t # <<>>
      /\ t[1].op = "tidy" => g.sym[g.sym[a].n].s = t[1].by
      /\ a \in Inner(g) /\ g.sym[a].n \in Inner(g)
      /\ m \in Inner(g) /\ g.sym[m].n \in Inner(g) /\ m # a
      /\ g.sym[m].s = g.sym[a].s /\ g.sym[g.sym[m].n].s = g.sym[g.sym[a].n].s
  BY Zenon, <1>1, FoundAt
<1>3. IsGuard(g, q) /\ IsGuard(g, g.sym[Y].n)
  BY Zenon, <1>1 DEF MatchWholeRule
<1>4. g.sym[m].n = Y /\ g.sym[m].p = q /\ g.sym[q].s = r
  OBVIOUS
<1> HIDE DEF a, m, t, q, r, Y
<1>5. /\ m \in Linked(g) /\ q \in Linked(g) /\ g.sym[q].n = m
      /\ Y \in Linked(g) /\ g.sym[Y].p = m /\ g.sym[Y].n \in Linked(g) /\ g.sym[g.sym[Y].n].p = Y
      /\ g.sym[Y].owner = g.sym[m].owner /\ g.sym[q].owner = g.sym[m].owner
      /\ g.sym[g.sym[Y].n].owner = g.sym[m].owner
      /\ q \in DOMAIN g.sym /\ g.sym[Y].n \in DOMAIN g.sym
  <2>1. m \in Linked(g) /\ Y \in Linked(g)
    BY <1>2, <1>4, Lists
  <2>2. q \in Linked(g) /\ g.sym[Y].n \in Linked(g)
    BY <2>1, <1>2, <1>4, Lists
  <2> QED
    BY <2>1, <2>2, <1>2, <1>4, Lists
<1>6. q \in Guards(g) /\ g.sym[Y].n \in Guards(g)
  BY <1>2, <1>3, <1>5, GuardNodes
<1>7. r \in DOMAIN g.rule /\ g.rule[r].guard = q /\ g.sym[m].owner = r /\ g.sym[Y].n = q
  BY <1>2, <1>4, <1>5, <1>6, GuardNodes
<1>8. First(g, r) = m /\ Last(g, r) = Y
  BY <1>5, <1>7 DEF First, Last
<1>9. Pair(g, r)
  <2>1. m # q /\ Y # q /\ m # Y
    BY <1>2, <1>4, <1>6, Neighbours DEF Inner
  <2> QED
    BY <2>1, <1>4, <1>5, <1>7 DEF Pair
<1>10. r # Start
  <2>1. SUFFICES ASSUME r = Start PROVE FALSE
    OBVIOUS
  <2>2. Y = g.sym[a].n
    BY <2>1, <1>2, <1>8 DEF Ends
  <2>3. g.sym[g.sym[a].n].p = a
    BY <1>2, Lists
  <2> QED
    BY <2>2, <2>3, <1>2, <1>5
<1>11. Target(g, a, r)
  BY <1>2, <1>4, <1>7, <1>8, <1>9, <1>10 DEF Target, Ends
<1>12. g.sym[Last(g, r)].s = g.sym[g.sym[a].n].s
  BY <1>2, <1>4, <1>8
<1>13. PICK rk : Ranking(g, rk)
  BY <1>2 DEF Sound
<1>14. \A j \in DOMAIN t : t[j].op = "tidy" => t[j].by # r
  BY <1>2, <1>7, <1>9, <1>12, <1>13, TidyRanks
<1>15. Held(g, <<SubstituteFrame(a, r)>> \o (<<TidyFrame(r, FALSE)>> \o t))
  BY <1>2, <1>11, <1>14, MatchRests
<1>16. stack' = <<SubstituteFrame(a, r)>> \o (<<TidyFrame(r, FALSE)>> \o t)
  BY <1>1, <1>2, Cons2
<1> QED
  BY <1>1, <1>2, <1>15, <1>16, AllInUse DEF Kept

\* A new rule for the digram found.
LEMMA CheckNewRuleKeeps ==
  ASSUME Inductive, CheckNewRule
  PROVE  Kept /\ \E a : Coined(g, a, RuleAddress(g), g')
<1> DEFINE a == Head(stack).at
           m == Match(a)
           r == RuleAddress(g)
           k == RuleOfDigram(g, a)
           t == Return
           d == SubstituteFrame(m, r)
           e == SubstituteFrame(a, r)
           f == TidyFrame(r, TRUE)
           u == <<e>> \o (<<f>> \o t)
<1>1. /\ Running("check") /\ Found(a) /\ ~Overlaps(a) /\ ~MatchWholeRule(m)
      /\ stack' = NewRuleCalls(m, a, r) \o t /\ g' = k
  BY DEF CheckNewRule
<1>2. /\ Ends(g, a) /\ Waits(t) /\ IsStack(t) /\ Held(g, t)
      /\ Sound(g) /\ Core(g) /\ AllUsed(g) /\ t # <<>>
      /\ t[1].op = "tidy" => g.sym[g.sym[a].n].s = t[1].by
      /\ a \in Inner(g) /\ g.sym[a].n \in Inner(g)
      /\ m \in Inner(g) /\ g.sym[m].n \in Inner(g) /\ m # a
      /\ g.sym[m].s = g.sym[a].s /\ g.sym[g.sym[m].n].s = g.sym[g.sym[a].n].s
  BY Zenon, <1>1, FoundAt
<1>3. ~(IsGuard(g, g.sym[m].p) /\ IsGuard(g, g.sym[g.sym[m].n].n)) /\ g.sym[m].n # a
  BY <1>1 DEF MatchWholeRule, Overlaps
<1>4. stack' = <<d, e, f>> \o t
  BY <1>1 DEF NewRuleCalls
<1>5. /\ d.op = "substitute" /\ d.at = m /\ d.by = r
      /\ e.op = "substitute" /\ e.at = a /\ e.by = r /\ f.op = "tidy" /\ f.by = r
  BY DEF SubstituteFrame, TidyFrame
<1>6. Core(k) /\ (\E rk : Ranking(k, rk)) /\ Coined(g, a, r, k)
  <2>1. PICK rk : Ranking(g, rk)
    BY <1>2 DEF Sound
  <2> QED
    BY <2>1, <1>2, RuleOfDigramIs
<1> HIDE DEF a, m, r, k, t
<1>7. PICK rk : Ranking(k, rk)
  BY <1>6
<1>8. /\ Sound(k) /\ (\A x \in DOMAIN k.rule \ {Start} : x # r => Used(k, x))
      /\ Unused(k, r) /\ r # Start
  BY <1>2, <1>6, <1>7, CoinedSound
<1>9. /\ r \notin DOMAIN g.rule /\ DOMAIN k.rule = DOMAIN g.rule \cup {r}
      /\ Inner(g) \subseteq Inner(k)
      /\ \A x \in DOMAIN g.sym :
           /\ k.sym[x].n = g.sym[x].n /\ k.sym[x].p = g.sym[x].p
           /\ k.sym[x].s = g.sym[x].s
      /\ Pair(k, r)
      /\ k.sym[First(k, r)].s = g.sym[a].s /\ k.sym[Last(k, r)].s = g.sym[g.sym[a].n].s
      /\ \A x \in Guards(k) : x \in Guards(g) \/ x \notin DOMAIN g.sym
  BY <1>6 DEF Coined
<1>10. \A x \in DOMAIN g.rule : Alike(g, k, x)
  BY <1>2, <1>6, CoinedAlike
<1>11. /\ a \in DOMAIN g.sym /\ g.sym[a].n \in DOMAIN g.sym
       /\ m \in DOMAIN g.sym /\ g.sym[m].n \in DOMAIN g.sym
       /\ g.sym[m].p \in DOMAIN g.sym /\ g.sym[g.sym[m].n].n \in DOMAIN g.sym
  <2>1. a \in Linked(g) /\ m \in Linked(g) /\ g.sym[a].n \in Linked(g) /\ g.sym[m].n \in Linked(g)
    BY <1>2, Lists
  <2>2. g.sym[m].p \in Linked(g) /\ g.sym[g.sym[m].n].n \in Linked(g)
    BY <2>1, <1>2, NextNode, PrevNode
  <2> QED
    BY <2>1, <2>2, <1>2, Lists
<1>12. Last(k, Start) = Last(g, Start)
  <2>1. Start \in DOMAIN g.rule
    BY <1>2 DEF Sound, Rooted
  <2> QED
    BY <2>1, <1>2, <1>10, AlikeLast
<1>13. Held(k, t)
  <2>1. ASSUME NEW x, \E j \in DOMAIN t : t[j].op = "tidy" /\ t[j].by = x
        PROVE  Tidied(k, x) /\ k.sym[Last(k, x)].s = g.sym[Last(g, x)].s
    <3>1. x \in DOMAIN g.rule \ {Start} /\ Pair(g, x)
      BY <2>1, <1>2 DEF Held, Tidied
    <3>2. Pair(k, x) /\ k.sym[Last(k, x)].s = g.sym[Last(g, x)].s
      BY <3>1, <1>2, <1>10, AlikePair
    <3> QED
      BY <3>1, <3>2, <1>9 DEF Tidied
  <2> QED
    BY <2>1, <1>2, HeldKept
<1>14. \A j \in DOMAIN t : t[j].op = "tidy" => t[j].by # r
  BY <1>2, <1>9 DEF Held, Tidied
<1>15. Target(k, a, r)
  <2>1. g.sym[a].n = Last(g, Start)
    BY <1>2 DEF Ends
  <2>2. /\ k.sym[a].n = g.sym[a].n /\ k.sym[a].s = g.sym[a].s
        /\ k.sym[g.sym[a].n].s = g.sym[g.sym[a].n].s
    BY <1>9, <1>11
  <2>3. r \in DOMAIN k.rule \ {Start} /\ a \in Inner(k) /\ g.sym[a].n \in Inner(k)
    BY <1>2, <1>8, <1>9
  <2> QED
    BY <2>1, <2>2, <2>3, <1>9, <1>12 DEF Target
<1>16. t[1].op = "tidy" => k.sym[k.sym[a].n].s = t[1].by
  BY <1>2, <1>9, <1>11
<1>17. /\ IsStack(u) /\ Held(k, u) /\ u[1] = e
       /\ \A j \in DOMAIN u : 2 <= j => u[j].op \in {"tidy", "learn"}
  <2> DEFINE v == <<SubstituteFrame(a, r)>> \o (<<TidyFrame(r, TRUE)>> \o t)
  <2>1. t # <<>> => (t[1].op = "tidy" => k.sym[k.sym[a].n].s = t[1].by)
    BY <1>16
  <2>2. IsStack(t) /\ Held(k, t) /\ Waits(t)
    BY <1>2, <1>13
  <2>3. IsStack(v)
    BY <2>1, <2>2, <1>14, <1>15, MatchRests
  <2>4. Held(k, v)
    BY <2>1, <2>2, <1>14, <1>15, MatchRests
  <2>5. v[1] = SubstituteFrame(a, r)
    BY <2>1, <2>2, <1>14, <1>15, MatchRests
  <2>6. \A j \in DOMAIN v : 2 <= j => v[j].op \in {"tidy", "learn"}
    BY <2>1, <2>2, <1>14, <1>15, MatchRests
  <2>7. v = u
    OBVIOUS
  <2> HIDE DEF v, u
  <2> QED
    BY <2>3, <2>4, <2>5, <2>6, <2>7
<1>18. FirstTarget(k, m, a, r)
  <2>1. ~Whole(k, m)
    <3>1. k.sym[m].p = g.sym[m].p /\ k.sym[k.sym[m].n].n = g.sym[g.sym[m].n].n
      BY <1>9, <1>11
    <3>2. ~(g.sym[m].p \in Guards(g) /\ g.sym[g.sym[m].n].n \in Guards(g))
      BY <1>2, <1>3, <1>11, GuardNodes
    <3> QED
      BY <3>1, <3>2, <1>9, <1>11 DEF Whole
  <2>2. /\ m \in Inner(k) /\ k.sym[m].n \in Inner(k)
        /\ a \in Inner(k) /\ k.sym[a].n \in Inner(k)
        /\ m # a /\ k.sym[m].n # a
        /\ k.sym[m].s = k.sym[a].s /\ k.sym[k.sym[m].n].s = k.sym[k.sym[a].n].s
    BY <1>2, <1>3, <1>9, <1>11
  <2> QED
    BY <2>1, <2>2, <1>8 DEF FirstTarget
<1> HIDE DEF d, e, f
<1>19. stack' = <<d>> \o u
  <2>1. <<d, e, f>> \o t = <<d>> \o (<<e>> \o (<<f>> \o t))
    BY <1>2, Cons3
  <2> QED
    BY <2>1, <1>4
<1> HIDE DEF u
<1>20. Over(k, d, u[1])
  BY <1>5, <1>17, <1>18 DEF Over
<1>21. Rests(k, d, u)
  BY <1>5, <1>17, <1>20 DEF Rests
<1>22. Held(k, stack')
  BY <1>17, <1>19, <1>21, HeldPush
<1>23. InUse(k, stack')
  <2> DEFINE s == <<d>> \o u
  <2>1. /\ s[1] = d /\ DOMAIN s = 1 .. Len(u) + 1 /\ Len(u) \in Nat
        /\ \A i \in DOMAIN u : s[i + 1] = u[i]
        /\ DOMAIN u = 1 .. Len(u)
    BY <1>17, Positions
  <2>2. 1 \in DOMAIN u
    BY <1>2, <1>17 DEF u
  <2>3. 2 \in DOMAIN s /\ s[2] = e
    BY <2>1, <2>2, <1>17
  <2> HIDE DEF s
  <2>4. Coming(s, r)
    BY <2>1, <2>3, <1>5 DEF Coming
  <2> QED
    BY <2>4, <1>8, <1>19 DEF InUse, s
<1>24. Kept
  BY <1>1, <1>8, <1>22, <1>23 DEF Kept
<1>25. Coined(g, a, RuleAddress(g), g')
  BY <1>1, <1>6 DEF r
<1> QED
  BY <1>24, <1>25

-----------------------------------------------------------------------------
(* substitute.                                                              *)

\* The last symbol of the start rule is an inner node before its guard.
LEMMA LastNode ==
  ASSUME NEW h, Sound(h), Last(h, Start) \in Inner(h)
  PROVE  /\ Start \in DOMAIN h.rule
         /\ LET G == h.rule[Start].guard
                z == Last(h, Start)
            IN  /\ G \in Guards(h) /\ G \in DOMAIN h.sym /\ z = h.sym[G].p
                /\ h.sym[z].n = G /\ h.sym[z].owner = Start /\ z \in Linked(h)
<1>1. Core(h) /\ Start \in DOMAIN h.rule
  BY DEF Sound, Rooted
<1> DEFINE G == h.rule[Start].guard
<1>2. G \in Guards(h) /\ G \in DOMAIN h.sym /\ G \in Linked(h) /\ h.sym[G].owner = Start
  BY <1>1, GuardNodes
<1>3. Last(h, Start) = h.sym[G].p
  BY DEF Last
<1> HIDE DEF G
<1>4. h.sym[Last(h, Start)].n = G /\ h.sym[Last(h, Start)].owner = Start
      /\ Last(h, Start) \in Linked(h)
  BY <1>1, <1>2, <1>3, Lists
<1> QED
  BY <1>1, <1>2, <1>3, <1>4 DEF G

\* The last substitution of a match: the rule replaces the end of the start rule.
LEMMA SubstituteLast ==
  ASSUME Inductive, Substitute, Return[1].op = "tidy"
  PROVE  /\ Kept
         /\ Swaps(g, Head(stack).at, Head(stack).by, g') /\ Used(g, Head(stack).by)
<1> DEFINE f == Head(stack)
           a == f.at
           r == f.by
           t == Return
           e == t[1]
           q == g.sym[a].p
           Y == g.sym[a].n
           k == Replace(g, a, r)
           B == SymbolAddress(g)
           c == CheckFrame(q, TRUE)
           G == g.rule[Start].guard
<1>1. Running("substitute") /\ g' = k /\ stack' = <<c>> \o t
  BY DEF Substitute
<1>2. /\ f.op = "substitute" /\ f = stack[1] /\ IsStack(t) /\ Held(g, t) /\ Rests(g, f, t)
      /\ Fits(f, t) /\ Sound(g) /\ Core(g) /\ InUse(g, stack) /\ stack # <<>> /\ IsStack(stack)
  BY <1>1, Top DEF Inductive
<1>3. c.op = "check" /\ c.at = q /\ c.orNext
  BY DEF CheckFrame
<1>4. g.sym[a].p = q /\ g.sym[a].n = Y /\ g.rule[Start].guard = G
  OBVIOUS
<1>5. t # <<>> /\ e.by = r /\ e.op = "tidy"
  BY <1>2 DEF Fits
<1> HIDE DEF f, a, r, t, c
<1>6. Target(g, a, r)
  <2>1. Over(g, f, e)
    BY <1>2, <1>5 DEF Rests
  <2> QED
    BY <2>1, <1>2, <1>5 DEF Over, a, r
<1>7. /\ r \in DOMAIN g.rule \ {Start} /\ Pair(g, r)
      /\ a \in Inner(g) /\ Y \in Inner(g) /\ Y = Last(g, Start)
      /\ g.sym[a].s = g.sym[First(g, r)].s /\ g.sym[Y].s = g.sym[Last(g, r)].s
  BY <1>6 DEF Target
<1>8. /\ Start \in DOMAIN g.rule /\ G \in Guards(g) /\ G \in DOMAIN g.sym
      /\ g.sym[Y].n = G /\ g.sym[Y].owner = Start /\ Y \in Linked(g) /\ Y = g.sym[G].p
  BY <1>2, <1>7, LastNode
<1>9. /\ a \in Linked(g) /\ a \notin Guards(g) /\ g.sym[a].owner = Start /\ g.sym[Y].p = a
      /\ q \in Linked(g) /\ g.sym[q].n = a /\ q # a /\ q # Y /\ Y \notin Guards(g)
      /\ q \in DOMAIN g.sym
  <2>1. a \in Linked(g) /\ a \notin Guards(g) /\ Y \notin Guards(g)
    BY <1>2, <1>7, Lists
  <2>2. g.sym[Y].p = a /\ g.sym[Y].owner = g.sym[a].owner /\ q \in Linked(g) /\ g.sym[q].n = a
    BY <2>1, <1>2, <1>4, Lists
  <2>3. q # a /\ q # Y
    BY <2>1, <1>2, <1>4, <1>7, Neighbours
  <2>4. q \in DOMAIN g.sym
    BY <2>2, <1>2, Lists
  <2> QED
    BY <2>1, <2>2, <2>3, <2>4, <1>8
<1>10. \E rk : Ranking(g, rk) /\ rk[r] < rk[Start]
  <2>1. PICK rk : Ranking(g, rk)
    BY <1>2 DEF Sound
  <2> QED
    BY <2>1, <1>2, <1>7, <1>8, RaiseStart
<1>11. PICK rk : Ranking(g, rk) /\ rk[r] < rk[Start]
  BY <1>10
<1>12. Core(k) /\ Ranking(k, rk) /\ Replaced(g, a, r, B, k)
  BY <1>2, <1>4, <1>7, <1>9, <1>11, ReplaceIs
<1> HIDE DEF k, q, Y, B, G
<1>0. \A x : ~Coming(stack, x)
  <2>1. PICK F : stack \in Seq(F)
    BY <1>2 DEF IsStack
  <2>2. 2 \in DOMAIN stack => stack[2] = e
    <3>1. Len(t) = Len(stack) - 1 /\ \A i \in 1 .. Len(t) : t[i] = stack[i + 1]
      BY <2>1, <1>2, HeadTailProperties DEF t, Return
    <3>2. DOMAIN stack = 1 .. Len(stack) /\ Len(stack) \in Nat
      BY <2>1, LenProperties
    <3>3. 2 \in DOMAIN stack => 1 \in 1 .. Len(t)
      BY <3>1, <3>2
    <3> QED
      BY <3>1, <3>3
  <2> QED
    BY <2>2, <1>5 DEF Coming
<1>13. \A x \in DOMAIN g.rule \ {Start} : x = r \/ Used(g, x)
  BY <1>0, <1>2 DEF InUse
<1>14. Sound(k) /\ AllUsed(k)
  BY <1>2, <1>4, <1>7, <1>9, <1>12, <1>13, ReplacedSound
<1>15. Waits(t)
  <2>1. PICK F : t \in Seq(F)
    BY <1>2 DEF IsStack
  <2>2. DOMAIN t = 1 .. Len(t) /\ Len(t) \in Nat
    BY <2>1, LenProperties
  <2> QED
    BY <2>2, <1>2, <1>5 DEF Rests, Waits
<1>16. Held(k, t)
  <2>1. ASSUME NEW x, \E j \in DOMAIN t : t[j].op = "tidy" /\ t[j].by = x
        PROVE  Tidied(k, x) /\ k.sym[Last(k, x)].s = g.sym[Last(g, x)].s
    <3>1. x \in DOMAIN g.rule \ {Start} /\ Pair(g, x)
      BY <2>1, <1>2 DEF Held, Tidied
    <3>2. Alike(g, k, x)
      BY <3>1, <1>2, <1>4, <1>7, <1>9, <1>12, ReplacedAlike
    <3>3. DOMAIN k.rule = DOMAIN g.rule
      BY <1>12 DEF Replaced
    <3> QED
      BY <3>1, <3>2, <3>3, <1>2, AlikeIs DEF Tidied
  <2> QED
    BY <2>1, <1>2, <1>15, HeldKept
<1>17. /\ k.sym[q].n = B /\ k.sym[G].p = B /\ k.rule[Start].guard = G /\ k.sym[B].s = r
       /\ q \in Linked(k) /\ B \in Inner(k) /\ NoEntry(k, q)
  <2>1. G # a /\ G # Y
    BY <1>8, <1>9
  <2> QED
    BY <2>1, <1>4, <1>8, <1>9, <1>12 DEF Replaced
<1>18. Ends(k, q)
  BY <1>17 DEF Ends, Last
<1>19. Over(k, c, e)
  BY <1>3, <1>5, <1>17, <1>18 DEF Over
<1>20. Rests(k, c, t)
  BY <1>2, <1>3, <1>19 DEF Rests
<1>21. Held(k, <<c>> \o t)
  BY <1>2, <1>16, <1>20, HeldPush
<1>22. Kept
  BY <1>1, <1>14, <1>21, AllInUse DEF Kept
<1>23. Used(g, r)
  <2>1. ~Coming(stack, r)
    BY <1>0
  <2> QED
    BY <2>1, <1>2, <1>7 DEF InUse
<1>24. Swaps(g, a, r, g')
  BY <1>1, <1>4, <1>7, <1>9, <1>12 DEF Swaps
<1> QED
  BY <1>22, <1>23, <1>24 DEF f, a, r

\* The first substitution of a match: the new rule replaces the older digram.
LEMMA SubstituteFirst ==
  ASSUME Inductive, Substitute, Return[1].op = "substitute"
  PROVE  Kept /\ Swaps(g, Head(stack).at, Head(stack).by, g')
<1> DEFINE f == Head(stack)
           m == f.at
           r == f.by
           t == Return
           e == t[1]
           a == e.at
           u == Tail(t)
           q == g.sym[m].p
           Y == g.sym[m].n
           o == g.sym[m].owner
           k == Replace(g, m, r)
           B == SymbolAddress(g)
           c == CheckFrame(q, TRUE)
<1>1. Running("substitute") /\ g' = k /\ stack' = <<c>> \o t
  BY DEF Substitute
<1>2. /\ f.op = "substitute" /\ f = stack[1] /\ IsStack(t) /\ Held(g, t) /\ Rests(g, f, t)
      /\ Fits(f, t) /\ Sound(g) /\ Core(g) /\ InUse(g, stack) /\ stack # <<>> /\ IsStack(stack)
  BY <1>1, Top DEF Inductive
<1>3. c.op = "check" /\ c.at = q /\ c.orNext
  BY DEF CheckFrame
<1>4. g.sym[m].p = q /\ g.sym[m].n = Y /\ g.sym[m].owner = o
  OBVIOUS
<1>5. t # <<>> /\ e.by = r /\ e.op = "substitute"
  BY <1>2 DEF Fits
<1> HIDE DEF f, r, t, c
<1>6. FirstTarget(g, m, a, r)
  <2>1. Over(g, f, e)
    BY <1>2, <1>5 DEF Rests
  <2> QED
    BY <2>1, <1>2, <1>5 DEF Over, m, r
<1>7. /\ t = <<e>> \o u /\ IsStack(u) /\ Held(g, u) /\ Rests(g, e, u) /\ Fits(e, u)
      /\ e = Head(t)
  <2>1. t = <<Head(t)>> \o Tail(t) /\ IsStack(Tail(t))
    BY <1>2, <1>5, Decons
  <2>2. Held(g, Tail(t)) /\ Rests(g, Head(t), Tail(t))
    BY <1>2, <1>5, HeldPop
  <2>3. Head(t) = t[1] /\ Fits(Head(t), Tail(t))
    BY <1>2, <1>5, Pop
  <2> QED
    BY <2>1, <2>2, <2>3
<1> HIDE DEF m, e, a, u, q, Y, o, k, B
<1>8. /\ DOMAIN u = 1 .. Len(u) /\ Len(u) \in Nat /\ DOMAIN t = 1 .. Len(u) + 1
      /\ \A j \in DOMAIN u : t[j + 1] = u[j] /\ j + 1 \in DOMAIN t
      /\ u # <<>> => 1 \in DOMAIN u
  <2>1. /\ DOMAIN u = 1 .. Len(u) /\ Len(u) \in Nat /\ DOMAIN t = 1 .. Len(u) + 1
        /\ \A j \in DOMAIN u : t[j + 1] = u[j]
        /\ u = <<>> <=> Len(u) = 0
    BY <1>7, Positions
  <2> QED
    BY <2>1
<1>9. u # <<>> /\ u[1].by = r /\ u[1].op = "tidy"
  <2>1. u # <<>> /\ u[1].op \in {"substitute", "tidy"} /\ u[1].by = e.by
    BY <1>5, <1>7 DEF Fits
  <2>2. u[1].op \in {"tidy", "learn"}
    <3>1. 1 \in DOMAIN u
      BY <2>1, <1>8
    <3>2. t[1 + 1] = u[1] /\ 1 + 1 \in DOMAIN t
      BY <3>1, <1>8
    <3>3. t[1 + 1].op \in {"tidy", "learn"}
      BY <3>2, <1>2 DEF Rests
    <3> QED
      BY <3>2, <3>3
  <2> QED
    BY <2>1, <2>2, <1>5
<1>10. Waits(u)
  <2> SUFFICES ASSUME NEW j \in DOMAIN u PROVE u[j].op \in {"tidy", "learn"}
    BY DEF Waits
  <2>1. 2 <= j + 1 /\ j + 1 \in DOMAIN t /\ t[j + 1] = u[j]
    BY <1>8
  <2>2. t[j + 1].op \in {"tidy", "learn"}
    BY <2>1, <1>2 DEF Rests
  <2> QED
    BY <2>1, <2>2
<1>11. Target(g, a, r)
  <2>1. Over(g, e, u[1])
    BY <1>7, <1>9 DEF Rests
  <2> QED
    BY <2>1, <1>5, <1>9 DEF Over, a
<1>12. /\ r \in DOMAIN g.rule \ {Start} /\ Pair(g, r)
       /\ g.sym[a].n = Last(g, Start)
       /\ g.sym[a].s = g.sym[First(g, r)].s
       /\ g.sym[g.sym[a].n].s = g.sym[Last(g, r)].s
  BY <1>11 DEF Target
<1>13. /\ m \in Inner(g) /\ Y \in Inner(g) /\ a \in Inner(g) /\ g.sym[a].n \in Inner(g)
       /\ m # a /\ Y # a /\ g.sym[m].s = g.sym[a].s /\ g.sym[Y].s = g.sym[g.sym[a].n].s
       /\ Unused(g, r) /\ ~Whole(g, m)
  BY <1>4, <1>6 DEF FirstTarget
<1>14. /\ m \in Linked(g) /\ m \notin Guards(g) /\ g.sym[Y].p = m /\ g.sym[Y].owner = o
       /\ Y \in Linked(g) /\ Y \notin Guards(g)
       /\ q \in Linked(g) /\ g.sym[q].n = m /\ q # m /\ q # Y
       /\ q \in DOMAIN g.sym /\ o \in DOMAIN g.rule
       /\ a \in DOMAIN g.sym /\ g.sym[a].n \in DOMAIN g.sym /\ g.sym[g.sym[a].n].p = a
       /\ m \in DOMAIN g.sym /\ Y \in DOMAIN g.sym
  <2>1. m \in Linked(g) /\ m \notin Guards(g) /\ Y \in Linked(g) /\ Y \notin Guards(g)
        /\ a \in Linked(g) /\ g.sym[a].n \in Linked(g)
    BY <1>2, <1>13, Lists
  <2>2. g.sym[Y].p = m /\ g.sym[Y].owner = o /\ q \in Linked(g) /\ g.sym[q].n = m
        /\ g.sym[g.sym[a].n].p = a /\ o \in DOMAIN g.rule
    BY <2>1, <1>2, <1>4, Lists
  <2>3. q # m /\ q # Y
    BY <2>1, <1>2, <1>4, <1>13, Neighbours
  <2>4. q \in DOMAIN g.sym /\ a \in DOMAIN g.sym /\ g.sym[a].n \in DOMAIN g.sym
        /\ m \in DOMAIN g.sym /\ Y \in DOMAIN g.sym
    BY <2>1, <2>2, <1>2, Lists
  <2> QED
    BY <2>1, <2>2, <2>3, <2>4
<1>15. /\ Start \in DOMAIN g.rule
       /\ LET G == g.rule[Start].guard
          IN  /\ G \in Guards(g) /\ G \in DOMAIN g.sym /\ Last(g, Start) = g.sym[G].p
              /\ g.sym[Last(g, Start)].n = G
  BY <1>2, <1>12, <1>13, LastNode
\* A rule of two symbols that owns m would be whole.
<1>16. \A x \in DOMAIN g.rule : Pair(g, x) => x # o
  <2> SUFFICES ASSUME NEW x \in DOMAIN g.rule, Pair(g, x), x = o PROVE FALSE
    OBVIOUS
  <2> DEFINE G == g.rule[x].guard
             F == First(g, x)
             L == Last(g, x)
  <2>1. /\ g.sym[F].n = L /\ F # L /\ g.sym[F].p = G /\ g.sym[L].n = G
        /\ m = F \/ m = L
    BY <1>2, <1>4, <1>13, PairNodes
  <2>2. G \in Guards(g)
    BY <1>2, GuardNodes
  <2> HIDE DEF F, L, G
  <2>3. m = F
    BY <2>1, <2>2, <1>4, <1>14
  <2>4. q = G /\ g.sym[Y].n = G
    BY <2>1, <2>3, <1>4
  <2> QED
    BY <2>2, <2>4, <1>4, <1>13 DEF Whole
<1>17. r # o
  BY <1>12, <1>16
<1>18. \E rk : Ranking(g, rk) /\ rk[r] < rk[o]
  <2>1. PICK rk : Ranking(g, rk)
    BY <1>2 DEF Sound
  <2>2. \A b \in Inner(g) : g.sym[b].s # r
    BY <1>2, <1>13, Lists DEF Unused
  <2>3. \A b \in Inner(g) : g.sym[b].owner = r /\ g.sym[b].s \in DOMAIN g.rule =>
           rk[g.sym[b].s] < rk[o]
    <3> SUFFICES ASSUME NEW b \in Inner(g), g.sym[b].owner = r, g.sym[b].s \in DOMAIN g.rule
                 PROVE  rk[g.sym[b].s] < rk[o]
      OBVIOUS
    <3>1. b = First(g, r) \/ b = Last(g, r)
      BY <1>2, <1>12, PairNodes
    <3>2. g.sym[b].s = g.sym[m].s \/ g.sym[b].s = g.sym[Y].s
      BY <3>1, <1>12, <1>13
    <3> QED
      BY <3>2, <2>1, <1>4, <1>13, <1>14 DEF Ranking
  <2> QED
    BY <2>1, <2>2, <2>3, <1>2, <1>12, <1>14, <1>17, LowerUnused
<1>19. PICK rk : Ranking(g, rk) /\ rk[r] < rk[o]
  BY <1>18
<1>20. Core(k) /\ Ranking(k, rk) /\ Replaced(g, m, r, B, k)
  BY <1>2, <1>4, <1>12, <1>13, <1>19, ReplaceIs DEF k, B
<1>21. /\ B \notin DOMAIN g.sym
       /\ DOMAIN k.sym = (DOMAIN g.sym \ {m, Y}) \cup {B}
       /\ \A x \in DOMAIN g.sym \ {m, Y} :
           /\ k.sym[x].n = IF x = q THEN B ELSE g.sym[x].n
           /\ k.sym[x].p = IF x = g.sym[Y].n THEN B ELSE g.sym[x].p
           /\ k.sym[x].s = g.sym[x].s
       /\ k.sym[B].s = r /\ DOMAIN k.rule = DOMAIN g.rule
       /\ \A x \in DOMAIN g.rule : k.rule[x].guard = g.rule[x].guard
       /\ Guards(k) = Guards(g)
       /\ Linked(k) = (Linked(g) \ {m, Y}) \cup {B}
       /\ Inner(k) = (Inner(g) \ {m, Y}) \cup {B}
       /\ NoEntry(k, q) /\ NoEntry(k, B)
  BY <1>4, <1>20 DEF Replaced
<1>22. Sound(k) /\ AllUsed(k)
  <2>1. \A x \in DOMAIN g.rule \ {Start} : x = r \/ Used(g, x)
    <3>1. f.by = r
      BY DEF r
    <3> QED
      BY <3>1, <1>2 DEF InUse, Coming
  <2>2. g.sym[m].s = g.sym[First(g, r)].s /\ g.sym[g.sym[m].n].s = g.sym[Last(g, r)].s
    BY <1>4, <1>12, <1>13
  <2>3. g.sym[m].n \in Inner(g) /\ r # g.sym[m].owner
    BY <1>4, <1>13, <1>17
  <2> QED
    BY <2>1, <2>2, <2>3, <1>2, <1>12, <1>13, <1>20, ReplacedSound
<1>23. \A x \in DOMAIN g.rule : Pair(g, x) => Alike(g, k, x)
  BY <1>2, <1>4, <1>13, <1>16, <1>20, ReplacedAlike
<1>24. Held(k, u)
  <2>1. ASSUME NEW x, \E j \in DOMAIN u : u[j].op = "tidy" /\ u[j].by = x
        PROVE  Tidied(k, x) /\ k.sym[Last(k, x)].s = g.sym[Last(g, x)].s
    <3>1. x \in DOMAIN g.rule \ {Start} /\ Pair(g, x)
      BY <2>1, <1>7 DEF Held, Tidied
    <3> QED
      <4>1. Pair(k, x) /\ k.sym[Last(k, x)].s = g.sym[Last(g, x)].s
        BY <3>1, <1>2, <1>23, AlikePair
      <4> QED
        BY <4>1, <3>1, <1>21 DEF Tidied
  <2> QED
    BY <2>1, <1>7, <1>10, HeldKept
<1>25. Target(k, a, r)
  <2> DEFINE G == g.rule[Start].guard
             z == g.sym[a].n
  <2>1. /\ G \in Guards(g) /\ G \in DOMAIN g.sym /\ z = g.sym[G].p /\ g.sym[z].n = G
        /\ z = Last(g, Start) /\ g.sym[z].p = a
    BY <1>12, <1>14, <1>15
  <2>2. Last(k, Start) = k.sym[G].p
    BY <1>15, <1>21 DEF Last
  <2>3. z \in Inner(g) /\ z \in DOMAIN g.sym
    BY <1>13, <1>14
  <2>4. g.sym[a].n = z
    OBVIOUS
  <2> HIDE DEF G, z
  <2>5. z # m
    BY <2>1, <1>4, <1>14
  <2>6. z # Y
    BY <2>1, <1>13, <1>14
  <2>7. a # q
    BY <2>4, <2>5, <1>14
  <2>8. k.sym[a].n = z /\ k.sym[a].s = g.sym[a].s /\ k.sym[z].s = g.sym[z].s
    BY <2>3, <2>4, <2>5, <2>6, <2>7, <1>13, <1>14, <1>21
  <2>9. k.sym[G].p = z
    <3>1. g.sym[Y].n # G
      <4>1. g.sym[g.sym[Y].n].p = Y
        BY <1>2, <1>14, Lists
      <4> QED
        BY <4>1, <2>1, <2>6
    <3>2. G # m /\ G # Y
      BY <2>1, <1>14
    <3> QED
      BY <3>1, <3>2, <2>1, <1>21
  <2>10. /\ Pair(k, r) /\ k.sym[First(k, r)].s = g.sym[First(g, r)].s
         /\ k.sym[Last(k, r)].s = g.sym[Last(g, r)].s
    <3>1. r \in DOMAIN g.rule /\ Pair(g, r)
      BY <1>12
    <3> QED
      BY <3>1, <1>2, <1>23, AlikePair
  <2>11. a \in Inner(k) /\ z \in Inner(k)
    BY <2>3, <2>5, <2>6, <1>13, <1>21
  <2> QED
    BY <2>2, <2>4, <2>8, <2>9, <2>10, <2>11, <1>12, <1>21 DEF Target
<1>26. Held(k, t)
  <2>1. Over(k, e, u[1])
    BY <1>5, <1>9, <1>25 DEF Over, a
  <2>2. Rests(k, e, u)
    BY <2>1, <1>5, <1>7 DEF Rests
  <2> QED
    BY <2>2, <1>7, <1>24, HeldPush
<1>27. BeforeNew(k, q, r)
  <2>1. q \in Linked(k) /\ k.sym[q].n = B /\ B \in Inner(k)
    BY <1>14, <1>21
  <2>2. Sole(k, B, r)
    BY <1>13, <1>21 DEF Sole, Unused
  <2> QED
    BY <2>1, <2>2, <1>21 DEF BeforeNew
<1>28. Over(k, c, e)
  BY <1>3, <1>5, <1>27 DEF Over
<1>29. Rests(k, c, t)
  BY <1>2, <1>3, <1>28 DEF Rests, e
<1>30. Held(k, <<c>> \o t)
  BY <1>2, <1>26, <1>29, HeldPush
<1>31. Kept
  BY <1>1, <1>22, <1>30, AllInUse DEF Kept
<1>32. Swaps(g, m, r, g')
  BY <1>1, <1>4, <1>12, <1>13, <1>17, <1>20 DEF Swaps
<1> QED
  BY <1>31, <1>32 DEF f, m, r

\* A substitution keeps the invariant and makes a use of its rule.
LEMMA SubstituteKeeps ==
  ASSUME Inductive, Substitute
  PROVE  /\ Kept
         /\ Swaps(g, Head(stack).at, Head(stack).by, g')
         /\ Return[1].op = "tidy" => Used(g, Head(stack).by)
<1>1. Running("substitute")
  BY DEF Substitute
<1>2. Return # <<>> /\ Return[1].op \in {"substitute", "tidy"}
  BY <1>1, Top DEF Fits
<1> QED
  BY <1>2, SubstituteFirst, SubstituteLast

-----------------------------------------------------------------------------
(* The end of match.                                                        *)

\* A rule used once, first in the rule that is tidied up, may be expanded.
LEMMA UnderusedIs ==
  ASSUME NEW h, Sound(h), NEW r \in DOMAIN h.rule \ {Start}, Pair(h, r), Underused(h, r)
  PROVE  LET a == First(h, r)
         IN  Expandable(h, a, h.sym[a].s) /\ h.sym[a].owner = r /\ h.sym[a].n = Last(h, r)
<1> DEFINE a == First(h, r)
           v == h.sym[a].s
<1>1. Core(h) /\ Long(h)
  BY DEF Sound
<1>2. /\ a \in Inner(h) /\ h.sym[a].owner = r /\ h.sym[a].n = Last(h, r)
      /\ Last(h, r) \in Inner(h) /\ h.sym[a].p = h.rule[r].guard
  BY <1>1, PairNodes
<1>3. NT(v) /\ h.rule[v].count = 1
  BY DEF Underused
<1> HIDE DEF a
<1>4. a \in DOMAIN h.sym /\ a \notin Guards(h) /\ v # Start
  BY <1>1, <1>2, Lists
<1>5. v \in DOMAIN h.rule
  BY <1>1, <1>3, <1>4, Values
<1>6. /\ h.rule[v].users = {b \in DOMAIN h.sym \ Guards(h) : h.sym[b].s = v}
      /\ h.rule[v].count = Cardinality(h.rule[v].users)
      /\ IsFiniteSet(DOMAIN h.sym)
  BY <1>1, <1>5 DEF Core, Counted
<1>7. h.rule[v].users = {a}
  <2>1. IsFiniteSet(h.rule[v].users)
    BY <1>6, FS_Subset
  <2>2. PICK b : h.rule[v].users = {b}
    BY <2>1, <1>3, <1>6, FS_Singleton
  <2>3. a \in h.rule[v].users
    BY <1>4, <1>6
  <2> QED
    BY <2>2, <2>3
<1>8. h.rule[r].guard \in Guards(h)
  BY <1>1, GuardNodes
<1>9. h.sym[h.rule[v].guard].n # h.rule[v].guard
      /\ h.sym[h.sym[h.rule[v].guard].n].n # h.rule[v].guard
  BY Zenon, <1>1, <1>4, <1>5 DEF Long
<1>10. Expandable(h, a, v)
  BY Zenon, <1>2, <1>5, <1>7, <1>8, <1>9 DEF Expandable
<1> QED
  BY <1>2, <1>10 DEF a

\* Expanding it.
LEMMA ExpandKeeps ==
  ASSUME NEW h, Sound(h), AllUsed(h), NEW t, Held(h, t), IsStack(t), Waits(t),
         NEW r \in DOMAIN h.rule \ {Start}, Pair(h, r), Underused(h, r),
         t # <<>> => (t[1].op = "tidy" => h.sym[Last(h, r)].s = t[1].by),
         \A j \in DOMAIN t : t[j].op = "tidy" => t[j].by # r
  PROVE  LET k == Expand(h, First(h, r))
             v == h.sym[First(h, r)].s
         IN  /\ Sound(k) /\ AllUsed(k) /\ Held(k, t)
             /\ \A j \in DOMAIN t : t[j].op = "tidy" => t[j].by # v
<1> DEFINE a == First(h, r)
           v == h.sym[a].s
           left == h.sym[a].p
           right == h.sym[a].n
           G == h.rule[v].guard
           f == h.sym[G].n
           l == h.sym[G].p
           k == Expand(h, a)
<1>1. Core(h)
  BY DEF Sound
<1>2. PICK rk : Ranking(h, rk)
  BY DEF Sound
<1>3. Expandable(h, a, v) /\ h.sym[a].owner = r /\ right = Last(h, r)
  BY UnderusedIs
<1>4. Around(h, a, v, h.sym[a].owner, left, right, G, f, l)
  BY <1>1, <1>2, <1>3, ExpandNodes
<1>5. v = h.sym[a].s
  OBVIOUS
<1> HIDE DEF a, v, left, right, G, f, l, k
<1>6. Around(h, a, v, r, left, right, G, f, l)
  BY <1>3, <1>4
<1>7. IsHeap(k) /\ Spliced(h, a, v, left, right, f, l, G, k) /\ Entries3(h, a, right, l, k)
  BY <1>1, <1>6, ExpandIs DEF k
<1>8. h.rule[v].users = {a} /\ v \in DOMAIN h.rule
  BY <1>3 DEF Expandable
<1>9. /\ Core(k) /\ (\E e : Ranking(k, e))
      /\ Guards(k) = Guards(h) \ {G} /\ Linked(k) = Linked(h) \ {G, a}
  BY <1>1, <1>2, <1>6, <1>7, <1>8, SplicedCore
<1>10. Sound(k) /\ AllUsed(k)
  <2>1. PICK e : Ranking(k, e)
    BY <1>9
  <2> QED
    BY <2>1, <1>6, <1>7, <1>9, SplicedSound
\* The rules that wait are not the one expanded, which is used here alone.
<1>11. \A b \in DOMAIN h.sym \ Guards(h) : h.sym[b].s = v => b = a
  <2>1. h.rule[v].users = {b \in DOMAIN h.sym \ Guards(h) : h.sym[b].s = v}
    BY <1>1, <1>8 DEF Core, Counted
  <2> QED
    BY <2>1, <1>8
<1>12. \A x \in DOMAIN h.rule : Pair(h, x) /\ h.sym[Last(h, x)].s = v => Last(h, x) = a
  <2> SUFFICES ASSUME NEW x \in DOMAIN h.rule, Pair(h, x), h.sym[Last(h, x)].s = v
               PROVE  Last(h, x) = a
    OBVIOUS
  <2>1. Last(h, x) \in Inner(h)
    BY <1>1, PairNodes
  <2>2. Last(h, x) \in DOMAIN h.sym \ Guards(h)
    BY <2>1, <1>1, Lists
  <2> QED
    BY <2>2, <1>11
<1>13. a # Last(h, r) /\ a = First(h, r)
  BY <1>1, PairNodes DEF a
<1>14. PICK F : t \in Seq(F)
  BY DEF IsStack
<1>15. DOMAIN t = 1 .. Len(t) /\ Len(t) \in Nat
  BY <1>14, LenProperties
<1>16. ASSUME NEW j \in DOMAIN t, t[j].op = "tidy" PROVE t[j].by # v
  <2>1. SUFFICES ASSUME t[j].by = v PROVE FALSE
    OBVIOUS
  <2>2. CASE j = 1
    <3>1. t # <<>>
      BY <2>2, <1>15
    <3>2. h.sym[Last(h, r)].s = v
      BY <3>1, <2>1, <2>2, <1>16
    <3> QED
      BY <3>2, <1>12, <1>13
  <2>3. CASE j # 1
    <3> DEFINE i == j - 1
    <3>1. i \in DOMAIN t /\ i + 1 = j /\ i # Len(t)
      BY <2>3, <1>15
    <3> HIDE DEF i
    <3>2. t[i].op = "tidy"
      <4>1. t[i].op = "learn" => i = Len(t)
        BY <3>1 DEF IsStack, Nested
      <4> QED
        BY <4>1, <3>1 DEF Waits
    <3>3. Over(h, t[i], t[i + 1])
      BY <3>1 DEF Held
    <3>4. h.sym[Last(h, t[i].by)].s = v
      BY <3>1, <3>2, <3>3, <2>1, <1>16 DEF Over
    <3>5. t[i].by \in DOMAIN h.rule /\ Pair(h, t[i].by)
      BY <3>1, <3>2 DEF Held, Tidied
    <3>6. Last(h, t[i].by) = a /\ h.sym[Last(h, t[i].by)].owner = t[i].by
      BY <3>4, <3>5, <1>1, <1>12, PairNodes
    <3> QED
      BY <3>1, <3>2, <3>6, <1>3
  <2> QED
    BY <2>2, <2>3
<1>17. Held(k, t)
  <2>1. ASSUME NEW x, \E j \in DOMAIN t : t[j].op = "tidy" /\ t[j].by = x
        PROVE  Tidied(k, x) /\ k.sym[Last(k, x)].s = h.sym[Last(h, x)].s
    <3>1. x \in DOMAIN h.rule \ {Start} /\ Pair(h, x)
      BY <2>1 DEF Held, Tidied
    <3>2. x # v /\ x # r
      BY <2>1, <1>16
    <3>3. Alike(h, k, x)
      BY <3>1, <3>2, <1>1, <1>6, <1>7, SplicedAlike
    <3>4. x \in DOMAIN k.rule
      BY <3>3 DEF Alike
    <3> QED
      BY <3>1, <3>3, <3>4, <1>1, AlikeIs DEF Tidied
  <2> QED
    BY <2>1, HeldKept
<1> QED
  BY <1>10, <1>16, <1>17 DEF k, a, v

\* Tidying a rule keeps the invariant, whether it expands or not.
LEMMA TidyKeeps ==
  ASSUME Inductive, Tidy
  PROVE  Kept
<1> DEFINE f == Head(stack)
           r == f.by
           t == Return
           h == IF f.fresh THEN SetDigram(g, First(g, r)) ELSE g
<1>1. /\ Running("tidy") /\ stack' = t
      /\ g' = IF Underused(h, r) THEN Expand(h, First(h, r)) ELSE h
  BY DEF Tidy
<1>2. /\ f.op = "tidy" /\ f = stack[1] /\ IsStack(t) /\ Held(g, t) /\ Rests(g, f, t)
      /\ Fits(f, t) /\ Sound(g) /\ Core(g) /\ InUse(g, stack)
  BY <1>1, Top DEF Inductive
<1>3. AllUsed(g)
  BY <1>2, InUseAll
<1> HIDE DEF f, t
<1>4. /\ r \in DOMAIN g.rule \ {Start} /\ Pair(g, r)
      /\ t # <<>> => Over(g, f, t[1])
      /\ \A j \in DOMAIN t : t[j].op \in {"tidy", "learn"} /\ (t[j].op = "tidy" => t[j].by # r)
  BY <1>2 DEF Rests, Tidied
<1>5. Waits(t)
  BY <1>4 DEF Waits
<1>6. t # <<>> => (t[1].op = "tidy" => g.sym[Last(g, r)].s = t[1].by)
  BY <1>2, <1>4 DEF Over
<1>7. First(g, r) \in Linked(g)
  BY <1>2, <1>4, PairNodes, Lists
<1>8. Sound(h) /\ h.sym = g.sym /\ h.rule = g.rule
  BY <1>2, <1>7, SetDigramSound
<1> HIDE DEF h, r
<1>9. Held(h, t)
  <2>1. \A j \in DOMAIN t : t[j].op # "check"
    BY <1>4
  <2> QED
    BY <2>1, <1>2, <1>8, HeldTable
<1>10. /\ AllUsed(h) /\ r \in DOMAIN h.rule \ {Start} /\ Pair(h, r)
       /\ t # <<>> => (t[1].op = "tidy" => h.sym[Last(h, r)].s = t[1].by)
  <2>1. Guards(h) = Guards(g) /\ (Pair(h, r) <=> Pair(g, r)) /\ Last(h, r) = Last(g, r)
    BY <1>8 DEF Guards, Pair, Last
  <2>2. AllUsed(h)
    BY <2>1, <1>3, <1>8 DEF AllUsed, Used
  <2> QED
    BY <2>1, <2>2, <1>4, <1>6, <1>8
<1>11. CASE Underused(h, r)
  BY <1>1, <1>2, <1>4, <1>5, <1>8, <1>9, <1>10, <1>11, ExpandKeeps, AllInUse DEF Kept
<1>12. CASE ~Underused(h, r)
  BY <1>1, <1>8, <1>9, <1>10, <1>12, AllInUse DEF Kept
<1> QED
  BY <1>11, <1>12

-----------------------------------------------------------------------------
(* input.                                                                   *)

\* The heap with x appended to the start rule, where check is to be called.
LEMMA InputAppends ==
  ASSUME Inductive, stack = <<>>, NEW x \in Terminal
  PROVE  LET a  == SymbolAddress(g)
             g1 == InsertAfter(NewSymbol(g, x, Start), Last(g, Start), a)
         IN  /\ Sound(g1) /\ AllUsed(g1) /\ Ends(g1, g1.sym[a].p)
             /\ Appended(g, Start, x, a, g1)
<1> DEFINE a  == SymbolAddress(g)
           k  == InsertAfter(NewSymbol(g, x, Start), Last(g, Start), a)
           G  == g.rule[Start].guard
           z  == Last(g, Start)
<1>1. /\ Sound(g) /\ Core(g) /\ AllUsed(g) /\ Start \in DOMAIN g.rule /\ Allocated(g)
  <2>1. InUse(g, stack)
    BY DEF Inductive
  <2> QED
    BY <2>1, InUseAll DEF Inductive, Sound, Core, Rooted
<1>2. PICK rk : Ranking(g, rk)
  BY <1>1 DEF Sound
<1>3. x # Start /\ x \notin DOMAIN g.rule
  BY <1>1, RuleValues
<1>4. Core(k) /\ Ranking(k, rk) /\ Appended(g, Start, x, a, k)
  BY <1>1, <1>2, <1>3, AppendIs
<1> HIDE DEF k, a
<1>5. Sound(k) /\ AllUsed(k)
  BY <1>1, <1>4, AppendedSound
<1>6. /\ G \in DOMAIN g.sym /\ G \in Linked(g) /\ z = g.sym[G].p /\ z \in Linked(g)
      /\ z \in DOMAIN g.sym
  BY <1>1, GuardNodes, Lists DEF Last
<1>7. /\ k.sym[a].p = z /\ k.sym[z].n = a /\ NoEntry(k, z) /\ a \in Inner(k) /\ z \in Linked(k)
      /\ k.rule[Start].guard = G /\ k.sym[G].p = a
  BY Zenon, <1>1, <1>4, <1>6 DEF Appended
<1>8. Last(k, Start) = a
  BY Zenon, <1>7 DEF Last
<1>9. Ends(k, k.sym[a].p)
  BY <1>7, <1>8 DEF Ends
<1> QED
  BY <1>4, <1>5, <1>9 DEF k, a

\* The calls that input makes, once the value is appended.
LEMMA InputCalls ==
  ASSUME NEW h, NEW z, Ends(h, z), NEW b
  PROVE  LET t == <<CheckFrame(z, FALSE), LearnFrame(b)>>
         IN  IsStack(t) /\ Held(h, t) /\ t # <<>> /\ t[1].op = "check"
<1> DEFINE c == CheckFrame(z, FALSE)
           l == LearnFrame(b)
<1>1. c.op = "check" /\ c.at = z /\ l.op = "learn" /\ ~c.orNext
  BY DEF CheckFrame, LearnFrame
<1> HIDE DEF c, l
<1>2. IsStack(<<>>) /\ Held(h, <<>>)
  BY EmptyStack, HeldEmpty
<1>3. Fits(l, <<>>) /\ Rests(h, l, <<>>)
  BY <1>1 DEF Fits, Rests
<1>4. IsStack(<<l>> \o <<>>) /\ Held(h, <<l>> \o <<>>)
  BY <1>2, <1>3, Push, HeldPush
<1>5. <<l>> \o <<>> = <<l>>
  OBVIOUS
<1>6. IsStack(<<l>>) /\ Held(h, <<l>>)
  BY <1>4, <1>5
<1>7. Over(h, c, l)
  BY <1>1 DEF Over
<1>8. Fits(c, <<l>>) /\ Rests(h, c, <<l>>)
  BY <1>1, <1>7 DEF Fits, Rests
<1>9. IsStack(<<c>> \o <<l>>) /\ Held(h, <<c>> \o <<l>>) /\ <<c>> \o <<l>> # <<>>
      /\ (<<c>> \o <<l>>)[1] = c
  BY <1>6, <1>8, Push, HeldPush
<1>10. <<c>> \o <<l>> = <<c, l>>
  BY Tuples
<1> QED
  BY <1>1, <1>9, <1>10 DEF c, l

\* An input keeps the invariant.
LEMMA InputKeeps ==
  ASSUME Inductive, NEW x \in Terminal, Input(x)
  PROVE  Kept
<1> DEFINE a  == SymbolAddress(g)
           g1 == InsertAfter(NewSymbol(g, x, Start), Last(g, Start), a)
           g2 == Advance(g1, x)
           t  == <<CheckFrame(g1.sym[a].p, FALSE), LearnFrame(a)>>
<1>1. stack = <<>> /\ g' = Updating(g2) /\ stack' = UpdateRoot(g2) \o t
  BY DEF Input
<1>2. Sound(g1) /\ AllUsed(g1) /\ Ends(g1, g1.sym[a].p)
  BY <1>1, InputAppends
<1> HIDE DEF g1
<1>3. IsStack(t) /\ Held(g1, t) /\ t # <<>> /\ t[1].op = "check"
  BY <1>2, InputCalls
<1> HIDE DEF t
<1>4. Same(g1, g2)
  BY <1>2, ComputeSame DEF Advance, Sound, Core
<1> HIDE DEF g2
<1>5. Same(g1, g')
  <2>1. Same(g2, Updating(g2))
    BY <1>4, UpdatingSame DEF Same
  <2> QED
    BY <1>1, <1>4, <2>1, SameTrans
<1>6. InUse(g1, <<>>)
  BY <1>2, AllInUse
<1>7. Sound(g') /\ Held(g', t) /\ InUse(g', <<>>)
  BY <1>2, <1>3, <1>5, <1>6, SameSound
<1>8. Held(g', UpdateRoot(g2) \o t)
  BY <1>3, <1>7, UpdateRootHeld
<1>9. InUse(g', stack')
  BY <1>7, InUseAll, AllInUse
<1> QED
  BY <1>1, <1>7, <1>8, <1>9 DEF Kept

\* No step of the oracle, and nothing that is no step, breaks the invariant.
LEMMA StepKeeps ==
  ASSUME Inductive, [Next]_vars
  PROVE  Inductive'
<1>1. IsStack(stack')
  BY StepFits DEF Inductive
<1>2. Kept
  <2>1. CASE \E x \in Terminal : Input(x)
    BY <2>1, InputKeeps
  <2>2. CASE UpdateChild
    BY <2>2, UpdateChildKeeps
  <2>3. CASE UpdateSelf
    BY <2>3, UpdateSelfKeeps
  <2>4. CASE CheckNoDigram
    BY <2>4, CheckNoDigramKeeps
  <2>5. CASE CheckNewDigram
    BY <2>5, CheckNewDigramKeeps
  <2>6. CASE CheckOverlap
    BY <2>6, CheckOverlapKeeps
  <2>7. CASE CheckReuseRule
    BY <2>7, CheckReuseRuleKeeps
  <2>8. CASE CheckNewRule
    BY <2>8, CheckNewRuleKeeps
  <2>9. CASE Substitute
    BY <2>9, SubstituteKeeps
  <2>10. CASE Tidy
    BY <2>10, TidyKeeps
  <2>11. CASE Learn
    BY <2>11, LearnKeeps
  <2>12. CASE UNCHANGED vars
    BY <2>12 DEF vars, Inductive, Kept
  <2> QED
    BY <2>1, <2>2, <2>3, <2>4, <2>5, <2>6, <2>7, <2>8, <2>9, <2>10, <2>11, <2>12
       DEF Next, Cascade, Finished
<1> QED
  BY <1>1, <1>2 DEF Kept, Inductive

-----------------------------------------------------------------------------
(* The oracle as it is made.                                                *)

\* The empty grammar is sound.
LEMMA EmptyHeapCore == Core(EmptyHeap) /\ Ranking(EmptyHeap, <<>>)
<1> DEFINE h == EmptyHeap
<1>1. /\ DOMAIN h = HeapFields /\ h.sym = <<>> /\ h.rule = <<>> /\ h.table = <<>>
      /\ h.free = <<>> /\ h.rfree = <<>> /\ h.brk = 1 /\ h.rbrk = 1
  BY DEF EmptyHeap, HeapFields, Start, StartGuard
<1> HIDE DEF h
<1>2. DOMAIN h.sym = {} /\ DOMAIN h.rule = {} /\ DOMAIN h.table = {}
  BY <1>1
<1>3. IsHeap(h)
  BY <1>1, <1>2 DEF IsHeap
<1>4. Linked(h) = {} /\ Inner(h) = {}
  BY <1>2 DEF Linked, Inner
<1>5. Linking(h) /\ Forward(h) /\ Backward(h) /\ Entries(h)
  BY <1>2, <1>4 DEF Linking, Forward, Backward, Entries
<1>6. Valued(h)
  BY <1>2, <1>4 DEF Valued
<1>7. Counted(h)
  BY <1>2, FS_EmptySet DEF Counted
<1>8. Allocated(h)
  BY <1>1, <1>2 DEF Allocated, Addresses
<1>9. Ranking(h, <<>>)
  <2>1. <<>> \in [DOMAIN h.rule -> Nat]
    BY <1>2
  <2> QED
    BY <2>1, <1>4 DEF Ranking
<1> QED
  BY <1>3, <1>5, <1>6, <1>7, <1>8, <1>9 DEF Core, h

\* The initial state satisfies the invariant and has no rule but the start rule,
\* which is empty.
LEMMA InitInductive ==
  ASSUME Init
  PROVE  Inductive /\ DOMAIN g.rule = {Start} /\ Inner(g) = {}
<1> DEFINE h == EmptyHeap
           k == NewRule(h)
           j == NewSymbol(k, Start, Null)
<1>1. g = j /\ stack = <<>>
  BY DEF Init
<1>2. Core(h) /\ Ranking(h, <<>>)
  BY EmptyHeapCore
<1>3. /\ DOMAIN h.sym = {} /\ DOMAIN h.rule = {}
      /\ SymbolAddress(h) = 1 /\ RuleAddress(h) = 1 /\ h.free = <<>> /\ h.brk = 1
  BY DEF EmptyHeap, SymbolAddress, RuleAddress, StartGuard, Start
<1>4. k.free = <<>> /\ k.brk = 2
  BY <1>3 DEF NewRule, TakeRule, TakeSymbol, EmptyHeap, Start, StartGuard
<1> HIDE DEF h
<1>5. IsHeap(k) /\ Allocated(k) /\ Opened(h, 1, 1, k)
  BY <1>2, <1>3, NewRuleIs DEF Core
<1> HIDE DEF k
<1> DEFINE e == [r \in DOMAIN k.rule |-> 0]
<1>6. Core(k) /\ Ranking(k, e) /\ Guards(k) = Guards(h) \cup {1} /\ Linked(k) = Linked(h) \cup {1}
      /\ Inner(k) = Inner(h)
  <2>1. e \in [DOMAIN k.rule -> Nat] /\ \A q \in DOMAIN h.rule : e[q] = <<>>[q]
    BY <1>3
  <2> HIDE DEF e
  <2> QED
    BY <1>2, <1>5, <2>1, OpenedCore
<1> HIDE DEF e
<1>7. Linked(h) = {} /\ Guards(h) = {} /\ Inner(h) = {}
  BY <1>3 DEF Linked, Guards, Inner
<1>8. /\ DOMAIN k.sym = {1} /\ DOMAIN k.rule = {Start} /\ k.rule[Start].guard = 1
  BY <1>3, <1>5 DEF Opened, Start
<1>9. SymbolAddress(k) = Root
  BY <1>4 DEF SymbolAddress, Root
<1>10. IsHeap(j) /\ Allocated(j) /\ Added(k, Root, Start, Null, j)
  BY <1>5, <1>8, <1>9, NewSymbolIs
<1> HIDE DEF j
<1>11. Core(j) /\ Ranking(j, e) /\ Linked(j) = {1} /\ Inner(j) = {}
  BY <1>6, <1>7, <1>8, <1>10, AddedCore
<1>12. DOMAIN j.sym = {1, Root} /\ DOMAIN j.rule = {Start}
       /\ j.sym[Root].s = Start /\ j.sym[Root].owner = Null
  BY <1>8, <1>10 DEF Added
<1>13. Rooted(j)
  BY <1>11, <1>12 DEF Rooted, Root
<1>14. Long(j)
  BY <1>12 DEF Long
<1>15. InUse(j, <<>>)
  BY <1>12 DEF InUse
<1> QED
  BY <1>1, <1>11, <1>12, <1>13, <1>14, <1>15, HeldEmpty, EmptyStack DEF Inductive, Sound

\* The invariant holds in every state of every call.
THEOREM HeapInvariant == Spec => []Inductive
<1>1. Init => Inductive
  BY InitInductive
<1>2. Inductive /\ [Next]_vars => Inductive'
  BY StepKeeps
<1> QED
  BY <1>1, <1>2, PTL DEF Spec

-----------------------------------------------------------------------------
(* What follows from the invariant.                                         *)

\* The values read are terminals, and no more than the bound.
Bounded == hist \in Seq(Terminal) /\ Len(hist) <= MaxInput

\* The bound on the inputs is kept.
LEMMA StaysBounded == Spec => []Bounded
<1>1. Init => Bounded
  BY MaxInputAssumption DEF Init, Bounded
<1>2. Bounded /\ [Next]_vars => Bounded'
  <2> SUFFICES ASSUME Bounded, [Next]_vars PROVE Bounded'
    OBVIOUS
  <2>1. CASE UNCHANGED hist
    BY <2>1 DEF Bounded
  <2>2. ASSUME NEW x \in Terminal, Input(x) PROVE Bounded'
    <3>1. hist' = Append(hist, x) /\ Len(hist) < MaxInput
      BY <2>2 DEF Input
    <3> QED
      BY <3>1, MaxInputAssumption DEF Bounded
  <2> QED
    BY Zenon, <2>1, <2>2 DEF Next, Cascade, Finished, vars, UpdateChild, UpdateSelf, CheckNoDigram,
       CheckNewDigram, CheckOverlap, CheckReuseRule, CheckNewRule, Substitute, Tidy, Learn
<1> QED
  BY <1>1, <1>2, PTL DEF Spec

\* The pointers of the heap.
LEMMA HeapTyped ==
  ASSUME Inductive
  PROVE  /\ Root \in DOMAIN g.sym /\ Start \in DOMAIN g.rule
         /\ \A a \in DOMAIN g.sym :
              /\ a < g.brk
              /\ g.sym[a].n \in DOMAIN g.sym \cup {Null}
              /\ g.sym[a].p \in DOMAIN g.sym \cup {Null}
              /\ g.sym[a].s \in Terminal \cup DOMAIN g.rule
              /\ g.sym[a].owner \in DOMAIN g.rule \cup {Null}
              /\ g.sym[a].pred \in BOOLEAN /\ g.sym[a].upd \in BOOLEAN
         /\ \A r \in DOMAIN g.rule : r < g.rbrk /\ g.rule[r].guard \in DOMAIN g.sym
<1>1. Core(g) /\ Rooted(g)
  BY DEF Inductive, Sound
<1>2. Root \in DOMAIN g.sym /\ Start \in DOMAIN g.rule /\ g.sym[Root].owner = Null
      /\ Linked(g) = DOMAIN g.sym \ {Root}
  BY <1>1 DEF Rooted
<1>3. /\ \A a \in DOMAIN g.sym : a < g.brk
      /\ \A r \in DOMAIN g.rule : r < g.rbrk
  BY <1>1 DEF Core, Allocated, Addresses
<1>4. \A a \in DOMAIN g.sym : g.sym[a].s \in Terminal \cup DOMAIN g.rule
  BY <1>1, Values
<1>5. \A a \in DOMAIN g.sym : g.sym[a].pred \in BOOLEAN /\ g.sym[a].upd \in BOOLEAN
  BY <1>1 DEF Core, IsHeap
<1>6. \A r \in DOMAIN g.rule : g.rule[r].guard \in DOMAIN g.sym
  BY <1>1, GuardNodes
<1>7. Root \notin Linked(g)
  BY <1>2
<1>8. \A a \in DOMAIN g.sym : a \notin Linked(g) => g.sym[a].n = Null /\ g.sym[a].p = Null
  BY <1>1, Lists DEF Core, Linking
<1>9. \A a \in Linked(g) : /\ g.sym[a].n \in DOMAIN g.sym /\ g.sym[a].p \in DOMAIN g.sym
                           /\ g.sym[a].owner \in DOMAIN g.rule
  BY <1>1, Lists
<1> QED
  BY <1>2, <1>3, <1>4, <1>5, <1>6, <1>7, <1>8, <1>9

\* What the properties that are checked follow from: the types,
LEMMA TypeFromInvariant ==
  ASSUME Inductive, Bounded
  PROVE  TypeOK
BY HeapTyped DEF TypeOK, Bounded

\* The users of a rule, and the nodes of one.
LEMMA UsersFromInvariant ==
  ASSUME Inductive
  PROVE  UsersExact
BY DEF Inductive, Sound, Core, Counted, UsersExact

\* the owners of the nodes,
LEMMA OwnersFromInvariant ==
  ASSUME Inductive
  PROVE  OwnersExact
<1>1. Core(g) /\ Rooted(g)
  BY DEF Inductive, Sound
<1>2. Nodes(g) = Inner(g)
  BY <1>1, NodesIs
<1>3. \A r \in DOMAIN g.rule : NodesOf(g, r) = InnerOf(g, r)
  BY <1>1, BodyIs
<1>4. DOMAIN g.sym = {Root} \cup Linked(g)
  BY <1>1 DEF Rooted
<1>5. Linked(g) = Guards(g) \cup Inner(g)
  BY <1>1, GuardNodes, Lists
<1>6. \A r \in DOMAIN g.rule : g.sym[g.rule[r].guard].owner = r
  BY <1>1, GuardNodes
<1>7. \A r \in DOMAIN g.rule : \A a \in InnerOf(g, r) : g.sym[a].owner = r
  BY DEF InnerOf
<1> QED
  BY <1>2, <1>3, <1>4, <1>5, <1>6, <1>7 DEF OwnersExact

\* the entries of the table,
LEMMA TableFromInvariant ==
  ASSUME Inductive
  PROVE  TableSound
<1>1. Core(g)
  BY DEF Inductive, Sound
<1>2. Nodes(g) = Inner(g)
  BY <1>1, NodesIs
<1>3. \A a \in Inner(g) : a \in DOMAIN g.sym /\ ~IsGuard(g, a)
  BY <1>1, GuardNodes, Lists
<1>4. \A d \in DOMAIN g.table :
        LET a == g.table[d]
        IN  a \in Inner(g) /\ g.sym[a].n \in Inner(g) /\ d = Digram(g, a)
  BY <1>1 DEF Core, Entries
<1> QED
  BY <1>2, <1>3, <1>4 DEF TableSound

\* the use and the length of the rules,
LEMMA UtilityFromInvariant ==
  ASSUME Inductive
  PROVE  RuleUtility
<1> SUFFICES ASSUME Quiet, NEW r \in DOMAIN g.rule \ {Start}
             PROVE  g.rule[r].count >= 1 /\ Len(Body(g, r)) >= 2
  BY DEF RuleUtility
<1>1. Core(g) /\ Long(g) /\ InUse(g, stack) /\ stack = <<>>
  BY DEF Inductive, Sound, Quiet
<1>2. Used(g, r)
  BY <1>1, InUseAll DEF AllUsed
<1>3. Len(Body(g, r)) >= 2
  BY <1>1, BodyIs
<1>4. IsFiniteSet(DOMAIN g.sym) /\ g.rule[r].users = {a \in DOMAIN g.sym \ Guards(g) : g.sym[a].s = r}
      /\ g.rule[r].count = Cardinality(g.rule[r].users)
  BY <1>1 DEF Core, Counted
<1>5. g.rule[r].users \subseteq DOMAIN g.sym /\ g.rule[r].users # {}
  BY <1>2, <1>4 DEF Used
<1>6. IsFiniteSet(g.rule[r].users)
  BY <1>4, <1>5, FS_Subset
<1>7. g.rule[r].count \in Nat /\ g.rule[r].count # 0
  BY <1>4, <1>5, <1>6, FS_CardinalityType, FS_EmptySet
<1> QED
  BY <1>3, <1>7

\* What a call in progress counts on, wherever it is in the stack.
LEMMA CallsCount ==
  ASSUME Inductive, NEW i \in DOMAIN stack, stack[i].op \in {"check", "substitute"}
  PROVE  /\ Over(g, stack[i], stack[i + 1])
         /\ stack[i].op = "substitute" =>
              stack[i + 1].op \in {"substitute", "tidy"} /\ stack[i + 1].by = stack[i].by
         /\ stack[i].op = "check" =>
              stack[i + 1].op \in IF stack[i].orNext THEN {"substitute", "tidy"}
                                  ELSE {"substitute", "tidy", "learn"}
<1>1. Nested(stack) /\ Held(g, stack)
  BY DEF Inductive, IsStack
<1>2. i + 1 \in DOMAIN stack
  BY <1>1 DEF Nested
<1>3. Over(g, stack[i], stack[i + 1])
  BY <1>1, <1>2 DEF Held
<1> QED
  BY <1>1, <1>3 DEF Nested

\* The digram a call of substitute is about to replace.
LEMMA SubstituteAt ==
  ASSUME Inductive, NEW i \in DOMAIN stack, stack[i].op = "substitute"
  PROVE  LET a == stack[i].at
             r == stack[i].by
         IN  /\ a \in Inner(g) /\ g.sym[a].n \in Inner(g)
             /\ r \in DOMAIN g.rule /\ Pair(g, r)
             /\ g.sym[a].s = g.sym[First(g, r)].s
             /\ g.sym[g.sym[a].n].s = g.sym[Last(g, r)].s
<1> DEFINE f == stack[i]
           e == stack[i + 1]
<1>1. Over(g, f, e) /\ e.op \in {"substitute", "tidy"} /\ e.by = f.by
  BY CallsCount
<1>2. CASE e.op = "tidy"
  BY <1>1, <1>2 DEF Over, Target
<1>3. CASE e.op = "substitute"
  <2>1. FirstTarget(g, f.at, e.at, f.by)
    BY <1>1, <1>3 DEF Over
  <2>2. i + 1 \in DOMAIN stack /\ i + 1 \in Int
    <3>1. Nested(stack)
      BY DEF Inductive, IsStack
    <3>2. PICK F : stack \in Seq(F)
      BY DEF Inductive, IsStack
    <3>3. DOMAIN stack = 1 .. Len(stack)
      BY <3>2, LenProperties
    <3> QED
      BY <3>1, <3>3 DEF Nested
  <2> DEFINE j == i + 1
             d == stack[j + 1]
  <2>3. Over(g, e, d) /\ d.op \in {"substitute", "tidy"} /\ d.by = e.by
    <3>1. stack[j].op = "substitute" /\ j \in DOMAIN stack
      BY <1>3, <2>2
    <3> HIDE DEF j
    <3>2. Over(g, stack[j], d) /\ d.op \in {"substitute", "tidy"} /\ d.by = stack[j].by
      BY <3>1, CallsCount
    <3> QED
      BY <3>2 DEF j
  <2>4. d.op = "tidy"
    <3>1. \A k, l \in DOMAIN stack :
             k + 2 <= l /\ stack[k].op # "update" => stack[l].op \in {"tidy", "learn"}
      BY DEF Inductive, Held
    <3>2. i + 2 \in DOMAIN stack /\ j + 1 = i + 2 /\ i + 2 <= i + 2
      <4>1. Nested(stack)
        BY DEF Inductive, IsStack
      <4>2. j + 1 \in DOMAIN stack
        BY <4>1, <1>3, <2>2 DEF Nested
      <4>3. PICK F : stack \in Seq(F)
        BY DEF Inductive, IsStack
      <4>4. DOMAIN stack = 1 .. Len(stack)
        BY <4>3, LenProperties
      <4>5. j + 1 = i + 2
        BY <4>4
      <4>6. i + 2 \in DOMAIN stack /\ i + 2 <= i + 2
        BY <4>2, <4>4, <4>5
      <4> QED
        BY <4>5, <4>6
    <3>3. stack[i + 2].op \in {"tidy", "learn"}
      BY <3>1, <3>2
    <3> QED
      BY <3>2, <3>3, <2>3
  <2>5. Target(g, e.at, e.by)
    BY <1>3, <2>3, <2>4 DEF Over
  <2> QED
    BY <1>1, <2>1, <2>5 DEF FirstTarget, Target
<1> QED
  BY <1>1, <1>2, <1>3

\* the digrams that are substituted,
LEMMA MatchesFromInvariant ==
  ASSUME Inductive
  PROVE  SubstituteMatches
<1> SUFFICES ASSUME NEW i \in DOMAIN stack, stack[i].op = "substitute"
             PROVE  LET a == stack[i].at
                        r == stack[i].by
                    IN  Digram(g, a) = Digram(g, First(g, r)) /\ Len(Body(g, r)) = 2
  BY DEF SubstituteMatches
<1> DEFINE a == stack[i].at
           r == stack[i].by
<1>1. /\ r \in DOMAIN g.rule /\ Pair(g, r)
      /\ g.sym[a].s = g.sym[First(g, r)].s
      /\ g.sym[g.sym[a].n].s = g.sym[Last(g, r)].s
  BY SubstituteAt
<1>2. Core(g)
  BY DEF Inductive, Sound
<1>3. g.sym[First(g, r)].n = Last(g, r)
  BY <1>1, <1>2, PairNodes
<1>4. Len(Body(g, r)) = 2
  BY <1>1, <1>2, BodyIs
<1> QED
  BY <1>1, <1>3, <1>4 DEF Digram

\* and the nodes and rules the frames name.
LEMMA LiveFromInvariant ==
  ASSUME Inductive
  PROVE  FramesLive
<1>1. Core(g) /\ Nodes(g) = Inner(g)
  BY NodesIs DEF Inductive, Sound
<1> SUFFICES ASSUME NEW i \in DOMAIN stack
             PROVE  LET f == stack[i]
                    IN  /\ f.op = "check" => f.at \in DOMAIN g.sym
                        /\ f.op = "substitute" => /\ f.at \in Nodes(g)
                                                  /\ g.sym[f.at].n \in Nodes(g)
                                                  /\ f.by \in DOMAIN g.rule
                        /\ f.op = "tidy" => f.by \in DOMAIN g.rule
  BY DEF FramesLive
<1> DEFINE f == stack[i]
           e == stack[i + 1]
<1>2. ASSUME f.op = "check" PROVE f.at \in DOMAIN g.sym
  <2>1. Over(g, f, e) /\ e.op \in {"substitute", "tidy", "learn"}
        /\ (e.op = "learn" => ~f.orNext)
    BY <1>2, CallsCount
  <2>2. Last(g, Start) \in Linked(g)
    <3>1. Start \in DOMAIN g.rule
      BY DEF Inductive, Sound, Rooted
    <3> QED
      BY <3>1, <1>1, GuardNodes, Lists DEF Last
  <2>3. f.at \in Linked(g)
    <3>1. \A b \in Inner(g) : b \in Linked(g)
      BY <1>1, Lists
    <3>2. CASE e.op = "learn"
      BY <1>2, <2>1, <3>2 DEF Over, Ends
    <3>3. CASE e.op = "tidy"
      BY <1>2, <2>1, <2>2, <3>3 DEF Over, Ends
    <3>4. CASE e.op = "substitute"
      BY <1>2, <2>1, <3>1, <3>4 DEF Over, BeforeNew, AtNew
    <3> QED
      BY <2>1, <3>2, <3>3, <3>4
  <2> QED
    BY <1>1, <2>3, Lists
<1>3. ASSUME f.op = "substitute"
      PROVE  f.at \in Nodes(g) /\ g.sym[f.at].n \in Nodes(g) /\ f.by \in DOMAIN g.rule
  BY <1>1, <1>3, SubstituteAt
<1>4. ASSUME f.op = "tidy" PROVE f.by \in DOMAIN g.rule
  BY <1>4 DEF Inductive, Held, Tidied
<1> QED
  BY <1>2, <1>3, <1>4

-----------------------------------------------------------------------------
(* Rules that other rules start with.                                       *)

\* Rule v is used in two places.
Twice(h, v) ==
  \E c, d \in DOMAIN h.sym \ Guards(h) : c # d /\ h.sym[c].s = v /\ h.sym[d].s = v

\* A call op on rule x is in progress.
Awaits(s, op, x) == \E j \in DOMAIN s : s[j].op = op /\ s[j].by = x

\* A rule that r starts with is used twice, unless r has yet to be tidied up or
\* the new rule r starts with has yet to replace the second of two digrams.
First2(h, s, r) ==
  LET v == h.sym[First(h, r)].s
  IN  v \in DOMAIN h.rule => \/ Twice(h, v)
                             \/ Awaits(s, "tidy", r) \/ Awaits(s, "substitute", v)

\* This of every rule but the start rule.
Firsts(h, s) == \A r \in DOMAIN h.rule \ {Start} : First2(h, s, r)

\* The calls of s to come are among those of u.
More(s, u) ==
  \A op \in {"tidy", "substitute"} : \A x : Awaits(s, op, x) => Awaits(u, op, x)

\* Stacks that wait for more keep it.
LEMMA FirstsMore ==
  ASSUME NEW h, NEW s, Firsts(h, s), NEW u, More(s, u)
  PROVE  Firsts(h, u)
BY DEF Firsts, First2, More

\* What a stack waits for with a frame more, and with a frame less.
LEMMA AwaitsPush ==
  ASSUME NEW t, IsStack(t), NEW f
  PROVE  /\ \A op, x : Awaits(t, op, x) => Awaits(<<f>> \o t, op, x)
         /\ Awaits(<<f>> \o t, f.op, f.by)
         /\ More(t, <<f>> \o t)
<1> DEFINE s == <<f>> \o t
<1>1. /\ DOMAIN s = 1 .. Len(t) + 1 /\ DOMAIN t = 1 .. Len(t) /\ Len(t) \in Nat /\ s[1] = f
      /\ \A i \in DOMAIN t : s[i + 1] = t[i]
  BY Positions
<1> HIDE DEF s
<1>2. \A op, x : Awaits(t, op, x) => Awaits(s, op, x)
  <2> SUFFICES ASSUME NEW op, NEW x, NEW j \in DOMAIN t, t[j].op = op, t[j].by = x
               PROVE  Awaits(s, op, x)
    BY DEF Awaits
  <2>1. j + 1 \in DOMAIN s /\ s[j + 1] = t[j]
    BY <1>1
  <2> QED
    BY <2>1 DEF Awaits
<1>3. Awaits(s, f.op, f.by)
  <2>1. 1 \in DOMAIN s
    BY <1>1
  <2> QED
    BY <2>1, <1>1 DEF Awaits
<1> QED
  BY <1>2, <1>3 DEF s, More

\* What is awaited is awaited by the top call or by those below it.
LEMMA AwaitsPop ==
  ASSUME NEW s, IsStack(s), s # <<>>
  PROVE  /\ \A op, x : Awaits(s, op, x) =>
                \/ Head(s).op = op /\ Head(s).by = x
                \/ Awaits(Tail(s), op, x)
         /\ Head(s).op \notin {"tidy", "substitute"} => More(s, Tail(s))
<1> DEFINE f == Head(s)
           t == Tail(s)
<1>1. s = <<f>> \o t /\ IsStack(t)
  BY Decons
<1> HIDE DEF f, t
<1>2. \A i \in DOMAIN s : s[i] = f \/ (i - 1 \in DOMAIN t /\ s[i] = t[i - 1])
  BY <1>1, Positions
<1>3. \A op, x : Awaits(s, op, x) => (f.op = op /\ f.by = x) \/ Awaits(t, op, x)
  BY <1>2 DEF Awaits
<1> QED
  BY <1>3 DEF f, t, More

\* The changes of the grammar keep it: none,
LEMMA SameFirsts ==
  ASSUME NEW h, Core(h), NEW k, Same(h, k), NEW s, Firsts(h, s)
  PROVE  Firsts(k, s)
<1>1. /\ DOMAIN k.sym = DOMAIN h.sym /\ k.rule = h.rule
      /\ \A a \in DOMAIN h.sym : k.sym[a].n = h.sym[a].n /\ k.sym[a].s = h.sym[a].s
  BY DEF Same, SameLists
<1>2. Guards(k) = Guards(h)
  BY <1>1 DEF Guards
<1>3. \A v : Twice(h, v) => Twice(k, v)
  BY <1>1, <1>2 DEF Twice
<1>4. ASSUME NEW r \in DOMAIN h.rule
      PROVE  First(k, r) = First(h, r) /\ First(h, r) \in DOMAIN h.sym
  <2>1. h.rule[r].guard \in Linked(h) /\ h.rule[r].guard \in DOMAIN h.sym
    BY GuardNodes
  <2>2. First(h, r) \in DOMAIN h.sym
    BY <2>1, Lists DEF First
  <2> QED
    BY <2>1, <2>2, <1>1 DEF First
<1>5. ASSUME NEW r \in DOMAIN k.rule \ {Start} PROVE First2(k, s, r)
  <2>1. First2(h, s, r) /\ r \in DOMAIN h.rule
    BY <1>1 DEF Firsts
  <2>2. k.sym[First(k, r)].s = h.sym[First(h, r)].s
    BY <2>1, <1>1, <1>4
  <2> QED
    BY <2>1, <2>2, <1>1, <1>3 DEF First2
<1> QED
  BY <1>5 DEF Firsts

\* Nor does the digram table matter.
LEMMA TableFirsts ==
  ASSUME NEW h, NEW k, k.sym = h.sym, k.rule = h.rule, NEW s, Firsts(h, s)
  PROVE  Firsts(k, s)
<1>1. Guards(k) = Guards(h)
  BY DEF Guards
<1>2. \A v : Twice(h, v) <=> Twice(k, v)
  BY <1>1 DEF Twice
<1>3. \A r : First(k, r) = First(h, r)
  BY DEF First
<1>4. \A r : First2(h, s, r) => First2(k, s, r)
  BY <1>2, <1>3 DEF First2
<1> QED
  BY <1>4 DEF Firsts

\* The first node of a rule that is not the start rule.
LEMMA FirstNode ==
  ASSUME NEW h, Sound(h), NEW r \in DOMAIN h.rule \ {Start}
  PROVE  /\ First(h, r) \in Inner(h) /\ First(h, r) \in DOMAIN h.sym /\ First(h, r) \notin Guards(h)
         /\ First(h, r) = h.sym[h.rule[r].guard].n
         /\ h.sym[First(h, r)].owner = r /\ h.sym[First(h, r)].p = h.rule[r].guard
         /\ h.sym[First(h, r)].s # Start
<1> DEFINE G == h.rule[r].guard
           F == First(h, r)
<1>1. Core(h) /\ Long(h)
  BY DEF Sound
<1>2. G \in Guards(h) /\ G \in Linked(h) /\ h.sym[G].owner = r /\ F = h.sym[G].n
  BY <1>1, GuardNodes DEF First
<1>3. F # G
  BY <1>1, <1>2 DEF Long
<1>4. F \in Linked(h) /\ h.sym[F].p = G /\ h.sym[F].owner = r
  BY <1>1, <1>2, Lists
<1>5. F \notin Guards(h)
  <2> SUFFICES ASSUME F \in Guards(h) PROVE FALSE
    OBVIOUS
  <2>1. F = h.rule[h.sym[F].s].guard /\ h.sym[F].owner = h.sym[F].s
    BY <1>1, GuardNodes
  <2> QED
    BY <2>1, <1>3, <1>4
<1>6. F \in Inner(h)
  BY <1>4, <1>5 DEF Inner
<1> QED
  BY Zenon, <1>1, <1>2, <1>4, <1>5, <1>6, Lists

-----------------------------------------------------------------------------
(* Each change of the lists.                                                *)

\* a value appended,
LEMMA AppendedFirsts ==
  ASSUME NEW h, Sound(h), NEW v, NEW c, NEW k, Appended(h, Start, v, c, k), NEW s, Firsts(h, s)
  PROVE  Firsts(k, s)
<1>1. Core(h) /\ Start \in DOMAIN h.rule
  BY DEF Sound, Rooted
<1>2. /\ DOMAIN k.rule = DOMAIN h.rule /\ Guards(k) = Guards(h)
      /\ DOMAIN h.sym \subseteq DOMAIN k.sym
      /\ \A x \in DOMAIN h.sym : k.sym[x].s = h.sym[x].s
  BY DEF Appended
<1>3. \A x : Twice(h, x) => Twice(k, x)
  BY <1>2 DEF Twice
<1>4. ASSUME NEW r \in DOMAIN k.rule \ {Start} PROVE First2(k, s, r)
  <2>1. First2(h, s, r) /\ r \in DOMAIN h.rule
    BY <1>2 DEF Firsts
  <2>2. k.sym[First(k, r)].s = h.sym[First(h, r)].s
    BY <2>1, <1>1, AppendedAlike, AlikeIs
  <2> QED
    BY <2>1, <2>2, <1>2, <1>3 DEF First2
<1> QED
  BY <1>4 DEF Firsts

\* a new rule, which is to be tidied,
LEMMA CoinedFirsts ==
  ASSUME NEW h, Sound(h), NEW a, NEW r, NEW k, Core(k), Coined(h, a, r, k),
         NEW s, Firsts(h, s), NEW u, More(s, u), Awaits(u, "tidy", r)
  PROVE  Firsts(k, u)
<1>1. Core(h) /\ Start \in DOMAIN h.rule
  BY DEF Sound, Rooted
<1>2. /\ DOMAIN k.rule = DOMAIN h.rule \cup {r}
      /\ DOMAIN h.sym \subseteq DOMAIN k.sym
      /\ \A x \in DOMAIN h.sym : k.sym[x].s = h.sym[x].s
      /\ \A x \in Guards(k) : x \in Guards(h) \/ x \notin DOMAIN h.sym
  BY DEF Coined
<1>3. \A x : Twice(h, x) => Twice(k, x)
  BY <1>2 DEF Twice
<1>4. ASSUME NEW x \in DOMAIN k.rule \ {Start} PROVE First2(k, u, x)
  <2>1. CASE x = r
    BY <2>1 DEF First2
  <2>2. CASE x # r
    <3>1. First2(h, s, x) /\ x \in DOMAIN h.rule
      BY <1>2, <2>2 DEF Firsts
    <3>2. k.sym[First(k, x)].s = h.sym[First(h, x)].s /\ First(h, x) \in DOMAIN h.sym
      <4>1. First(h, x) \in DOMAIN h.sym
        BY <3>1, FirstNode
      <4> QED
        BY <4>1, <3>1, <1>1, CoinedAlike, AlikeIs
    <3>3. \A y : Awaits(s, "tidy", y) => Awaits(u, "tidy", y)
      BY DEF More
    <3>4. \A y : Awaits(s, "substitute", y) => Awaits(u, "substitute", y)
      BY DEF More
    <3> DEFINE w == h.sym[First(h, x)].s
    <3>5. ASSUME w \in DOMAIN k.rule PROVE w \in DOMAIN h.rule
      <4>1. w \in Terminal \cup DOMAIN h.rule
        BY <3>2, <1>1, Values
      <4>2. w \notin Terminal
        BY <3>5, RuleValues DEF Core
      <4> QED
        BY <4>1, <4>2
    <3> QED
      BY <3>1, <3>2, <3>3, <3>4, <3>5, <1>3 DEF First2
  <2> QED
    BY <2>1, <2>2
<1> QED
  BY <1>4 DEF Firsts

\* and a digram replaced: its rule is to be tidied, and is used once more or was
\* used before.
LEMMA SwapsFirsts ==
  ASSUME NEW h, Sound(h), NEW a, NEW r, NEW k, Swaps(h, a, r, k), NEW s, Firsts(h, s),
         NEW u, \A x : Awaits(s, "tidy", x) => Awaits(u, "tidy", x), Awaits(u, "tidy", r),
         \A x : Awaits(s, "substitute", x) => x = r,
         Awaits(u, "substitute", r) \/ Used(h, r)
  PROVE  Firsts(k, u)
<1> DEFINE Y == h.sym[a].n
           q == h.sym[a].p
           o == h.sym[a].owner
           D == DOMAIN h.sym \ {a, Y}
           F == First(h, r)
           L == Last(h, r)
<1>1. Core(h)
  BY DEF Sound
<1>2. /\ a \in Inner(h) /\ Y \in Inner(h) /\ r \in DOMAIN h.rule \ {Start} /\ Pair(h, r)
      /\ h.sym[a].s = h.sym[F].s /\ h.sym[Y].s = h.sym[L].s /\ r # o
  BY DEF Swaps
<1>3. PICK B : Replaced(h, a, r, B, k)
  BY DEF Swaps
<1>4. /\ B \notin DOMAIN h.sym /\ DOMAIN k.sym = D \cup {B}
      /\ \A c \in D : /\ k.sym[c].n = IF c = q THEN B ELSE h.sym[c].n
                      /\ k.sym[c].s = h.sym[c].s
      /\ k.sym[B].s = r /\ DOMAIN k.rule = DOMAIN h.rule
      /\ \A x \in DOMAIN h.rule : k.rule[x].guard = h.rule[x].guard
      /\ Guards(k) = Guards(h) /\ Inner(k) = (Inner(h) \ {a, Y}) \cup {B}
  BY <1>3 DEF Replaced
<1>5. /\ F \in Inner(h) /\ h.sym[F].owner = r /\ L \in Inner(h) /\ h.sym[L].owner = r
  BY <1>1, <1>2, PairNodes
<1>6. h.sym[Y].owner = o /\ h.sym[Y].p = a /\ a \in Linked(h) /\ Y \in Linked(h)
  BY <1>1, <1>2, Lists
<1>7. F \in D /\ L \in D /\ F \notin Guards(h) /\ L \notin Guards(h)
  BY <1>1, <1>2, <1>5, <1>6, Lists
<1>8. \A x \in Guards(h) : x \in D
  BY <1>1, <1>2, GuardNodes
<1>9. B \notin Guards(k)
  BY <1>1, <1>4, GuardNodes
<1> HIDE DEF Y, q, o, F, L
\* The new node is one more use of r.
<1>10. Twice(k, r) \/ Awaits(u, "substitute", r)
  <2> SUFFICES ASSUME Used(h, r) PROVE Twice(k, r)
    OBVIOUS
  <2>1. PICK c \in DOMAIN h.sym \ Guards(h) : h.sym[c].s = r
    BY DEF Used
  <2>2. h.sym[F].s # r /\ h.sym[L].s # r
    <3>1. PICK rk : Ranking(h, rk)
      BY DEF Sound
    <3>2. Linking(h) /\ Valued(h) /\ Allocated(h)
      BY <1>1 DEF Core
    <3> QED
      BY <3>1, <3>2, <1>5, Ranked
  <2>3. c \in D
    BY <2>1, <2>2, <1>2
  <2>4. c \in DOMAIN k.sym /\ c \notin Guards(k) /\ c # B /\ k.sym[c].s = r
    BY <2>1, <2>3, <1>4
  <2> QED
    BY <2>4, <1>4, <1>9 DEF Twice
<1>11. ASSUME NEW x \in DOMAIN k.rule \ {Start} PROVE First2(k, u, x)
  <2> DEFINE G == h.rule[x].guard
             f == First(h, x)
             v == h.sym[f].s
  <2>1. x \in DOMAIN h.rule \ {Start} /\ k.rule[x].guard = G
    BY <1>4
  <2>2. First2(h, s, x)
    BY <2>1 DEF Firsts
  <2>3. /\ f \in Inner(h) /\ f \in DOMAIN h.sym /\ f \notin Guards(h) /\ f = h.sym[G].n
        /\ h.sym[f].owner = x /\ h.sym[f].p = G
    BY <2>1, FirstNode
  <2>4. G \in D /\ G \in Guards(h)
    BY <1>1, <1>8, <2>1, GuardNodes
  <2> HIDE DEF G, f
  <2>5. First(k, x) = IF G = q THEN B ELSE f
    BY <2>1, <2>3, <2>4, <1>4 DEF First
  <2>6. CASE G = q
    <3>1. k.sym[First(k, x)].s = r
      BY <2>5, <2>6, <1>4
    <3> QED
      BY <3>1, <1>10 DEF First2
  <2>7. CASE G # q
    <3>1. f # a /\ f # Y
      <4>1. f # a
        BY <2>3, <2>7 DEF q
      <4>2. f # Y
        BY <2>3, <2>4, <1>1, <1>2, <1>6, Lists
      <4> QED
        BY <4>1, <4>2
    <3>2. f \in D /\ First(k, x) = f /\ k.sym[f].s = v
      BY <3>1, <2>3, <2>5, <2>7, <1>4
    <3>3. Twice(h, v) => Twice(k, v) \/ x = r
      <4> SUFFICES ASSUME Twice(h, v), x # r PROVE Twice(k, v)
        OBVIOUS
      <4>1. CASE v = h.sym[a].s
        <5>1. F # f /\ k.sym[F].s = v /\ k.sym[f].s = v
          BY <4>1, <3>2, <2>3, <1>2, <1>4, <1>5, <1>7
        <5>2. F \in DOMAIN k.sym \ Guards(k) /\ f \in DOMAIN k.sym \ Guards(k)
          BY <3>2, <2>3, <1>4, <1>7
        <5> QED
          BY <5>1, <5>2 DEF Twice
      <4>2. CASE v = h.sym[Y].s
        <5>1. L # f /\ k.sym[L].s = v /\ k.sym[f].s = v
          BY <4>2, <3>2, <2>3, <1>2, <1>4, <1>5, <1>7
        <5>2. L \in DOMAIN k.sym \ Guards(k) /\ f \in DOMAIN k.sym \ Guards(k)
          BY <3>2, <2>3, <1>4, <1>7
        <5> QED
          BY <5>1, <5>2 DEF Twice
      <4>3. CASE v # h.sym[a].s /\ v # h.sym[Y].s
        <5>1. PICK c, d \in DOMAIN h.sym \ Guards(h) : c # d /\ h.sym[c].s = v /\ h.sym[d].s = v
          BY DEF Twice
        <5>2. c \in D /\ d \in D
          BY <5>1, <4>3
        <5>3. /\ c \in DOMAIN k.sym \ Guards(k) /\ d \in DOMAIN k.sym \ Guards(k)
              /\ k.sym[c].s = v /\ k.sym[d].s = v
          BY <5>1, <5>2, <1>4
        <5> QED
          BY <5>1, <5>3 DEF Twice
      <4> QED
        BY <4>1, <4>2, <4>3
    <3>4. Awaits(s, "substitute", v) => v = r
      OBVIOUS
    <3>5. v \in DOMAIN k.rule => v \in DOMAIN h.rule
      BY <1>4
    <3>6. First2(h, s, x) <=> (v \in DOMAIN h.rule =>
             Twice(h, v) \/ Awaits(s, "tidy", x) \/ Awaits(s, "substitute", v))
      BY DEF First2, f
    <3>7. Awaits(s, "tidy", x) => Awaits(u, "tidy", x)
      OBVIOUS
    <3> HIDE DEF v
    <3>8. ASSUME v \in DOMAIN k.rule
          PROVE  Twice(k, v) \/ Awaits(u, "tidy", x) \/ Awaits(u, "substitute", v)
      BY <3>8, <3>3, <3>4, <3>5, <3>6, <3>7, <2>2, <1>10
    <3>9. k.sym[First(k, x)].s = v
      BY <3>2
    <3> QED
      BY <3>8, <3>9 DEF First2
  <2> QED
    BY <2>6, <2>7
<1> QED
  BY <1>11 DEF Firsts

\* The only use of v goes, and v with it: the rule it was first in now starts
\* with what v started with.
LEMMA SplicedFirsts ==
  ASSUME NEW h, Sound(h),
         NEW a, NEW v, NEW r \in DOMAIN h.rule \ {Start}, NEW left, NEW right, NEW f, NEW l, NEW G,
         Around(h, a, v, r, left, right, G, f, l), h.rule[v].users = {a},
         NEW k, Spliced(h, a, v, left, right, f, l, G, k), Guards(k) = Guards(h) \ {G},
         NEW s, Firsts(h, s), ~Awaits(s, "tidy", v), \A x : ~Awaits(s, "substitute", x),
         NEW u, \A x : x # r /\ Awaits(s, "tidy", x) => Awaits(u, "tidy", x)
  PROVE  Firsts(k, u)
<1>1. Core(h)
  BY DEF Sound
<1>2. /\ DOMAIN k.sym = DOMAIN h.sym \ {G, a} /\ DOMAIN k.rule = DOMAIN h.rule \ {v}
      /\ \A b \in DOMAIN k.sym : k.sym[b].s = h.sym[b].s
      /\ \A b \in DOMAIN k.sym :
            k.sym[b].n = IF b = left THEN f ELSE IF b = l THEN right ELSE h.sym[b].n
      /\ \A x \in DOMAIN k.rule : k.rule[x] = h.rule[x]
  BY DEF Spliced
<1>3. /\ v # r /\ v \in DOMAIN h.rule /\ v # Start /\ left = h.rule[r].guard /\ G = h.rule[v].guard
      /\ G \in Guards(h) /\ left \in Guards(h) /\ left \in DOMAIN h.sym /\ f \in DOMAIN h.sym
      /\ a \in Inner(h) /\ h.sym[left].n = a /\ h.sym[a].s = v /\ h.sym[a].owner = r
      /\ h.sym[G].n = f /\ h.sym[G].s = v /\ h.sym[left].s = r
      /\ f \in Inner(h) /\ h.sym[f].owner = v
  BY DEF Around
<1>4. \A b \in DOMAIN h.sym \ Guards(h) : h.sym[b].s = v => b = a
  BY <1>1, <1>3 DEF Core, Counted
<1>5. \A w : w # v /\ Twice(h, w) => Twice(k, w)
  <2> SUFFICES ASSUME NEW w, w # v, Twice(h, w) PROVE Twice(k, w)
    OBVIOUS
  <2>1. PICK c, d \in DOMAIN h.sym \ Guards(h) : c # d /\ h.sym[c].s = w /\ h.sym[d].s = w
    BY DEF Twice
  <2>2. c # a /\ d # a /\ c # G /\ d # G
    BY <2>1, <1>3
  <2>3. c \in DOMAIN k.sym \ Guards(k) /\ d \in DOMAIN k.sym \ Guards(k)
        /\ k.sym[c].s = w /\ k.sym[d].s = w
    BY <2>1, <2>2, <1>2
  <2> QED
    BY <2>1, <2>3 DEF Twice
<1>6. ASSUME NEW x \in DOMAIN k.rule \ {Start}, x # r PROVE First2(k, u, x)
  <2> DEFINE w == h.sym[First(h, x)].s
  <2>1. x \in DOMAIN h.rule \ {Start} /\ x # v
    BY <1>2
  <2>2. First2(h, s, x)
    BY <2>1 DEF Firsts
  <2>3. First(h, x) \in DOMAIN h.sym \ Guards(h) /\ h.sym[First(h, x)].owner = x
    BY <2>1, FirstNode
  <2>4. w # v
    BY <2>3, <1>3, <1>4, <1>6
  <2>5. k.sym[First(k, x)].s = w
    BY <2>1, <1>1, <1>6, SplicedAlike, AlikeIs
  <2> HIDE DEF w
  <2>6. w \in DOMAIN k.rule => w \in DOMAIN h.rule
    BY <1>2
  <2>7. First2(h, s, x) <=> (w \in DOMAIN h.rule =>
           Twice(h, w) \/ Awaits(s, "tidy", x) \/ Awaits(s, "substitute", w))
    BY DEF First2, w
  <2>8. ASSUME w \in DOMAIN k.rule PROVE Twice(k, w) \/ Awaits(u, "tidy", x)
    BY <2>2, <2>4, <2>6, <2>7, <2>8, <1>5, <1>6
  <2> QED
    BY <2>5, <2>8 DEF First2
<1>7. First2(k, u, r)
  <2> DEFINE w == h.sym[f].s
  <2>1. First2(h, s, v) /\ First(h, v) = f
    BY <1>3 DEF Firsts, First
  <2>2. f # G /\ f # a /\ left # G /\ left # a
    <3>1. a \notin Guards(h) /\ f \notin Guards(h)
      BY <1>1, <1>3, Lists
    <3>2. f # a /\ left # G
      BY <1>3
    <3> QED
      BY <3>1, <3>2, <1>3
  <2>3. left \in DOMAIN k.sym /\ f \in DOMAIN k.sym /\ r \in DOMAIN k.rule
    BY <2>2, <1>2, <1>3
  <2>4. First(k, r) = f /\ k.sym[f].s = w
    BY <2>3, <1>2, <1>3 DEF First
  <2>5. w # v
    <3>1. f \in DOMAIN h.sym \ Guards(h)
      BY <1>1, <1>3, Lists
    <3> QED
      BY <3>1, <2>2, <1>4
  <2> HIDE DEF w
  <2>6. First2(h, s, v) <=> (w \in DOMAIN h.rule =>
           Twice(h, w) \/ Awaits(s, "tidy", v) \/ Awaits(s, "substitute", w))
    BY <2>1 DEF First2, w
  <2>7. w \in DOMAIN k.rule => Twice(k, w)
    BY <2>1, <2>5, <2>6, <1>2, <1>5
  <2> QED
    BY <2>4, <2>7 DEF First2
<1> QED
  BY <1>6, <1>7 DEF Firsts

\* The steps keep what rules start with: those that make calls only,
LEMMA MoreTrans ==
  ASSUME NEW s, NEW t, NEW u, More(s, t), More(t, u)
  PROVE  More(s, u)
BY DEF More

\* A call that no rule awaits, and the ones pushed in its place.
LEMMA PopMore ==
  ASSUME Inductive, NEW op \in {"update", "check", "learn"}, Running(op)
  PROVE  More(stack, Return) /\ IsStack(Return)
<1>1. stack # <<>> /\ Head(stack).op = op /\ IsStack(Return) /\ IsStack(stack)
  BY Top DEF Inductive
<1>2. Head(stack).op \notin {"tidy", "substitute"}
  BY <1>1
<1>3. Head(stack).op \notin {"tidy", "substitute"} => More(stack, Tail(stack))
  BY <1>1, AwaitsPop
<1> QED
  BY <1>1, <1>2, <1>3 DEF Return

\* A stack with no call on top of it is itself.
LEMMA NoMore ==
  ASSUME NEW t, IsStack(t)
  PROVE  <<>> \o t = t /\ More(t, t)
<1>1. PICK F : t \in Seq(F)
  BY DEF IsStack
<1> QED
  BY <1>1 DEF More

\* The frames of an update take nothing from what a stack waits for.
LEMMA UpdateRootMore ==
  ASSUME NEW h, NEW t, IsStack(t)
  PROVE  More(t, UpdateRoot(h) \o t)
<1>1. CASE UpdateRoot(h) = <<UpdateFrame(Root, 0)>>
  BY <1>1, AwaitsPush
<1>2. CASE UpdateRoot(h) = <<>>
  BY <1>2, NoMore
<1> QED
  BY <1>1, <1>2 DEF UpdateRoot

\* Every step keeps it.
LEMMA UpdateChildFirsts ==
  ASSUME Inductive, Firsts(g, stack), UpdateChild
  PROVE  Firsts(g', stack')
<1> DEFINE t == Return
           f == Head(stack)
<1>1. Running("update")
  BY DEF UpdateChild
<1>2. More(stack, t) /\ IsStack(t) /\ Held(g, t) /\ Core(g)
  BY <1>1, PopMore, Top
<1>3. PICK c : /\ g' = [g EXCEPT !.sym[c].upd = FALSE]
               /\ stack' = <<UpdateFrame(c, 0), UpdateFrame(f.at, c)>> \o t
  BY DEF UpdateChild
<1>4. Same(g, g')
  BY <1>2, <1>3, FlagSame DEF Core
<1>5. More(stack, stack')
  <2> HIDE DEF t, f
  <2> DEFINE u == <<UpdateFrame(f.at, c)>> \o t
  <2>1. stack' = <<UpdateFrame(c, 0)>> \o u
    BY <1>2, <1>3, Cons2
  <2>2. IsStack(u) /\ More(t, u)
    BY <1>2, UpdateRests, AwaitsPush
  <2> HIDE DEF u
  <2>3. More(u, stack')
    BY <2>1, <2>2, AwaitsPush
  <2>4. More(t, stack')
    BY <2>2, <2>3, MoreTrans
  <2> QED
    BY <1>2, <2>4, MoreTrans
<1> QED
  BY <1>2, <1>4, <1>5, SameFirsts, FirstsMore

\* update_predictors after its last child keeps Firsts.
LEMMA UpdateSelfFirsts ==
  ASSUME Inductive, Firsts(g, stack), UpdateSelf
  PROVE  Firsts(g', stack')
<1>1. Running("update") /\ g' = AdoptNext(g, Head(stack).at) /\ stack' = Return
  BY DEF UpdateSelf
<1>2. More(stack, Return) /\ Core(g)
  BY <1>1, PopMore, Top
<1>3. Same(g, g')
  BY <1>1, <1>2, AdoptNextSame DEF Core
<1> QED
  BY <1>1, <1>2, <1>3, SameFirsts, FirstsMore

\* The learning at the end of an input keeps Firsts.
LEMMA LearnFirsts ==
  ASSUME Inductive, Firsts(g, stack), Learn
  PROVE  Firsts(g', stack')
<1> DEFINE t == Return
<1>1. Running("learn")
  BY DEF Learn
<1>2. More(stack, t) /\ IsStack(t) /\ Core(g)
  BY <1>1, PopMore, Top
<1>3. CASE g.sym[Root].pred
  BY <1>2, <1>3, FirstsMore DEF Learn
<1>4. CASE ~g.sym[Root].pred
  <2> DEFINE g1 == FindNewPredictors(g, Last(g, Start))
             g2 == Advance(g1, RawValue(g1, Head(stack).at))
  <2>1. g' = Updating(g2) /\ stack' = UpdateRoot(g2) \o t
    BY <1>4 DEF Learn
  <2>2. Same(g, g1)
    BY <1>2, FindSame DEF Core
  <2> HIDE DEF g1
  <2>3. Same(g1, g2)
    BY <2>2, ComputeSame DEF Same, Advance
  <2> HIDE DEF g2
  <2>4. Same(g2, Updating(g2))
    BY <2>3, UpdatingSame DEF Same
  <2>5. Same(g, g')
    <3>1. Same(g, g2)
      BY <2>2, <2>3, SameTrans
    <3> QED
      BY <3>1, <2>1, <2>4, SameTrans
  <2>6. More(t, stack')
    BY <1>2, <2>1, UpdateRootMore
  <2>7. More(stack, stack')
    BY <1>2, <2>6, MoreTrans
  <2> QED
    BY <1>2, <2>5, <2>7, SameFirsts, FirstsMore
<1> QED
  BY <1>3, <1>4

\* The calls of check that change no rule.
LEMMA AfterZeroMore ==
  ASSUME Inductive, Running("check")
  PROVE  More(stack, AfterZero(Head(stack)) \o Return)
<1> DEFINE f == Head(stack)
           t == Return
<1>1. More(stack, t) /\ IsStack(t)
  BY PopMore
<1>2. CASE AfterZero(f) = <<CheckFrame(g.sym[f.at].n, FALSE)>>
  <2>1. More(t, <<CheckFrame(g.sym[f.at].n, FALSE)>> \o t)
    BY <1>1, AwaitsPush
  <2> QED
    BY <1>1, <1>2, <2>1, MoreTrans
<1>3. CASE AfterZero(f) = <<>>
  BY <1>1, <1>3, NoMore
<1> QED
  BY <1>2, <1>3 DEF AfterZero

\* check that replaces nothing keeps Firsts.
LEMMA CheckZeroFirsts ==
  ASSUME Inductive, Firsts(g, stack), CheckNoDigram \/ CheckNewDigram \/ CheckOverlap
  PROVE  Firsts(g', stack')
<1>1. Running("check")
  BY DEF CheckNoDigram, CheckNewDigram, CheckOverlap
<1>2. Firsts(g, AfterZero(Head(stack)) \o Return)
  BY <1>1, AfterZeroMore, FirstsMore
<1>3. CASE CheckNoDigram
  BY <1>2, <1>3 DEF CheckNoDigram
<1>4. CASE CheckNewDigram
  <2>1. g' = SetDigram(g, Head(stack).at) /\ stack' = AfterZero(Head(stack)) \o Return
    BY <1>4 DEF CheckNewDigram
  <2>2. Sound(g) /\ Head(stack).at \in Linked(g)
    BY <1>1, CheckAt
  <2>3. g'.sym = g.sym /\ g'.rule = g.rule
    BY <2>1, <2>2, SetDigramSound
  <2> QED
    BY <1>2, <2>1, <2>3, TableFirsts
<1>5. CASE CheckOverlap
  <2>1. More(stack, Return)
    BY <1>1, PopMore
  <2> QED
    BY <2>1, <1>5, FirstsMore DEF CheckOverlap
<1> QED
  BY <1>3, <1>4, <1>5

\* match that finds a rule to reuse keeps Firsts: the rule gets a use more.
LEMMA CheckReuseRuleFirsts ==
  ASSUME Inductive, Firsts(g, stack), CheckReuseRule
  PROVE  Firsts(g', stack')
<1> DEFINE t == Return
           a == Head(stack).at
           r == g.sym[g.sym[Match(a)].p].s
           u == <<TidyFrame(r, FALSE)>> \o t
<1>1. Running("check") /\ g' = g /\ Kept
      /\ stack' = <<SubstituteFrame(a, r), TidyFrame(r, FALSE)>> \o t
  BY CheckReuseRuleKeeps DEF CheckReuseRule
<1>2. More(stack, t) /\ IsStack(t) /\ (t # <<>> => t[1].op # "update")
  BY <1>1, PopMore, Top DEF Fits
<1> HIDE DEF t, a, r
<1>3. stack' = <<SubstituteFrame(a, r)>> \o u
  BY <1>1, <1>2, Cons2
<1>4. IsStack(u)
  <2>1. Fits(TidyFrame(r, FALSE), t)
    BY <1>2 DEF Fits, TidyFrame
  <2> QED
    BY <2>1, <1>2, Push
<1>5. More(t, u)
  BY <1>2, AwaitsPush
<1> HIDE DEF u
<1>6. More(u, stack')
  BY <1>3, <1>4, AwaitsPush
<1>7. More(stack, stack')
  BY <1>2, <1>5, <1>6, MoreTrans
<1> QED
  BY <1>1, <1>7, FirstsMore

\* match that makes a new rule keeps Firsts: the rule waits to be tidied up.
LEMMA CheckNewRuleFirsts ==
  ASSUME Inductive, Firsts(g, stack), CheckNewRule
  PROVE  Firsts(g', stack')
<1> DEFINE t == Return
           a == Head(stack).at
           m == Match(a)
           r == RuleAddress(g)
           d == SubstituteFrame(m, r)
           e == SubstituteFrame(a, r)
           f == TidyFrame(r, TRUE)
           u == <<f>> \o t
           w == <<e>> \o u
<1>1. Running("check") /\ Kept /\ stack' = NewRuleCalls(m, a, r) \o t
  BY CheckNewRuleKeeps DEF CheckNewRule
<1>2. PICK b : Coined(g, b, r, g')
  BY CheckNewRuleKeeps
<1>3. More(stack, t) /\ IsStack(t) /\ Sound(g) /\ (t # <<>> => t[1].op # "update")
  BY <1>1, PopMore, Top DEF Fits
<1>4. /\ f.op = "tidy" /\ f.by = r
      /\ e.op = "substitute" /\ e.by = r /\ d.op = "substitute" /\ d.by = r
  BY DEF TidyFrame, SubstituteFrame
<1>5. stack' = <<d, e, f>> \o t
  BY <1>1 DEF NewRuleCalls
<1> HIDE DEF t, a, m, r, d, e, f
<1>6. stack' = <<d>> \o w
  <2>1. IsStack(t)
    BY <1>3
  <2>2. <<d, e, f>> \o t = <<d>> \o (<<e>> \o (<<f>> \o t))
    BY <2>1, Cons3
  <2> QED
    BY <2>2, <1>5
<1>7. IsStack(u) /\ u # <<>> /\ u[1] = f
  <2>1. Fits(f, t)
    BY <1>3, <1>4 DEF Fits
  <2> QED
    BY <2>1, <1>3, Push
<1>8. IsStack(w)
  <2>1. Fits(e, u)
    BY <1>7, <1>4 DEF Fits
  <2> QED
    BY <2>1, <1>7, Push
<1>9. More(t, u) /\ Awaits(u, "tidy", r)
  BY <1>3, <1>4, AwaitsPush
<1> HIDE DEF u
<1>10. More(u, w)
  BY <1>7, AwaitsPush
<1> HIDE DEF w
<1>11. More(w, stack')
  BY <1>6, <1>8, AwaitsPush
<1>12. More(u, stack') /\ More(stack, stack')
  <2>1. More(u, stack')
    BY <1>10, <1>11, MoreTrans
  <2>2. More(t, stack')
    BY <2>1, <1>9, MoreTrans
  <2> QED
    BY <2>1, <2>2, <1>3, MoreTrans
<1>13. Awaits(stack', "tidy", r)
  BY <1>9, <1>12 DEF More
<1>14. Core(g')
  BY <1>1 DEF Kept, Sound
<1> QED
  BY <1>2, <1>3, <1>12, <1>13, <1>14, CoinedFirsts

\* The calls in progress when a substitution is the next.
LEMMA SubstituteCalls ==
  ASSUME Inductive, Running("substitute")
  PROVE  LET r == Head(stack).by
         IN  /\ Awaits(Return, "tidy", r)
             /\ \A x : Awaits(stack, "substitute", x) => x = r
             /\ Return[1].op = "tidy" \/ Awaits(Return, "substitute", r)
             /\ Head(stack).op = "substitute" /\ IsStack(Return)
<1> DEFINE t == Return
           f == Head(stack)
           r == f.by
<1>1. /\ f.op = "substitute" /\ f = stack[1] /\ IsStack(t) /\ Held(g, t) /\ Rests(g, f, t)
      /\ Fits(f, t) /\ stack # <<>> /\ IsStack(stack)
  BY Top DEF Inductive
<1>2. \A op, x : Awaits(stack, op, x) => (f.op = op /\ f.by = x) \/ Awaits(t, op, x)
  BY <1>1, AwaitsPop DEF Return
<1> HIDE DEF t, f
<1>3. t # <<>> /\ t[1].op \in {"substitute", "tidy"} /\ t[1].by = r
  BY <1>1 DEF Fits
<1>4. \A j \in DOMAIN t : 2 <= j => t[j].op \in {"tidy", "learn"}
  BY <1>1 DEF Rests
<1>5. PICK F : t \in Seq(F)
  BY <1>1 DEF IsStack
<1>6. DOMAIN t = 1 .. Len(t) /\ Len(t) \in Nat
  BY <1>5, LenProperties
<1>7. 1 \in DOMAIN t
  <2>1. Len(t) # 0
    BY <1>3, <1>5, EmptySeq
  <2> QED
    BY <2>1, <1>6
<1>8. \A x : Awaits(t, "substitute", x) => x = r
  <2> SUFFICES ASSUME NEW x, NEW j \in DOMAIN t, t[j].op = "substitute", t[j].by = x PROVE x = r
    BY DEF Awaits
  <2>1. CASE j = 1
    BY <2>1, <1>3
  <2>2. CASE j # 1
    <3>1. 2 <= j
      BY <2>2, <1>6
    <3> QED
      BY <3>1, <1>4
  <2> QED
    BY <2>1, <2>2
<1>9. t[1].op = "tidy" \/ Awaits(t, "substitute", r)
  BY <1>3, <1>7 DEF Awaits
<1>10. Awaits(t, "tidy", r)
  <2>1. CASE t[1].op = "tidy"
    BY <2>1, <1>3, <1>7 DEF Awaits
  <2>2. CASE t[1].op = "substitute"
    <3>1. 2 \in DOMAIN t /\ t[2].op \in {"substitute", "tidy"} /\ t[2].by = r
      <4>1. 1 + 1 \in DOMAIN t /\ t[1 + 1].op \in {"substitute", "tidy"} /\ t[1 + 1].by = t[1].by
        BY <2>2, <1>1, <1>7 DEF IsStack, Nested
      <4> QED
        BY <4>1, <1>3
    <3>2. t[2].op = "tidy"
      BY <3>1, <1>4
    <3> QED
      BY <3>1, <3>2 DEF Awaits
  <2> QED
    BY <2>1, <2>2, <1>3
<1>11. \A x : Awaits(stack, "substitute", x) => x = r
  BY <1>2, <1>8
<1> QED
  BY <1>1, <1>9, <1>10, <1>11 DEF t, f

\* substitute keeps Firsts.
LEMMA SubstituteFirsts ==
  ASSUME Inductive, Firsts(g, stack), Substitute
  PROVE  Firsts(g', stack')
<1> DEFINE t == Return
           a == Head(stack).at
           r == Head(stack).by
           e == CheckFrame(g.sym[a].p, TRUE)
<1>1. Running("substitute") /\ stack' = <<e>> \o t /\ Sound(g)
  BY Top DEF Substitute
<1>2. Swaps(g, a, r, g') /\ (t[1].op = "tidy" => Used(g, r))
  BY SubstituteKeeps
<1>3. /\ Awaits(t, "tidy", r) /\ \A x : Awaits(stack, "substitute", x) => x = r
  BY <1>1, SubstituteCalls
<1>4. /\ t[1].op = "tidy" \/ Awaits(t, "substitute", r)
      /\ Head(stack).op = "substitute" /\ IsStack(t)
  BY <1>1, SubstituteCalls
<1>5. \A x : Awaits(stack, "tidy", x) => Awaits(t, "tidy", x)
  <2>1. stack # <<>> /\ IsStack(stack)
    BY <1>1 DEF Running, Inductive
  <2>2. \A op, x : Awaits(stack, op, x) =>
           \/ Head(stack).op = op /\ Head(stack).by = x
           \/ Awaits(Tail(stack), op, x)
    BY <2>1, AwaitsPop
  <2> QED
    BY <2>2, <1>4 DEF Return
<1> HIDE DEF t, a, r, e
<1>6. \A op, x : Awaits(t, op, x) => Awaits(stack', op, x)
  BY <1>1, <1>4, AwaitsPush
<1>7. Awaits(stack', "substitute", r) \/ Used(g, r)
  BY <1>2, <1>4, <1>6
<1>8. Awaits(stack', "tidy", r) /\ \A x : Awaits(stack, "tidy", x) => Awaits(stack', "tidy", x)
  BY <1>3, <1>5, <1>6
<1> QED
  BY <1>1, <1>2, <1>3, <1>7, <1>8, SwapsFirsts

\* A rule that is not underused is used twice.
LEMMA NotUnderused ==
  ASSUME NEW h, Sound(h), AllUsed(h), NEW r \in DOMAIN h.rule \ {Start}, ~Underused(h, r),
         h.sym[First(h, r)].s \in DOMAIN h.rule
  PROVE  Twice(h, h.sym[First(h, r)].s)
<1> DEFINE v == h.sym[First(h, r)].s
<1>1. v # Start /\ v \in DOMAIN h.rule /\ Core(h)
  BY FirstNode DEF Sound
<1>2. NT(v)
  BY <1>1, RuleValues DEF Core
<1>3. h.rule[v].count # 1
  BY <1>2 DEF Underused
<1> HIDE DEF v
<1>4. /\ h.rule[v].users = {c \in DOMAIN h.sym \ Guards(h) : h.sym[c].s = v}
      /\ h.rule[v].count = Cardinality(h.rule[v].users)
  BY <1>1 DEF Core, Counted
<1>5. PICK c \in DOMAIN h.sym \ Guards(h) : h.sym[c].s = v
  BY <1>1 DEF AllUsed, Used
<1>6. h.rule[v].users # {c}
  BY <1>3, <1>4, FS_Singleton
<1>7. PICK d \in h.rule[v].users : d # c
  BY <1>4, <1>5, <1>6
<1>8. Twice(h, v)
  BY <1>4, <1>5, <1>7 DEF Twice
<1> QED
  BY <1>8 DEF v

\* And one that is used twice counts two users at least.
LEMMA TwiceCounted ==
  ASSUME NEW h, Sound(h), NEW v \in DOMAIN h.rule, Twice(h, v)
  PROVE  h.rule[v].count >= 2
<1>1. /\ h.rule[v].users = {c \in DOMAIN h.sym \ Guards(h) : h.sym[c].s = v}
      /\ h.rule[v].count = Cardinality(h.rule[v].users) /\ IsFiniteSet(DOMAIN h.sym)
  BY DEF Sound, Core, Counted
<1>3. IsFiniteSet(h.rule[v].users)
  BY <1>1, FS_Subset
<1>2. PICK c, d \in DOMAIN h.sym \ Guards(h) : c # d /\ h.sym[c].s = v /\ h.sym[d].s = v
  BY DEF Twice
<1>4. c \in h.rule[v].users /\ d \in h.rule[v].users
  BY <1>1, <1>2
<1>5. \A x : h.rule[v].users # {x}
  BY <1>2, <1>4
<1>6. h.rule[v].count \in Nat /\ h.rule[v].count # 0
  BY <1>1, <1>3, <1>4, FS_CardinalityType, FS_EmptySet
<1>7. h.rule[v].count # 1
  BY <1>1, <1>3, <1>5, FS_Singleton
<1> QED
  BY <1>6, <1>7

\* Tidying a rule up keeps Firsts: it expands what the rule alone uses.
LEMMA TidyFirsts ==
  ASSUME Inductive, Firsts(g, stack), Tidy
  PROVE  Firsts(g', stack')
<1> DEFINE f == Head(stack)
           r == f.by
           t == Return
           h == IF f.fresh THEN SetDigram(g, First(g, r)) ELSE g
<1>1. /\ Running("tidy") /\ stack' = t
      /\ g' = IF Underused(h, r) THEN Expand(h, First(h, r)) ELSE h
  BY DEF Tidy
<1>2. /\ f.op = "tidy" /\ f = stack[1] /\ IsStack(t) /\ Held(g, t) /\ Rests(g, f, t)
      /\ Sound(g) /\ Core(g) /\ InUse(g, stack) /\ stack # <<>> /\ IsStack(stack)
  BY <1>1, Top DEF Inductive
<1>3. AllUsed(g)
  BY <1>2, InUseAll
<1>4. \A op, x : Awaits(stack, op, x) => (f.op = op /\ f.by = x) \/ Awaits(t, op, x)
  BY <1>2, AwaitsPop DEF Return
<1> HIDE DEF f, t
<1>5. /\ r \in DOMAIN g.rule \ {Start} /\ Pair(g, r)
      /\ t # <<>> => Over(g, f, t[1])
      /\ \A j \in DOMAIN t : t[j].op \in {"tidy", "learn"} /\ (t[j].op = "tidy" => t[j].by # r)
  BY <1>2 DEF Rests, Tidied
<1>6. Waits(t)
  BY <1>5 DEF Waits
<1>7. t # <<>> => (t[1].op = "tidy" => g.sym[Last(g, r)].s = t[1].by)
  BY <1>2, <1>5 DEF Over
<1>8. First(g, r) \in Linked(g)
  BY <1>2, <1>5, PairNodes, Lists
<1>9. Sound(h) /\ h.sym = g.sym /\ h.rule = g.rule
  BY <1>2, <1>8, SetDigramSound
<1>10. f.by = r
  OBVIOUS
<1> HIDE DEF h, r
<1>11. Held(h, t)
  <2>1. \A j \in DOMAIN t : t[j].op # "check"
    BY <1>5
  <2> QED
    BY <2>1, <1>2, <1>9, HeldTable
<1>12. /\ AllUsed(h) /\ r \in DOMAIN h.rule \ {Start} /\ Pair(h, r)
       /\ t # <<>> => (t[1].op = "tidy" => h.sym[Last(h, r)].s = t[1].by)
  <2>1. Guards(h) = Guards(g) /\ (Pair(h, r) <=> Pair(g, r)) /\ Last(h, r) = Last(g, r)
    BY <1>9 DEF Guards, Pair, Last
  <2>2. AllUsed(h)
    BY <2>1, <1>3, <1>9 DEF AllUsed, Used
  <2> QED
    BY <2>1, <2>2, <1>5, <1>7, <1>9
<1>13. Firsts(h, stack)
  BY <1>9, TableFirsts
\* No substitution is in progress.
<1>14. \A x : ~Awaits(stack, "substitute", x)
  <2>1. \A x : ~Awaits(t, "substitute", x)
    BY <1>6 DEF Waits, Awaits
  <2> QED
    BY <2>1, <1>2, <1>4
<1>15. \A x : x # r /\ Awaits(stack, "tidy", x) => Awaits(t, "tidy", x)
  BY <1>4, <1>10
<1>16. CASE ~Underused(h, r)
  <2>1. ASSUME NEW x \in DOMAIN h.rule \ {Start} PROVE First2(h, t, x)
    <3>1. CASE x = r
      BY <3>1, <1>9, <1>12, <1>16, NotUnderused DEF First2
    <3>2. CASE x # r
      <4>1. First2(h, stack, x)
        BY <1>13 DEF Firsts
      <4> QED
        BY <4>1, <3>2, <1>14, <1>15 DEF First2
    <3> QED
      BY <3>1, <3>2
  <2> QED
    BY <2>1, <1>1, <1>16 DEF Firsts
<1>17. CASE Underused(h, r)
  <2> DEFINE a == First(h, r)
             v == h.sym[a].s
             left == h.sym[a].p
             right == h.sym[a].n
             G == h.rule[v].guard
             c == h.sym[G].n
             l == h.sym[G].p
             k == Expand(h, a)
  <2>1. Core(h)
    BY <1>9 DEF Sound
  <2>2. PICK rk : Ranking(h, rk)
    BY <1>9 DEF Sound
  <2>3. Expandable(h, a, v) /\ h.sym[a].owner = r
    BY <1>9, <1>12, <1>17, UnderusedIs
  <2>4. Around(h, a, v, h.sym[a].owner, left, right, G, c, l)
    BY <2>1, <2>2, <2>3, ExpandNodes
  <2>5. \A j \in DOMAIN t : t[j].op = "tidy" => t[j].by # v
    <3>1. \A j \in DOMAIN t : t[j].op = "tidy" => t[j].by # r
      BY <1>5
    <3> QED
      BY <3>1, <1>2, <1>6, <1>9, <1>11, <1>12, <1>17, ExpandKeeps
  <2>6. g' = k
    BY <1>1, <1>17
  <2> HIDE DEF a, v, left, right, G, c, l, k
  <2>7. Around(h, a, v, r, left, right, G, c, l)
    BY <2>3, <2>4
  <2>8. IsHeap(k) /\ Spliced(h, a, v, left, right, c, l, G, k) /\ Entries3(h, a, right, l, k)
    BY <2>1, <2>7, ExpandIs DEF k
  <2>9. h.rule[v].users = {a} /\ v \in DOMAIN h.rule
    BY <2>3 DEF Expandable
  <2>10. Guards(k) = Guards(h) \ {G}
    BY <2>1, <2>2, <2>7, <2>8, <2>9, SplicedCore
  <2>11. ~Awaits(stack, "tidy", v)
    <3>1. ~Awaits(t, "tidy", v)
      BY <2>5 DEF Awaits
    <3>2. v # r
      BY <2>7 DEF Around
    <3> QED
      BY <3>1, <3>2, <1>15
  <2>12. Firsts(k, t)
    BY <2>7, <2>8, <2>9, <2>10, <2>11, <1>9, <1>12, <1>13, <1>14, <1>15, SplicedFirsts
  <2> QED
    BY <2>6, <2>12, <1>1
<1> QED
  BY <1>16, <1>17

\* input keeps Firsts: it appends to the start rule.
LEMMA InputFirsts ==
  ASSUME Inductive, Firsts(g, stack), NEW x \in Terminal, Input(x)
  PROVE  Firsts(g', stack')
<1> DEFINE a  == SymbolAddress(g)
           g1 == InsertAfter(NewSymbol(g, x, Start), Last(g, Start), a)
           g2 == Advance(g1, x)
<1>1. stack = <<>> /\ g' = Updating(g2)
  BY DEF Input
<1>2. Sound(g1) /\ Appended(g, Start, x, a, g1)
  BY <1>1, InputAppends
<1>3. Sound(g)
  BY DEF Inductive
<1> HIDE DEF g1, a
<1>4. Same(g1, g2)
  BY <1>2, ComputeSame DEF Advance, Sound, Core
<1> HIDE DEF g2
<1>5. Same(g1, g')
  <2>1. Same(g2, Updating(g2))
    BY <1>4, UpdatingSame DEF Same
  <2> QED
    BY <1>1, <1>4, <2>1, SameTrans
<1>6. Firsts(g1, <<>>)
  BY <1>1, <1>2, <1>3, AppendedFirsts
<1>7. Firsts(g', <<>>)
  BY <1>2, <1>5, <1>6, SameFirsts DEF Sound
<1>8. More(<<>>, stack')
  BY DEF More, Awaits
<1> QED
  BY <1>7, <1>8, FirstsMore

-----------------------------------------------------------------------------
\* Every step keeps Firsts.
LEMMA StepFirsts ==
  ASSUME Inductive, Firsts(g, stack), [Next]_vars
  PROVE  Firsts(g', stack')
<1>1. CASE \E x \in Terminal : Input(x)
  BY <1>1, InputFirsts
<1>2. CASE UpdateChild
  BY <1>2, UpdateChildFirsts
<1>3. CASE UpdateSelf
  BY <1>3, UpdateSelfFirsts
<1>4. CASE CheckNoDigram \/ CheckNewDigram \/ CheckOverlap
  BY <1>4, CheckZeroFirsts
<1>5. CASE CheckReuseRule
  BY <1>5, CheckReuseRuleFirsts
<1>6. CASE CheckNewRule
  BY <1>6, CheckNewRuleFirsts
<1>7. CASE Substitute
  BY <1>7, SubstituteFirsts
<1>8. CASE Tidy
  BY <1>8, TidyFirsts
<1>9. CASE Learn
  BY <1>9, LearnFirsts
<1>10. CASE UNCHANGED vars
  BY <1>10 DEF vars
<1> QED
  BY <1>1, <1>2, <1>3, <1>4, <1>5, <1>6, <1>7, <1>8, <1>9, <1>10 DEF Next, Cascade, Finished

\* It holds at first.
LEMMA InitFirsts ==
  ASSUME Init
  PROVE  Firsts(g, stack)
<1>1. DOMAIN g.rule = {Start}
  BY InitInductive
<1> QED
  BY <1>1 DEF Firsts

\* When nothing waits to be tidied, a rule that another starts with is used twice.
LEMMA FirstsFromInvariant ==
  ASSUME Inductive, Firsts(g, stack)
  PROVE  FirstUsedTwice
<1> SUFFICES ASSUME stack = <<>>, NEW r \in DOMAIN g.rule \ {Start}, NT(g.sym[First(g, r)].s)
             PROVE  g.rule[g.sym[First(g, r)].s].count >= 2
  BY DEF FirstUsedTwice, Quiet
<1> DEFINE v == g.sym[First(g, r)].s
<1>1. NT(v)
  OBVIOUS
<1>2. Sound(g) /\ Core(g)
  BY DEF Inductive, Sound
<1>3. v \in DOMAIN g.rule
  <2>1. First(g, r) \in DOMAIN g.sym
    BY <1>2, FirstNode
  <2>2. v \in Terminal \cup DOMAIN g.rule
    BY <2>1, <1>2, Values
  <2> QED
    BY <2>2, <1>1 DEF NT
<1>4. \A op, x : ~Awaits(stack, op, x)
  BY DEF Awaits
<1>5. Twice(g, v)
  BY <1>3, <1>4 DEF Firsts, First2
<1> QED
  BY <1>2, <1>3, <1>5, TwiceCounted

-----------------------------------------------------------------------------
(* The theorems.                                                            *)

\* Both invariants together.
Unshared == Inductive /\ Firsts(g, stack)

\* At every step of every input the grammar is sound, the frames know what they
\* return to, and a rule that starts with another used once waits to be tidied
\* (the calls of oracle.cpp and symbols.cpp from input() on).
THEOREM FirstsInvariant == Spec => []Unshared
<1>1. Init => Unshared
  BY InitInductive, InitFirsts DEF Unshared
<1>2. Unshared /\ [Next]_vars => Unshared'
  BY StepKeeps, StepFirsts DEF Unshared
<1> QED
  BY <1>1, <1>2, PTL DEF Spec

\* FirstUsedTwice holds for every alphabet and every number of inputs: match()
\* (symbols.cpp) leaves no rule whose first symbol is the only use of another.
THEOREM Tight == Spec => []FirstUsedTwice
<1>1. Unshared => FirstUsedTwice
  BY FirstsFromInvariant DEF Unshared
<1> QED
  BY <1>1, FirstsInvariant, PTL

\* TypeOK holds for every alphabet and every number of inputs.
THEOREM TypeCorrect == Spec => []TypeOK
<1>1. Inductive /\ Bounded => TypeOK
  BY TypeFromInvariant
<1> QED
  BY <1>1, HeapInvariant, StaysBounded, PTL

\* RuleUtility holds for every alphabet and every number of inputs: no rule is
\* left unused or with fewer than two symbols.
THEOREM Utility == Spec => []RuleUtility
<1>1. Inductive => RuleUtility
  BY UtilityFromInvariant
<1> QED
  BY <1>1, HeapInvariant, PTL

\* UsersExact holds for every alphabet and every number of inputs: reuse() and
\* deuse() (rules.cpp) count the nodes that hold the rule.
THEOREM UsersKnown == Spec => []UsersExact
<1>1. Inductive => UsersExact
  BY UsersFromInvariant
<1> QED
  BY <1>1, HeapInvariant, PTL

\* OwnersExact holds for every alphabet and every number of inputs: every node of
\* a ring knows its rule, also after an expansion (symbols.cpp).
THEOREM OwnersKnown == Spec => []OwnersExact
<1>1. Inductive => OwnersExact
  BY OwnersFromInvariant
<1> QED
  BY <1>1, HeapInvariant, PTL

\* TableSound holds for every alphabet and every number of inputs: an entry of
\* the table of digrams never outlives its digram.
THEOREM TableTrue == Spec => []TableSound
<1>1. Inductive => TableSound
  BY TableFromInvariant
<1> QED
  BY <1>1, HeapInvariant, PTL

\* FramesLive holds for every alphabet and every number of inputs: a call on the
\* stack never returns to a node or a rule that was deleted.
THEOREM CallsAlive == Spec => []FramesLive
<1>1. Inductive => FramesLive
  BY LiveFromInvariant
<1> QED
  BY <1>1, HeapInvariant, PTL

\* SubstituteMatches holds for every alphabet and every number of inputs: what
\* substitute() (symbols.cpp) replaces is the digram its rule stands for.
THEOREM MatchesExact == Spec => []SubstituteMatches
<1>1. Inductive => SubstituteMatches
  BY MatchesFromInvariant
<1> QED
  BY <1>1, HeapInvariant, PTL

-----------------------------------------------------------------------------
(* What the grammar spells.                                                 *)

\* What value v spells, when W tells what each node and its successors spell.
Says(h, W, v) == IF v \in DOMAIN h.rule THEN W[First(h, v)] ELSE <<v>>

\* W tells what each node and its successors spell: nothing at a guard, else
\* what the node's value spells and then what the next node does.
Spells(h, W) ==
  /\ \A a \in Linked(h) : W[a] \in Seq(Terminal)
  /\ \A a \in Guards(h) : W[a] = <<>>
  /\ \A a \in Inner(h) : W[a] = Says(h, W, h.sym[a].s) \o W[h.sym[a].n]

\* What a value spells is a string of terminals.
LEMMA SaysString ==
  ASSUME NEW h, Core(h), NEW W, Spells(h, W), NEW v \in Terminal \cup DOMAIN h.rule
  PROVE  Says(h, W, v) \in Seq(Terminal)
<1>1. CASE v \in DOMAIN h.rule
  <2>1. First(h, v) \in Linked(h)
    BY <1>1, GuardNodes, Lists DEF First
  <2> QED
    BY <1>1, <2>1 DEF Says, Spells
<1>2. CASE v \notin DOMAIN h.rule
  <2>1. v \in Terminal
    BY <1>2
  <2>2. <<v>> \in Seq(Terminal)
    BY <2>1
  <2> QED
    BY <1>2, <2>2 DEF Says
<1> QED
  BY <1>1, <1>2

\* A set of naturals that holds 0 and, below n, the successors of its members,
\* holds all up to n.
LEMMA UpTo ==
  ASSUME NEW n \in Nat, NEW T, 0 \in T, \A i \in 0 .. n - 1 : i \in T => i + 1 \in T
  PROVE  \A i \in 0 .. n : i \in T
<1> SUFFICES ASSUME \E i \in 0 .. n : i \notin T PROVE FALSE
  OBVIOUS
<1> DEFINE B == {i \in 0 .. n : i \notin T}
<1>1. B \subseteq Nat /\ B # {}
  OBVIOUS
<1> HIDE DEF B
<1>2. PICK m \in B : \A i \in B : m <= i
  BY <1>1, Least
<1>3. m \in 0 .. n /\ m \notin T
  BY DEF B
<1>4. m # 0
  BY <1>3
<1>5. m - 1 \in 0 .. n - 1 /\ m - 1 \in 0 .. n /\ m - 1 + 1 = m /\ ~(m <= m - 1)
  BY <1>3, <1>4
<1>6. m - 1 \in T
  BY <1>2, <1>5 DEF B
<1> QED
  BY <1>3, <1>5, <1>6

\* The recursion that appends the strings V[1], V[2], ... has a solution.
LEMMA Appending ==
  ASSUME NEW n \in Nat, NEW V
  PROVE  \E f : f = [i \in 0 .. n |-> IF i = 0 THEN <<>> ELSE f[i - 1] \o V[i]]
<1> DEFINE T == {m \in Nat : \E f : f = [i \in 0 .. m |-> IF i = 0 THEN <<>> ELSE f[i - 1] \o V[i]]}
<1>1. 0 \in T
  <2> DEFINE f == [i \in 0 .. 0 |-> <<>>]
  <2>1. f = [i \in 0 .. 0 |-> IF i = 0 THEN <<>> ELSE f[i - 1] \o V[i]]
    OBVIOUS
  <2> HIDE DEF f
  <2> QED
    BY <2>1
<1>2. ASSUME NEW m \in 0 .. n - 1, m \in T
      PROVE  m + 1 \in T
  <2>1. PICK f : f = [i \in 0 .. m |-> IF i = 0 THEN <<>> ELSE f[i - 1] \o V[i]]
    BY <1>2
  <2> DEFINE e == [i \in 0 .. m + 1 |-> IF i = m + 1 THEN f[m] \o V[m + 1] ELSE f[i]]
  <2>2. \A i \in 0 .. m + 1 : e[i] = IF i = 0 THEN <<>> ELSE e[i - 1] \o V[i]
    <3> SUFFICES ASSUME NEW i \in 0 .. m + 1
                 PROVE  e[i] = IF i = 0 THEN <<>> ELSE e[i - 1] \o V[i]
      OBVIOUS
    <3>1. CASE i = m + 1
      <4>1. i # 0 /\ i - 1 = m /\ m \in 0 .. m + 1 /\ m # m + 1
        BY <3>1
      <4> QED
        BY <3>1, <4>1
    <3>2. CASE i # m + 1
      <4>1. i \in 0 .. m /\ (i # 0 => i - 1 \in 0 .. m + 1 /\ i - 1 # m + 1)
        BY <3>2
      <4>2. f[i] = IF i = 0 THEN <<>> ELSE f[i - 1] \o V[i]
        BY <2>1, <4>1
      <4> QED
        BY <3>2, <4>1, <4>2
    <3> QED
      BY <3>1, <3>2
  <2>3. e = [i \in 0 .. m + 1 |-> e[i]]
    OBVIOUS
  <2> HIDE DEF e
  <2>4. e = [i \in 0 .. m + 1 |-> IF i = 0 THEN <<>> ELSE e[i - 1] \o V[i]]
    <3> DEFINE R(i) == IF i = 0 THEN <<>> ELSE e[i - 1] \o V[i]
    <3>1. \A i \in 0 .. m + 1 : e[i] = R(i)
      BY <2>2
    <3> HIDE DEF R
    <3>2. e = [i \in 0 .. m + 1 |-> R(i)]
      BY <2>3, <3>1
    <3> QED
      BY <3>2 DEF R
  <2>5. m + 1 \in Nat
    OBVIOUS
  <2> QED
    BY <2>4, <2>5
<1> HIDE DEF T
<1>3. \A m \in 0 .. n : m \in T
  BY <1>1, <1>2, UpTo
<1>4. n \in T
  BY <1>3
<1> QED
  BY <1>4 DEF T

\* The string that a body of nodes stands for, when E tells what rules stand for.
Spelling(h, E, b) ==
  LET Upto[i \in 0 .. Len(b)] ==
        IF i = 0 THEN <<>>
        ELSE Upto[i - 1] \o (LET v == h.sym[b[i]].s
                             IN  IF NT(v) THEN E[v] ELSE <<v>>)
  IN  Upto[Len(b)]

\* U tells what the first symbols of the body stand for.
Prefixes(h, E, b, U) ==
  /\ Spelling(h, E, b) = U[Len(b)] /\ U[0] = <<>>
  /\ \A i \in 0 .. Len(b) - 1 :
       LET v == h.sym[b[i + 1]].s
       IN  U[i + 1] = U[i] \o (IF NT(v) THEN E[v] ELSE <<v>>)

\* It appends what each symbol stands for.
LEMMA SpellingIs ==
  ASSUME NEW h, NEW E, NEW b, Len(b) \in Nat
  PROVE  \E U : Prefixes(h, E, b, U)
<1> DEFINE V == [i \in 0 .. Len(b) |-> IF NT(h.sym[b[i]].s) THEN E[h.sym[b[i]].s]
                                       ELSE <<h.sym[b[i]].s>>]
           U == CHOOSE f : f = [i \in 0 .. Len(b) |->
                  IF i = 0 THEN <<>>
                  ELSE f[i - 1] \o (LET v == h.sym[b[i]].s IN IF NT(v) THEN E[v] ELSE <<v>>)]
<1>1. Spelling(h, E, b) = U[Len(b)]
  BY DEF Spelling
<1>2. U = [i \in 0 .. Len(b) |-> IF i = 0 THEN <<>>
             ELSE U[i - 1] \o (LET v == h.sym[b[i]].s IN IF NT(v) THEN E[v] ELSE <<v>>)]
  <2>1. PICK f : f = [i \in 0 .. Len(b) |-> IF i = 0 THEN <<>> ELSE f[i - 1] \o V[i]]
    <3> HIDE DEF V
    <3> QED
      BY Appending
  <2>2. f = [i \in 0 .. Len(b) |-> IF i = 0 THEN <<>>
             ELSE f[i - 1] \o (LET v == h.sym[b[i]].s IN IF NT(v) THEN E[v] ELSE <<v>>)]
    BY <2>1
  <2> QED
    BY Zenon, <2>2
<1> HIDE DEF U
<1>3. U[0] = <<>>
  BY <1>2
<1>4. \A i \in 0 .. Len(b) - 1 :
        LET v == h.sym[b[i + 1]].s
        IN  U[i + 1] = U[i] \o (IF NT(v) THEN E[v] ELSE <<v>>)
  <2> SUFFICES ASSUME NEW i \in 0 .. Len(b) - 1
               PROVE  LET v == h.sym[b[i + 1]].s
                      IN  U[i + 1] = U[i] \o (IF NT(v) THEN E[v] ELSE <<v>>)
    BY Zenon
  <2> DEFINE j == i + 1
  <2>1. j \in 0 .. Len(b) /\ j # 0 /\ j - 1 = i /\ j = i + 1
    OBVIOUS
  <2> HIDE DEF V, j
  <2>2. U[j] = U[j - 1] \o (LET v == h.sym[b[j]].s IN IF NT(v) THEN E[v] ELSE <<v>>)
    BY Zenon, <1>2, <2>1
  <2> QED
    BY Zenon, <2>1, <2>2
<1>5. Prefixes(h, E, b, U)
  BY <1>1, <1>3, <1>4 DEF Prefixes
<1> QED
  BY <1>5

\* Expansion spells the bodies of the rules.
LEMMA ExpansionUnfolds ==
  ASSUME NEW h
  PROVE  Expansion(h) = CHOOSE E : E = [r \in DOMAIN h.rule |-> Spelling(h, E, Body(h, r))]
  BY DEF Expansion, Spelling

\* The nodes of a body, one by one: F tells the rest of the body from a node.
LEMMA BodyFrom ==
  ASSUME NEW h, Core(h), NEW r \in DOMAIN h.rule
  PROVE  \E F : /\ \A a \in Linked(h) :
                     F[a] = IF a \in Guards(h) THEN <<>> ELSE <<a>> \o F[h.sym[a].n]
                /\ \A a \in Linked(h) : F[a] \in Seq(Linked(h))
                /\ Body(h, r) = F[First(h, r)]
<1>1. PICK F : /\ \A a \in Linked(h) :
                     F[a] = IF a \in Guards(h) THEN <<>> ELSE <<a>> \o F[h.sym[a].n]
               /\ \A q : Body(h, q) = F[First(h, q)]
  BY BodyUnfolds
<1>2. ASSUME NEW b \in Linked(h)
      PROVE  F[b] \in Seq(Linked(h))
  <2> DEFINE q == h.sym[b].owner
             T == {a \in Linked(h) : F[a] \in Seq(Linked(h))}
  <2>1. q \in DOMAIN h.rule /\ h.rule[q].guard \in Guards(h) /\ h.rule[q].guard \in Linked(h)
    BY Lists, GuardNodes
  <2>2. h.rule[q].guard \in T
    BY <2>1, <1>1, EmptySeq
  <2>3. ASSUME NEW a \in T
        PROVE  h.sym[a].p \in T
    <3> DEFINE c == h.sym[a].p
    <3>1. c \in Linked(h) /\ h.sym[c].n = a /\ F[a] \in Seq(Linked(h))
      BY Lists
    <3>2. CASE c \in Guards(h)
      BY <3>1, <3>2, <1>1, EmptySeq
    <3>3. CASE c \notin Guards(h)
      <4>1. F[c] = <<c>> \o F[a]
        BY <3>1, <3>3, <1>1
      <4> HIDE DEF c
      <4>2. F[c] \in Seq(Linked(h))
        BY <4>1, <3>1, Cons
      <4> QED
        BY <4>2, <3>1 DEF c
    <3> QED
      BY <3>2, <3>3
  <2>4. Backward(h) /\ T \subseteq Linked(h)
    BY DEF Core
  <2> HIDE DEF T
  <2>5. \A a \in Linked(h) : h.sym[a].owner = q => a \in T
    BY <2>1, <2>2, <2>3, <2>4, Backwards
  <2>6. b \in T
    BY <2>5
  <2> QED
    BY <2>6 DEF T
<1> QED
  BY <1>1, <1>2

\* Concatenation of strings is associative.
LEMMA Assoc ==
  ASSUME NEW a \in Seq(Terminal), NEW b \in Seq(Terminal), NEW c \in Seq(Terminal)
  PROVE  /\ a \o b \in Seq(Terminal)
         /\ (a \o b) \o c = a \o (b \o c)
<1>1. a \o b \in Seq(Terminal)
  BY ConcatProperties
<1>2. (a \o b) \o c = a \o (b \o c)
  BY ConcatAssociative
<1> QED
  BY <1>1, <1>2

\* The first node of a rule, or its guard.
LEMMA FirstLinked ==
  ASSUME NEW h, Core(h), NEW r \in DOMAIN h.rule
  PROVE  First(h, r) \in Linked(h) /\ h.sym[First(h, r)].owner = r
<1> DEFINE q == h.rule[r].guard
<1>1. q \in Linked(h) /\ h.sym[q].owner = r
  BY GuardNodes
<1>2. h.sym[q].n \in Linked(h) /\ h.sym[h.sym[q].n].owner = r
  BY <1>1, Lists
<1> QED
  BY <1>2 DEF First

\* The body of a rule spells what its first node and the ones after it spell.
LEMMA BodySpells ==
  ASSUME NEW h, Core(h), NEW W, Spells(h, W), NEW r \in DOMAIN h.rule, NEW E,
         \A a \in InnerOf(h, r) : h.sym[a].s \in DOMAIN h.rule =>
            E[h.sym[a].s] = W[First(h, h.sym[a].s)]
  PROVE  Spelling(h, E, Body(h, r)) = W[First(h, r)]
<1> DEFINE b == Body(h, r)
           x == First(h, r)
           n == Len(b)
<1>1. PICK F : /\ \A a \in Linked(h) :
                     F[a] = IF a \in Guards(h) THEN <<>> ELSE <<a>> \o F[h.sym[a].n]
               /\ \A a \in Linked(h) : F[a] \in Seq(Linked(h))
               /\ b = F[x]
  BY BodyFrom
<1>2. x \in Linked(h) /\ h.sym[x].owner = r
  BY FirstLinked
<1>3. b \in Seq(Linked(h)) /\ n \in Nat
  <2>1. b \in Seq(Linked(h))
    BY <1>1, <1>2
  <2> HIDE DEF b
  <2> QED
    BY <2>1, LenProperties
<1> HIDE DEF b, x
<1>4. PICK U : /\ Spelling(h, E, b) = U[n] /\ U[0] = <<>>
               /\ \A i \in 0 .. n - 1 :
                     LET v == h.sym[b[i + 1]].s
                     IN  U[i + 1] = U[i] \o (IF NT(v) THEN E[v] ELSE <<v>>)
  <2>1. Len(b) \in Nat
    BY <1>3
  <2>2. PICK U : Prefixes(h, E, b, U)
    BY <2>1, SpellingIs
  <2> QED
    BY <2>2 DEF Prefixes
<1> HIDE DEF n
<1> DEFINE At(i, a) == /\ a \in Linked(h) /\ h.sym[a].owner = r
                       /\ Len(F[a]) = n - i /\ \A j \in 1 .. n - i : F[a][j] = b[i + j]
                       /\ U[i] \in Seq(Terminal) /\ U[i] \o W[a] = W[x]
           T == {i \in 0 .. n : \E a : At(i, a)}
<1>5. \A a \in Linked(h) : W[a] \in Seq(Terminal)
  BY DEF Spells
<1>6. 0 \in T
  <2>1. Len(F[x]) = n - 0 /\ \A j \in 1 .. n - 0 : F[x][j] = b[0 + j]
    BY <1>1, <1>3 DEF n
  <2>2. U[0] \in Seq(Terminal) /\ U[0] \o W[x] = W[x]
    BY <1>2, <1>4, <1>5, EmptySeq, ConcatEmptySeq
  <2>3. At(0, x)
    BY <2>1, <2>2, <1>2
  <2> HIDE DEF At
  <2>4. 0 \in 0 .. n
    BY <1>3
  <2> QED
    BY <2>3, <2>4
<1>7. ASSUME NEW i \in 0 .. n - 1, NEW a, At(i, a)
      PROVE  At(i + 1, h.sym[a].n)
  <2> DEFINE c == h.sym[a].n
             v == h.sym[a].s
             s == Says(h, W, v)
  <2>1. /\ a \in Linked(h) /\ h.sym[a].owner = r
        /\ Len(F[a]) = n - i /\ \A j \in 1 .. n - i : F[a][j] = b[i + j]
        /\ U[i] \in Seq(Terminal) /\ U[i] \o W[a] = W[x]
    BY <1>7
  <2> HIDE DEF At
  <2>2. a \notin Guards(h)
    <3>1. Len(F[a]) # 0
      BY <2>1, <1>3
    <3>2. a \in Guards(h) => F[a] = <<>>
      BY <2>1, <1>1
    <3>3. Len(<<>>) = 0
      OBVIOUS
    <3> QED
      BY <3>1, <3>2, <3>3
  <2>3. a \in Inner(h) /\ a \in InnerOf(h, r) /\ c \in Linked(h) /\ h.sym[c].owner = r
    BY <2>1, <2>2, Lists DEF InnerOf
  <2>4. F[a] = <<a>> \o F[c] /\ F[c] \in Seq(Linked(h))
    BY <2>1, <2>2, <2>3, <1>1
  <2>5. W[a] = s \o W[c] /\ s \in Seq(Terminal) /\ W[c] \in Seq(Terminal)
        /\ (NT(v) <=> v \in DOMAIN h.rule)
    <3>1. v \in Terminal \cup DOMAIN h.rule /\ (NT(v) <=> v \in DOMAIN h.rule)
      BY <2>3, InnerNode, Values
    <3>2. s \in Seq(Terminal)
      BY <3>1, SaysString
    <3> QED
      BY <3>1, <3>2, <2>3, <1>5 DEF Spells
  <2>6. (IF NT(v) THEN E[v] ELSE <<v>>) = s
    BY <2>3, <2>5 DEF Says
  <2> HIDE DEF c, s, v
  <2>7. /\ Len(F[a]) = Len(F[c]) + 1 /\ F[a][1] = a
        /\ \A j \in 1 .. Len(F[c]) : F[a][j + 1] = F[c][j]
        /\ Len(F[c]) \in Nat
    BY <2>1, <2>4, Cons, LenProperties
  <2>8. Len(F[c]) = n - (i + 1)
    <3>1. Len(F[a]) = n - i /\ Len(F[a]) = Len(F[c]) + 1 /\ Len(F[c]) \in Nat /\ n \in Nat
      BY <2>1, <2>7, <1>3
    <3> QED
      BY <3>1
  <2>9. b[i + 1] = a
    BY <2>1, <2>7, <1>3
  <2>10. \A j \in 1 .. n - (i + 1) : F[c][j] = b[i + 1 + j]
    <3> SUFFICES ASSUME NEW j \in 1 .. n - (i + 1) PROVE F[c][j] = b[i + 1 + j]
      OBVIOUS
    <3>1. j \in 1 .. Len(F[c]) /\ j + 1 \in 1 .. n - i /\ i + (j + 1) = i + 1 + j
      BY <2>8, <1>3
    <3>2. F[a][j + 1] = b[i + (j + 1)] /\ F[a][j + 1] = F[c][j]
      BY <3>1, <2>1, <2>7
    <3> QED
      BY <3>1, <3>2
  <2>11. U[i + 1] = U[i] \o s
    BY <1>4, <2>6, <2>9 DEF v
  <2>12. U[i + 1] \in Seq(Terminal) /\ U[i + 1] \o W[c] = W[x]
    <3>3. U[i] \in Seq(Terminal) /\ s \in Seq(Terminal) /\ W[c] \in Seq(Terminal)
      BY <2>1, <2>5
    <3>1. U[i] \o s \in Seq(Terminal)
      BY <3>3, ConcatProperties
    <3>2. (U[i] \o s) \o W[c] = U[i] \o (s \o W[c])
      BY <3>3, Assoc
    <3> QED
      BY <3>1, <3>2, <2>1, <2>5, <2>11
  <2>13. At(i + 1, c)
    BY <2>3, <2>8, <2>10, <2>12 DEF At
  <2> QED
    BY <2>13 DEF c
<1>8. ASSUME NEW i \in 0 .. n - 1, i \in T
      PROVE  i + 1 \in T
  <2>1. PICK a : At(i, a)
    BY <1>8
  <2>2. At(i + 1, h.sym[a].n)
    BY <2>1, <1>7
  <2> HIDE DEF At
  <2> QED
    BY <2>2, <1>3
<1> HIDE DEF T
<1>9. n \in T
  <2>1. \A i \in 0 .. n : i \in T
    BY <1>3, <1>6, <1>8, UpTo
  <2> QED
    BY <2>1, <1>3
<1>10. PICK a : At(n, a)
  BY <1>9 DEF T
<1>11. /\ a \in Linked(h) /\ Len(F[a]) = 0
       /\ U[n] \in Seq(Terminal) /\ U[n] \o W[a] = W[x]
  <2>1. n - n = 0
    BY <1>3
  <2> QED
    BY <2>1, <1>10
<1>12. a \in Guards(h)
  <2> SUFFICES ASSUME a \notin Guards(h) PROVE FALSE
    OBVIOUS
  <2>1. F[a] = <<a>> \o F[h.sym[a].n] /\ F[h.sym[a].n] \in Seq(Linked(h))
    BY <1>1, <1>11, Lists
  <2>2. Len(F[a]) = Len(F[h.sym[a].n]) + 1 /\ Len(F[h.sym[a].n]) \in Nat
    BY <2>1, <1>11, Cons, LenProperties
  <2> QED
    BY <2>2, <1>11
<1>13. W[a] = <<>>
  BY <1>12 DEF Spells
<1>14. U[n] = W[x]
  BY <1>11, <1>13, ConcatEmptySeq
<1> QED
  BY <1>4, <1>14 DEF b, x, n

\* Expansion gives what the first node of a rule and the ones after it spell.
LEMMA ExpansionSpells ==
  ASSUME NEW h, Core(h), NEW rk, Ranking(h, rk), NEW W, Spells(h, W), NEW r \in DOMAIN h.rule
  PROVE  Expansion(h)[r] = W[First(h, r)]
<1> DEFINE X == Expansion(h)
           D == [q \in DOMAIN h.rule |-> W[First(h, q)]]
<1>1. D = [q \in DOMAIN h.rule |-> Spelling(h, D, Body(h, q))]
  <2>1. ASSUME NEW q \in DOMAIN h.rule
        PROVE  Spelling(h, D, Body(h, q)) = W[First(h, q)]
    <3>1. \A a \in InnerOf(h, q) : h.sym[a].s \in DOMAIN h.rule =>
            D[h.sym[a].s] = W[First(h, h.sym[a].s)]
      OBVIOUS
    <3> HIDE DEF D
    <3> QED
      BY <3>1, BodySpells
  <2> QED
    BY <2>1
<1>2. X = [q \in DOMAIN h.rule |-> Spelling(h, X, Body(h, q))]
  <2> HIDE DEF D
  <2>1. X = CHOOSE E : E = [q \in DOMAIN h.rule |-> Spelling(h, E, Body(h, q))]
    BY ExpansionUnfolds
  <2> QED
    BY <1>1, <2>1
<1> HIDE DEF X, D
<1>3. \A q \in DOMAIN h.rule : X[q] = Spelling(h, X, Body(h, q))
  BY <1>2
<1> DEFINE B == {q \in DOMAIN h.rule : X[q] # W[First(h, q)]}
<1>4. B = {}
  <2> SUFFICES ASSUME B # {} PROVE FALSE
    OBVIOUS
  <2> DEFINE K == {rk[q] : q \in B}
  <2>1. K \subseteq Nat /\ K # {}
    BY DEF Ranking
  <2>2. PICK m \in K : \A n \in K : m <= n
    <3> HIDE DEF K
    <3> QED
      BY <2>1, Least
  <2>3. PICK q \in B : m = rk[q]
    OBVIOUS
  <2>4. ASSUME NEW a \in InnerOf(h, q), h.sym[a].s \in DOMAIN h.rule
        PROVE  X[h.sym[a].s] = W[First(h, h.sym[a].s)]
    <3>1. rk[h.sym[a].s] < rk[q] /\ rk[h.sym[a].s] \in Nat /\ rk[q] \in Nat
      BY <2>4 DEF Ranking, InnerOf
    <3>2. h.sym[a].s \notin B
      BY <3>1, <2>2, <2>3
    <3> QED
      BY <3>2, <2>4
  <2>5. Spelling(h, X, Body(h, q)) = W[First(h, q)]
    BY <2>3, <2>4, BodySpells
  <2> QED
    BY <2>3, <2>5, <1>3
<1> QED
  BY <1>4 DEF X

-----------------------------------------------------------------------------
(* Each change of the grammar keeps what the rules spell.                   *)

\* V tells what the nodes of k spell, and the rules that h has too spell there
\* what W tells of h.
Keeps(h, W, k, V) ==
  /\ Spells(k, V)
  /\ \A r \in DOMAIN h.rule \cap DOMAIN k.rule : V[First(k, r)] = W[First(h, r)]

\* A change of neither the lists nor the values keeps what the rules spell.
LEMMA SameKeeps ==
  ASSUME NEW h, Core(h), NEW W, Spells(h, W), NEW k, SameLists(h, k)
  PROVE  Keeps(h, W, k, W)
<1>1. /\ DOMAIN k.sym = DOMAIN h.sym /\ k.rule = h.rule
      /\ \A a \in DOMAIN h.sym : k.sym[a].n = h.sym[a].n /\ k.sym[a].s = h.sym[a].s
  BY DEF SameLists
<1>2. Linked(k) = Linked(h)
  BY <1>1 DEF Linked
<1>3. Guards(k) = Guards(h)
  BY <1>1 DEF Guards
<1>4. Inner(k) = Inner(h)
  BY <1>2, <1>3 DEF Inner
<1>5. \A r \in DOMAIN h.rule : First(k, r) = First(h, r)
  <2>1. \A r \in DOMAIN h.rule : h.rule[r].guard \in DOMAIN h.sym
    BY GuardNodes
  <2> QED
    BY <2>1, <1>1 DEF First
<1>6. \A v : Says(k, W, v) = Says(h, W, v)
  BY <1>1, <1>5 DEF Says
<1>7. \A a \in Inner(h) : k.sym[a].n = h.sym[a].n /\ k.sym[a].s = h.sym[a].s
  BY <1>1, InnerNode
<1>8. Spells(k, W)
  BY <1>2, <1>3, <1>4, <1>6, <1>7 DEF Spells
<1> QED
  BY <1>1, <1>5, <1>8 DEF Keeps

\* What an inner node spells.
LEMMA InnerSpells ==
  ASSUME NEW h, Core(h), NEW W, Spells(h, W), NEW a \in Inner(h)
  PROVE  /\ W[a] = Says(h, W, h.sym[a].s) \o W[h.sym[a].n]
         /\ Says(h, W, h.sym[a].s) \in Seq(Terminal)
         /\ W[h.sym[a].n] \in Seq(Terminal) /\ W[a] \in Seq(Terminal)
         /\ a \in Linked(h) /\ h.sym[a].n \in Linked(h)
<1>1. a \in Linked(h) /\ h.sym[a].n \in Linked(h) /\ a \in DOMAIN h.sym
  BY Lists, InnerNode
<1>2. h.sym[a].s \in Terminal \cup DOMAIN h.rule
  BY <1>1, Values
<1>3. Says(h, W, h.sym[a].s) \in Seq(Terminal)
  BY <1>2, SaysString
<1> QED
  BY <1>1, <1>3 DEF Spells

\* So does a value appended to the start rule, but that the start rule spells that
\* value more.
LEMMA AppendedKeeps ==
  ASSUME NEW h, Core(h), Start \in DOMAIN h.rule, NEW W, Spells(h, W),
         NEW x \in Terminal, NEW c, NEW k, Core(k), Appended(h, Start, x, c, k)
  PROVE  \E V : /\ Spells(k, V) /\ V[First(k, Start)] = W[First(h, Start)] \o <<x>>
                /\ \A r \in DOMAIN h.rule \ {Start} : V[First(k, r)] = W[First(h, r)]
<1> DEFINE G == h.rule[Start].guard
           z == h.sym[G].p
           V == [a \in Linked(k) |-> IF a = c THEN <<x>>
                                     ELSE IF a \in Inner(h) /\ h.sym[a].owner = Start
                                     THEN W[a] \o <<x>> ELSE W[a]]
<1>1. /\ c \notin DOMAIN h.sym
      /\ \A b \in DOMAIN h.sym : /\ k.sym[b].n = IF b = z THEN c ELSE h.sym[b].n
                                 /\ k.sym[b].s = h.sym[b].s
      /\ k.sym[c].n = G /\ k.sym[c].s = x
      /\ DOMAIN k.rule = DOMAIN h.rule
      /\ \A r \in DOMAIN h.rule : k.rule[r].guard = h.rule[r].guard
      /\ Guards(k) = Guards(h)
      /\ Linked(k) = Linked(h) \cup {c} /\ Inner(k) = Inner(h) \cup {c}
  BY DEF Appended
<1>2. /\ G \in Guards(h) /\ G \in Linked(h) /\ G \in DOMAIN h.sym /\ h.sym[G].owner = Start
      /\ \A r \in DOMAIN h.rule : h.rule[r].guard \in DOMAIN h.sym
      /\ \A a \in Guards(h) : a \in Linked(h) /\ a \notin Inner(h)
      /\ \A a \in Linked(h) : h.sym[a].owner = Start /\ a \in Guards(h) => a = G
  BY GuardNodes
<1>3. z \in Linked(h) /\ z \in DOMAIN h.sym /\ h.sym[z].n = G /\ h.sym[z].owner = Start
  BY <1>2, PrevNode
<1>4. <<x>> \in Seq(Terminal)
  OBVIOUS
<1>5. \A a \in Linked(h) : a \in DOMAIN h.sym /\ a # c /\ W[a] \in Seq(Terminal)
  BY <1>1, Lists DEF Spells
<1>6. /\ V[c] = <<x>>
      /\ \A a \in Linked(h) : V[a] = IF a \in Inner(h) /\ h.sym[a].owner = Start
                                     THEN W[a] \o <<x>> ELSE W[a]
  BY <1>1, <1>5
<1>7. \A a \in Linked(k) : V[a] \in Seq(Terminal)
  <2> SUFFICES ASSUME NEW a \in Linked(k) PROVE V[a] \in Seq(Terminal)
    OBVIOUS
  <2> HIDE DEF V
  <2>1. CASE a = c
    BY <2>1, <1>4, <1>6
  <2>2. CASE a \in Linked(h)
    <3>1. W[a] \in Seq(Terminal) /\ W[a] \o <<x>> \in Seq(Terminal)
      BY <2>2, <1>4, <1>5, Assoc
    <3> QED
      BY <3>1, <2>2, <1>6
  <2> QED
    BY <2>1, <2>2, <1>1
<1> HIDE DEF V, G, z
<1>8. \A a \in Guards(k) : V[a] = <<>>
  BY <1>1, <1>2, <1>6 DEF Spells
<1>9. ASSUME NEW r \in DOMAIN h.rule, r # Start
      PROVE  First(k, r) = First(h, r) /\ V[First(k, r)] = W[First(h, r)]
  <2>1. First(h, r) \in Linked(h) /\ h.sym[First(h, r)].owner = r
    BY FirstLinked
  <2>2. First(k, r) = First(h, r)
    BY <1>9, AppendedAlike, AlikeIs
  <2> QED
    BY <2>1, <2>2, <1>6, <1>9
<1>10. ASSUME NEW a \in Inner(h)
       PROVE  /\ Says(k, V, k.sym[a].s) = Says(h, W, h.sym[a].s) /\ k.sym[a].s = h.sym[a].s
              /\ a \in DOMAIN h.sym /\ a \in Linked(h)
  <2>1. a \in DOMAIN h.sym /\ a \in Linked(h) /\ h.sym[a].s # Start
    BY Lists
  <2> QED
    BY <2>1, <1>1, <1>9 DEF Says
<1>11. ASSUME NEW a \in Inner(h)
       PROVE  V[a] = Says(k, V, k.sym[a].s) \o V[k.sym[a].n]
  <2> DEFINE s == Says(h, W, h.sym[a].s)
             b == h.sym[a].n
  <2>1. /\ W[a] = s \o W[b] /\ s \in Seq(Terminal) /\ W[b] \in Seq(Terminal)
        /\ a \in Linked(h) /\ b \in Linked(h)
    BY InnerSpells
  <2>2. Says(k, V, k.sym[a].s) = s /\ a \in DOMAIN h.sym
    BY <1>10
  <2>3. h.sym[b].owner = h.sym[a].owner
    BY <2>1, Lists
  <2>4. a # z => h.sym[b].p = a /\ k.sym[a].n = b
    BY <1>1, <2>1, <2>2, Lists
  <2> HIDE DEF s
  <2>5. CASE a = z
    <3>1. b = G /\ h.sym[a].owner = Start /\ k.sym[a].n = c
      BY <2>2, <2>5, <1>1, <1>3
    <3>2. W[b] = <<>>
      BY <3>1, <1>2 DEF Spells
    <3>3. W[a] = s
      BY <3>2, <2>1, ConcatEmptySeq
    <3>4. V[a] = W[a] \o <<x>>
      BY Zenon, <3>1, <2>1, <1>6
    <3> QED
      BY <3>1, <3>3, <3>4, <2>2, <1>6
  <2>6. CASE a # z /\ h.sym[a].owner = Start
    <3>1. b \in Inner(h)
      <4>1. b # G
        BY <2>4, <2>6 DEF z
      <4> QED
        BY <4>1, <2>1, <2>3, <2>6, <1>2, Lists
    <3>2. V[a] = W[a] \o <<x>> /\ V[b] = W[b] \o <<x>>
      BY <3>1, <2>1, <2>3, <2>6, <1>6
    <3>3. (s \o W[b]) \o <<x>> = s \o (W[b] \o <<x>>)
      BY Zenon, <2>1, <1>4, Assoc
    <3> QED
      BY Zenon, <3>2, <3>3, <2>1, <2>2, <2>4, <2>6
  <2>7. CASE h.sym[a].owner # Start
    <3>1. V[a] = W[a] /\ V[b] = W[b] /\ a # z
      BY <2>1, <2>3, <2>7, <1>3, <1>6
    <3> QED
      BY <3>1, <2>1, <2>2, <2>4
  <2> QED
    BY <2>5, <2>6, <2>7
<1>12. V[c] = Says(k, V, k.sym[c].s) \o V[k.sym[c].n]
  <2>1. x \notin DOMAIN k.rule
    BY RuleValues DEF Core
  <2>2. Says(k, V, k.sym[c].s) = <<x>> /\ k.sym[c].n = G
    BY <2>1, <1>1 DEF Says
  <2>3. V[G] = <<>>
    BY <1>1, <1>2, <1>8
  <2> QED
    BY <2>2, <2>3, <1>4, <1>6, ConcatEmptySeq
<1>13. Spells(k, V)
  BY <1>1, <1>7, <1>8, <1>11, <1>12 DEF Spells
<1>14. V[First(k, Start)] = W[First(h, Start)] \o <<x>>
  <2> DEFINE f == h.sym[G].n
  <2>1. First(h, Start) = f /\ First(k, Start) = k.sym[G].n
    BY <1>1, <1>2 DEF First, G
  <2>2. f \in Linked(h) /\ h.sym[f].owner = Start /\ h.sym[f].p = G
    BY <1>2, Lists
  <2>3. CASE G = z
    <3>1. f = G /\ k.sym[G].n = c
      BY <2>3, <1>1, <1>2, <1>3
    <3>2. W[f] = <<>>
      BY <3>1, <1>2 DEF Spells
    <3>3. W[f] \o <<x>> = <<x>>
      BY <3>2, <1>4, ConcatEmptySeq
    <3> QED
      BY <3>1, <3>3, <2>1, <1>6
  <2>4. CASE G # z
    <3>1. k.sym[G].n = f
      BY <2>4, <1>1, <1>2
    <3>2. f # G
      BY <2>2, <2>4 DEF z
    <3>3. f \in Inner(h)
      BY <3>2, <2>2, <1>2, Lists
    <3> QED
      BY <3>1, <3>3, <2>1, <2>2, <1>6
  <2> QED
    BY <2>3, <2>4
<1> QED
  BY <1>9, <1>13, <1>14

\* So does a new rule made of two symbols.
LEMMA CoinedKeeps ==
  ASSUME NEW h, Core(h), NEW W, Spells(h, W), NEW a, NEW r, NEW k, Core(k), Coined(h, a, r, k)
  PROVE  \E V : Keeps(h, W, k, V)
<1> DEFINE f == First(k, r)
           l == Last(k, r)
           s == Says(h, W, k.sym[f].s)
           t == Says(h, W, k.sym[l].s)
           V == [x \in Linked(k) |-> IF x \in Linked(h) THEN W[x]
                                     ELSE IF x = l THEN t ELSE IF x = f THEN s \o t ELSE <<>>]
<1>1. /\ r \notin DOMAIN h.rule /\ DOMAIN k.rule = DOMAIN h.rule \cup {r}
      /\ \A x \in DOMAIN h.rule : k.rule[x].guard = h.rule[x].guard
      /\ Linked(h) \subseteq Linked(k) /\ Guards(h) \subseteq Guards(k)
      /\ \A x \in DOMAIN h.sym :
           /\ k.sym[x].n = h.sym[x].n
           /\ k.sym[x].s = h.sym[x].s /\ k.sym[x].owner = h.sym[x].owner
      /\ Pair(k, r)
      /\ \A x \in Inner(k) : k.sym[x].s # r
      /\ \A x \in Guards(k) : x \in Guards(h) \/ x \notin DOMAIN h.sym
  BY DEF Coined
<1>2. /\ f \in Inner(k) /\ k.sym[f].owner = r /\ l \in Inner(k) /\ k.sym[l].owner = r
      /\ k.sym[f].n = l /\ f # l /\ k.sym[l].n = k.rule[r].guard
      /\ \A x \in Inner(k) : k.sym[x].owner = r => x = f \/ x = l
  BY <1>1, PairNodes
<1>3. \A x \in Linked(h) : /\ x \in DOMAIN h.sym /\ h.sym[x].owner \in DOMAIN h.rule
                           /\ W[x] \in Seq(Terminal)
  BY Lists DEF Spells
<1>4. f \notin Linked(h) /\ l \notin Linked(h)
  BY <1>1, <1>2, <1>3
<1>5. \A x \in Inner(k) : x \in Linked(k) /\ x \notin Guards(k)
                          /\ k.sym[x].s \in Terminal \cup DOMAIN h.rule
  <2> SUFFICES ASSUME NEW x \in Inner(k)
               PROVE  x \in Linked(k) /\ x \notin Guards(k)
                      /\ k.sym[x].s \in Terminal \cup DOMAIN h.rule
    OBVIOUS
  <2>1. x \in Linked(k) /\ x \in DOMAIN k.sym /\ x \notin Guards(k)
    BY InnerNode
  <2>2. k.sym[x].s \in Terminal \cup DOMAIN k.rule
    BY <2>1, Values
  <2> QED
    BY <2>1, <2>2, <1>1
<1>6. s \in Seq(Terminal) /\ t \in Seq(Terminal)
  BY <1>2, <1>5, SaysString
<1>7. s \o t \in Seq(Terminal) /\ <<>> \in Seq(Terminal)
  BY <1>6, Assoc
<1> HIDE DEF s, t
<1>8. /\ \A x \in Linked(h) : V[x] = W[x]
      /\ V[l] = t /\ V[f] = s \o t
      /\ \A x \in Linked(k) : x \notin Linked(h) /\ x # f /\ x # l => V[x] = <<>>
  BY <1>1, <1>2, <1>4, <1>5
<1>9. \A x \in Linked(k) : V[x] \in Seq(Terminal)
  BY <1>3, <1>6, <1>7, <1>8
<1> HIDE DEF V, f, l
<1>10. \A x \in Guards(k) : V[x] = <<>>
  <2> SUFFICES ASSUME NEW x \in Guards(k) PROVE V[x] = <<>>
    OBVIOUS
  <2>1. x \in Linked(k) /\ x # f /\ x # l
    BY <1>2, <1>5, GuardNodes
  <2>2. CASE x \in Linked(h)
    <3>1. x \in Guards(h)
      BY <2>2, <1>1, <1>3
    <3> QED
      BY <3>1, <2>2, <1>8 DEF Spells
  <2>3. CASE x \notin Linked(h)
    BY <2>1, <2>3, <1>8
  <2> QED
    BY <2>2, <2>3
<1>11. ASSUME NEW q \in DOMAIN h.rule
       PROVE  First(k, q) = First(h, q) /\ V[First(k, q)] = W[First(h, q)]
  <2>1. First(k, q) = First(h, q)
    BY CoinedAlike, AlikeIs
  <2>2. First(h, q) \in Linked(h)
    BY FirstLinked
  <2> QED
    BY <2>1, <2>2, <1>8
<1>12. \A v \in Terminal \cup DOMAIN h.rule : Says(k, V, v) = Says(h, W, v)
  <2> SUFFICES ASSUME NEW v \in Terminal \cup DOMAIN h.rule PROVE Says(k, V, v) = Says(h, W, v)
    OBVIOUS
  <2>1. CASE v \in DOMAIN h.rule
    BY <2>1, <1>1, <1>11 DEF Says
  <2>2. CASE v \notin DOMAIN h.rule
    <3>1. v \notin DOMAIN k.rule
      BY <2>2, RuleValues DEF Core
    <3> QED
      BY <3>1, <2>2 DEF Says
  <2> QED
    BY <2>1, <2>2
<1>13. ASSUME NEW x \in Inner(k)
       PROVE  V[x] = Says(k, V, k.sym[x].s) \o V[k.sym[x].n]
  <2>1. x \in Linked(k) /\ x \notin Guards(k) /\ Says(k, V, k.sym[x].s) = Says(h, W, k.sym[x].s)
    BY <1>5, <1>12
  <2>2. CASE x = f
    BY <2>1, <2>2, <1>2, <1>8 DEF s
  <2>3. CASE x = l
    <3>1. k.rule[r].guard \in Guards(k)
      BY <1>1, GuardNodes
    <3>2. V[k.sym[x].n] = <<>>
      BY <3>1, <2>3, <1>2, <1>10
    <3>3. t \o <<>> = t
      BY <1>6, ConcatEmptySeq
    <3> QED
      BY <3>2, <3>3, <2>1, <2>3, <1>8 DEF t
  <2>4. CASE x # f /\ x # l
    <3> DEFINE o == k.sym[x].owner
    <3>1. o \in DOMAIN h.rule
      <4>1. o # r
        BY <2>4, <1>2
      <4>2. o \in DOMAIN k.rule
        BY <2>1, Lists
      <4> QED
        BY <4>1, <4>2, <1>1
    <3>2. k.rule[o].guard \in Linked(h)
      BY <3>1, <1>1, GuardNodes
    <3>3. \A y \in Linked(h) : k.sym[y].n \in Linked(h)
      BY <1>1, <1>3, Lists
    <3>4. Forward(k) /\ o \in DOMAIN k.rule
      BY <3>1, <1>1 DEF Core
    <3>5. \A y \in Linked(k) : k.sym[y].owner = o => y \in Linked(h)
      BY <3>2, <3>3, <3>4, <1>1, Forwards
    <3>6. x \in Linked(h)
      BY <3>5, <2>1
    <3>7. x \in Inner(h)
      BY <3>6, <2>1, <1>1 DEF Inner
    <3>8. W[x] = Says(h, W, h.sym[x].s) \o W[h.sym[x].n] /\ h.sym[x].n \in Linked(h)
      BY <3>7, InnerSpells
    <3>9. k.sym[x].n = h.sym[x].n /\ k.sym[x].s = h.sym[x].s
      BY <3>6, <1>1, <1>3
    <3> QED
      BY <3>6, <3>8, <3>9, <2>1, <1>8
  <2> QED
    BY <2>2, <2>3, <2>4
<1>14. Spells(k, V)
  BY <1>9, <1>10, <1>13 DEF Spells
<1>15. Keeps(h, W, k, V)
  BY <1>11, <1>14 DEF Keeps
<1> QED
  BY <1>15

\* So does a digram replaced by a rule that stands for it.
LEMMA SwapsKeeps ==
  ASSUME NEW h, Core(h), NEW W, Spells(h, W), NEW a, NEW r, NEW k, Core(k), Swaps(h, a, r, k)
  PROVE  \E V : Keeps(h, W, k, V)
<1> DEFINE Y == h.sym[a].n
           q == h.sym[a].p
           z == h.sym[Y].n
<1>1. PICK B : Replaced(h, a, r, B, k)
  BY DEF Swaps
<1>2. /\ B \notin DOMAIN h.sym
      /\ \A c \in DOMAIN h.sym \ {a, Y} :
           /\ k.sym[c].n = IF c = q THEN B ELSE h.sym[c].n
           /\ k.sym[c].s = h.sym[c].s
      /\ k.sym[B].n = z /\ k.sym[B].s = r
      /\ DOMAIN k.rule = DOMAIN h.rule
      /\ \A x \in DOMAIN h.rule : k.rule[x].guard = h.rule[x].guard
      /\ Guards(k) = Guards(h)
      /\ Linked(k) = (Linked(h) \ {a, Y}) \cup {B}
      /\ Inner(k) = (Inner(h) \ {a, Y}) \cup {B}
  BY <1>1 DEF Replaced
<1>3. /\ a \in Inner(h) /\ Y \in Inner(h) /\ r \in DOMAIN h.rule /\ Pair(h, r)
      /\ h.sym[a].s = h.sym[First(h, r)].s /\ h.sym[Y].s = h.sym[Last(h, r)].s
  BY DEF Swaps
<1>4. /\ \A c \in Linked(h) : c \in DOMAIN h.sym /\ W[c] \in Seq(Terminal)
      /\ \A c \in Guards(h) : c \in Linked(h) /\ c \notin Inner(h)
      /\ \A c \in Inner(h) : c \in Linked(h) /\ c \notin Guards(h)
  BY Lists, GuardNodes DEF Spells
<1>5. /\ q \in Linked(h) /\ h.sym[q].n = a /\ h.sym[Y].p = a /\ h.sym[z].p = Y
      /\ z \in Linked(h) /\ z # a /\ z # Y /\ q # a /\ q # Y
  <2>1. q \in Linked(h) /\ h.sym[q].n = a /\ h.sym[Y].p = a /\ h.sym[z].p = Y /\ z \in Linked(h)
    BY <1>3, <1>4, Lists
  <2>2. Y # a /\ z # Y /\ q # a
    BY <1>3, Neighbours
  <2>3. z # a
    <3> SUFFICES ASSUME z = a PROVE FALSE
      OBVIOUS
    <3>1. h.sym[a].n = h.sym[a].p
      BY <2>1
    <3>2. Y \in Guards(h)
      BY <3>1, <1>3, Neighbours
    <3> QED
      BY <3>2, <1>3, <1>4
  <2> QED
    BY <2>1, <2>2, <2>3
<1> DEFINE V == [c \in Linked(k) |-> IF c = B THEN W[a] ELSE W[c]]
<1>6. /\ V[B] = W[a]
      /\ \A c \in Linked(h) : c # a /\ c # Y => V[c] = W[c]
      /\ \A c \in Linked(k) : V[c] \in Seq(Terminal)
  BY <1>2, <1>3, <1>4
<1> HIDE DEF V, q, z, Y
<1>7. \A c \in Guards(k) : V[c] = <<>>
  <2>1. \A c \in Guards(h) : W[c] = <<>>
    BY DEF Spells
  <2> QED
    BY <2>1, <1>2, <1>3, <1>4, <1>6
<1>8. ASSUME NEW c \in Linked(h), c # a, c # Y
      PROVE  V[k.sym[c].n] = W[h.sym[c].n] /\ k.sym[c].s = h.sym[c].s
  <2>1. k.sym[c].n = (IF c = q THEN B ELSE h.sym[c].n) /\ k.sym[c].s = h.sym[c].s
    BY <1>2, <1>4, <1>8
  <2>2. CASE c = q
    BY <2>1, <2>2, <1>5, <1>6
  <2>3. CASE c # q
    <3>1. h.sym[c].n \in Linked(h) /\ h.sym[h.sym[c].n].p = c
      BY Lists
    <3>2. h.sym[c].n # a /\ h.sym[c].n # Y
      BY <3>1, <2>3, <1>5, <1>8 DEF q
    <3> QED
      BY <3>1, <3>2, <2>1, <2>3, <1>6
  <2> QED
    BY <2>2, <2>3
<1>9. ASSUME NEW x \in DOMAIN h.rule
      PROVE  V[First(k, x)] = W[First(h, x)]
  <2>1. h.rule[x].guard \in Linked(h) /\ h.rule[x].guard # a /\ h.rule[x].guard # Y
    BY <1>3, <1>4, GuardNodes
  <2> QED
    BY <2>1, <1>2, <1>8 DEF First
<1>10. \A v : Says(k, V, v) = Says(h, W, v)
  BY <1>2, <1>9 DEF Says
<1>11. Says(h, W, r) \o W[z] = W[a]
  <2> DEFINE f == First(h, r)
             l == Last(h, r)
             s == Says(h, W, h.sym[a].s)
             t == Says(h, W, h.sym[Y].s)
  <2>1. /\ f \in Inner(h) /\ l \in Inner(h) /\ h.sym[f].n = l
        /\ h.sym[l].n = h.rule[r].guard /\ h.rule[r].guard \in Guards(h)
    BY <1>3, PairNodes, GuardNodes
  <2>2. W[a] = s \o W[Y] /\ s \in Seq(Terminal)
    BY <1>3, InnerSpells DEF Y
  <2>3. W[Y] = t \o W[z] /\ t \in Seq(Terminal) /\ W[z] \in Seq(Terminal)
    BY <1>3, InnerSpells DEF z
  <2>4. W[f] = s \o W[l]
    <3>1. W[f] = Says(h, W, h.sym[f].s) \o W[h.sym[f].n]
      BY <2>1, InnerSpells
    <3>2. h.sym[f].s = h.sym[a].s
      BY <1>3
    <3> QED
      BY <3>1, <3>2, <2>1
  <2>5. W[l] = t \o W[h.sym[l].n]
    <3>1. W[l] = Says(h, W, h.sym[l].s) \o W[h.sym[l].n]
      BY <2>1, InnerSpells
    <3>2. h.sym[l].s = h.sym[Y].s
      BY <1>3
    <3> QED
      BY <3>1, <3>2
  <2>6. W[h.sym[l].n] = <<>>
    BY <2>1 DEF Spells
  <2>7. Says(h, W, r) = W[f]
    BY <1>3 DEF Says
  <2> HIDE DEF f, l, s, t
  <2>8. W[l] = t
    BY <2>3, <2>5, <2>6, ConcatEmptySeq
  <2>9. (s \o t) \o W[z] = s \o (t \o W[z])
    BY <2>2, <2>3, Assoc
  <2> QED
    BY <2>2, <2>3, <2>4, <2>7, <2>8, <2>9
<1>12. ASSUME NEW c \in Inner(k)
       PROVE  V[c] = Says(k, V, k.sym[c].s) \o V[k.sym[c].n]
  <2>1. CASE c = B
    <3>1. V[z] = W[z]
      BY <1>5, <1>6
    <3> QED
      BY <3>1, <2>1, <1>2, <1>6, <1>10, <1>11
  <2>2. CASE c # B
    <3>1. c \in Inner(h) /\ c # a /\ c # Y /\ c \in Linked(h)
      BY <2>2, <1>2, <1>4
    <3>2. W[c] = Says(h, W, h.sym[c].s) \o W[h.sym[c].n]
      BY <3>1, InnerSpells
    <3> QED
      BY <3>1, <3>2, <1>6, <1>8, <1>10
  <2> QED
    BY <2>1, <2>2
<1>13. Spells(k, V)
  BY <1>6, <1>7, <1>12 DEF Spells
<1>14. Keeps(h, W, k, V)
  BY <1>9, <1>13 DEF Keeps
<1> QED
  BY <1>14

\* k has the nodes of h but the guard G and the inner node a.
Lost(h, G, a, k) ==
  Guards(k) = Guards(h) \ {G} /\ Linked(k) = Linked(h) \ {G, a} /\ Inner(k) = Inner(h) \ {a}

\* So does the body of a rule in the place of its only use.
LEMMA SplicedKeeps ==
  ASSUME NEW h, Core(h), NEW W, Spells(h, W),
         NEW a, NEW v, NEW o, NEW left, NEW right, NEW G, NEW f, NEW l,
         Around(h, a, v, o, left, right, G, f, l),
         NEW k, Core(k), Spliced(h, a, v, left, right, f, l, G, k),
         Lost(h, G, a, k)
  PROVE  \E V : Keeps(h, W, k, V)
<1> DEFINE D == DOMAIN h.rule \ {v}
           V == [c \in Linked(k) |-> IF c \in InnerOf(h, v) THEN W[c] \o W[right] ELSE W[c]]
<1>1. /\ \A b \in DOMAIN h.sym \ {G, a} :
           /\ k.sym[b].n = IF b = left THEN f ELSE IF b = l THEN right ELSE h.sym[b].n
           /\ k.sym[b].s = h.sym[b].s
      /\ DOMAIN k.rule = D
      /\ \A r \in D : k.rule[r] = h.rule[r]
  BY DEF Spliced
<1>2. /\ v # o /\ v \in DOMAIN h.rule /\ o \in DOMAIN h.rule /\ v # Start
      /\ a \in Inner(h) /\ right \in Inner(h) /\ f \in Inner(h) /\ l \in Inner(h)
      /\ left = h.rule[o].guard /\ left \in Guards(h) /\ G = h.rule[v].guard /\ G \in Guards(h)
      /\ h.sym[a].s = v /\ h.sym[a].owner = o /\ h.sym[a].n = right
      /\ h.sym[right].owner = o
      /\ h.sym[left].n = a /\ h.sym[right].p = a
      /\ h.sym[G].n = f /\ h.sym[G].p = l /\ h.sym[f].owner = v /\ h.sym[l].owner = v
      /\ h.sym[l].n = G /\ h.sym[left].owner = o
  BY DEF Around
<1>3. /\ \A c \in Linked(h) : c \in DOMAIN h.sym /\ W[c] \in Seq(Terminal)
      /\ \A c \in Guards(h) : c \in Linked(h) /\ c \notin Inner(h)
      /\ \A c \in Inner(h) : c \in Linked(h) /\ c \notin Guards(h)
      /\ \A c \in Linked(h) : c \in Guards(h) \/ c \in Inner(h)
  BY Lists, GuardNodes DEF Spells
<1>0. /\ \A c \in Linked(k) : c \in Linked(h) /\ c # G /\ c # a
      /\ \A c \in Linked(h) : c # G /\ c # a => c \in Linked(k)
      /\ \A c \in Guards(k) : c \in Guards(h) /\ c # G
      /\ \A c \in Inner(k) : c \in Inner(h) /\ c # a
  BY DEF Lost
<1>4. \A c : c \in InnerOf(h, v) <=> c \in Inner(h) /\ h.sym[c].owner = v
  BY DEF InnerOf
<1>5. \A c \in Linked(h) : c # G /\ c # a =>
        V[c] = IF c \in InnerOf(h, v) THEN W[c] \o W[right] ELSE W[c]
  BY <1>0
<1>6. \A c \in Linked(k) : V[c] \in Seq(Terminal)
  <2> SUFFICES ASSUME NEW c \in Linked(k) PROVE V[c] \in Seq(Terminal)
    OBVIOUS
  <2>1. W[c] \in Seq(Terminal) /\ W[right] \in Seq(Terminal)
    BY <1>0, <1>2, <1>3
  <2>2. W[c] \o W[right] \in Seq(Terminal)
    BY <2>1, Assoc
  <2> QED
    BY <2>1, <2>2
<1> HIDE DEF V, D
<1>7. \A c \in Guards(k) : V[c] = <<>>
  <2> SUFFICES ASSUME NEW c \in Guards(k) PROVE V[c] = <<>>
    OBVIOUS
  <2>1. c \in Guards(h) /\ c # G /\ c # a /\ c \in Linked(h)
    BY <1>0, <1>2, <1>3
  <2>2. c \notin InnerOf(h, v)
    BY <2>1, <1>3, <1>4
  <2> QED
    BY <2>1, <2>2, <1>5 DEF Spells
\* What a rule that stays spells at its first node.
<1>8. V[f] = W[a]
  <2>1. f \in Linked(h) /\ f # G /\ f # a /\ f \in InnerOf(h, v)
    BY <1>2, <1>3, <1>4
  <2>2. V[f] = W[f] \o W[right]
    BY <2>1, <1>5
  <2>3. W[a] = Says(h, W, v) \o W[right]
    <3>1. a \in Inner(h) /\ h.sym[a].s = v /\ h.sym[a].n = right
      BY <1>2
    <3>2. W[a] = Says(h, W, h.sym[a].s) \o W[h.sym[a].n]
      BY <3>1, InnerSpells
    <3> QED
      BY <3>1, <3>2
  <2>4. Says(h, W, v) = W[f]
    BY <1>2 DEF Says, First
  <2> QED
    BY <2>2, <2>3, <2>4
<1>9. ASSUME NEW r \in D
      PROVE  V[First(k, r)] = W[First(h, r)]
  <2>1. r \in DOMAIN h.rule /\ r # v
    BY DEF D
  <2>2. CASE r = o
    <3>1. First(h, r) = a /\ First(k, r) = k.sym[left].n
      BY <2>2, <1>1, <1>2 DEF First
    <3>2. left \in DOMAIN h.sym /\ left # G /\ left # a
      <4>1. h.sym[G].owner = v
        BY <1>2, GuardNodes
      <4> QED
        BY <4>1, <1>2, <1>3
    <3>3. k.sym[left].n = f
      BY <3>2, <1>1
    <3> QED
      BY <3>1, <3>3, <1>8
  <2>3. CASE r # o
    <3>1. First(k, r) = First(h, r)
      BY <2>1, <2>3, SplicedAlike, AlikeIs
    <3>2. First(h, r) \in Linked(h) /\ h.sym[First(h, r)].owner = r
      BY <2>1, FirstLinked
    <3>3. First(h, r) # G /\ First(h, r) # a /\ First(h, r) \notin InnerOf(h, v)
      <4>1. h.sym[G].owner = v
        BY <1>2, GuardNodes
      <4> QED
        BY <4>1, <3>2, <2>1, <2>3, <1>2, <1>4
    <3> QED
      BY <3>1, <3>2, <3>3, <1>5
  <2> QED
    BY <2>2, <2>3
<1>10. \A x \in Terminal \cup D : Says(k, V, x) = Says(h, W, x)
  <2> SUFFICES ASSUME NEW x \in Terminal \cup D PROVE Says(k, V, x) = Says(h, W, x)
    OBVIOUS
  <2>1. CASE x \in D
    <3>1. x \in DOMAIN h.rule
      BY <2>1 DEF D
    <3> QED
      BY <2>1, <3>1, <1>1, <1>9 DEF Says
  <2>2. CASE x \notin D
    <3>1. x \notin DOMAIN h.rule /\ x \notin DOMAIN k.rule
      BY <2>2, <1>1, RuleValues DEF Core
    <3> QED
      BY <3>1 DEF Says
  <2> QED
    BY <2>1, <2>2
<1>11. ASSUME NEW c \in Inner(k)
       PROVE  V[c] = Says(k, V, k.sym[c].s) \o V[k.sym[c].n]
  <2> DEFINE s == Says(h, W, h.sym[c].s)
             b == h.sym[c].n
  <2>1. c \in Inner(h) /\ c # a /\ c # G /\ c \in Linked(h) /\ c \in DOMAIN h.sym /\ c # left
    BY <1>0, <1>2, <1>3
  <2>2. /\ W[c] = s \o W[b] /\ s \in Seq(Terminal) /\ W[b] \in Seq(Terminal)
        /\ b \in Linked(h) /\ W[right] \in Seq(Terminal)
    <3>1. c \in Inner(h)
      BY <2>1
    <3>2. /\ W[c] = s \o W[b] /\ s \in Seq(Terminal) /\ W[b] \in Seq(Terminal)
          /\ b \in Linked(h)
      BY <3>1, InnerSpells
    <3> QED
      BY <3>2, <1>2, <1>3
  <2>3. h.sym[b].owner = h.sym[c].owner /\ h.sym[b].p = c
    BY <2>1, Lists
  <2>4. Says(k, V, k.sym[c].s) = s
    <3>1. c \in Linked(k) /\ c \in DOMAIN k.sym
      BY InnerNode
    <3>2. k.sym[c].s \in Terminal \cup D
      BY <3>1, <1>1, Values
    <3>3. k.sym[c].s = h.sym[c].s
      BY <2>1, <1>1
    <3> QED
      BY <3>2, <3>3, <1>10
  <2>5. k.sym[c].n = IF c = l THEN right ELSE b
    BY <2>1, <1>1
  <2>6. right \notin InnerOf(h, v) /\ right # G /\ right # a /\ right \in Linked(h)
    <3>1. right # a
      BY <1>2, Neighbours
    <3> QED
      BY <3>1, <1>2, <1>3, <1>4
  <2> HIDE DEF s, b
  <2>7. CASE c = l
    <3>1. b = G
      BY <2>7, <1>2 DEF b
    <3>2. W[G] = <<>>
      BY <1>2 DEF Spells
    <3>3. W[c] = s
      BY <3>1, <3>2, <2>2, ConcatEmptySeq
    <3>4. V[c] = W[c] \o W[right] /\ V[right] = W[right]
      BY <2>1, <2>6, <2>7, <1>2, <1>4, <1>5
    <3> QED
      BY <3>3, <3>4, <2>4, <2>5, <2>7
  <2>8. CASE c # l /\ h.sym[c].owner = v
    <3>1. b # G
      BY <2>3, <2>8, <1>2
    <3>2. b # a
      BY <2>3, <2>8, <1>2
    <3>3. b \in InnerOf(h, v) /\ c \in InnerOf(h, v)
      <4>1. b \in Guards(h) => b = G
        BY <2>3, <2>8, <1>2, GuardNodes
      <4> QED
        BY <4>1, <3>1, <2>1, <2>2, <2>3, <2>8, <1>3, <1>4
    <3>4. V[c] = W[c] \o W[right] /\ V[b] = W[b] \o W[right]
      BY <3>1, <3>2, <3>3, <2>1, <2>2, <1>5
    <3>5. (s \o W[b]) \o W[right] = s \o (W[b] \o W[right])
      <4>1. s \in Seq(Terminal) /\ W[b] \in Seq(Terminal) /\ W[right] \in Seq(Terminal)
        BY <2>2
      <4> QED
        BY <4>1, Assoc
    <3> QED
      BY <3>4, <3>5, <2>2, <2>4, <2>5, <2>8
  <2>9. CASE c # l /\ h.sym[c].owner # v
    <3>1. b # G
      BY <2>3, <2>9, <1>2
    <3>2. b # a
      <4>1. h.sym[a].p = left
        BY DEF Around
      <4> QED
        BY <4>1, <2>1, <2>3
    <3>3. b \notin InnerOf(h, v) /\ c \notin InnerOf(h, v)
      BY <2>3, <2>9, <1>4
    <3>4. V[c] = W[c] /\ V[b] = W[b]
      BY <3>1, <3>2, <3>3, <2>1, <2>2, <1>5
    <3> QED
      BY <3>4, <2>2, <2>4, <2>5, <2>9
  <2> QED
    BY <2>7, <2>8, <2>9
<1>12. Spells(k, V)
  BY <1>6, <1>7, <1>11 DEF Spells
<1>13. Keeps(h, W, k, V)
  <2>1. DOMAIN h.rule \cap DOMAIN k.rule = D
    BY <1>1 DEF D
  <2> QED
    BY <2>1, <1>9, <1>12 DEF Keeps
<1> QED
  BY <1>13

-----------------------------------------------------------------------------
(* Every step keeps what the rules spell.                                   *)

\* Keeping what rules spell is transitive for heaps of the same rules.
LEMMA KeepsTrans ==
  ASSUME NEW h, NEW W, NEW k, NEW V, Keeps(h, W, k, V), NEW j, NEW U, Keeps(k, V, j, U),
         DOMAIN h.rule \cap DOMAIN j.rule \subseteq DOMAIN k.rule
  PROVE  Keeps(h, W, j, U)
  BY DEF Keeps

\* The steps that call, return or turn the predictors leave the grammar alone.
LEMMA CallsKeep ==
  ASSUME Inductive, NEW W, Spells(g, W),
         \/ UpdateChild \/ UpdateSelf \/ Learn \/ CheckNoDigram \/ CheckNewDigram
         \/ CheckOverlap \/ CheckReuseRule \/ UNCHANGED g
  PROVE  Keeps(g, W, g', W)
<1>1. Core(g)
  BY DEF Inductive, Sound
<1>2. IsHeap(g)
  BY <1>1 DEF Core
<1>3. CASE UpdateChild
  <2>1. PICK c : g' = [g EXCEPT !.sym[c].upd = FALSE]
    BY Zenon, <1>3 DEF UpdateChild
  <2>2. Same(g, g')
    BY <1>2, <2>1, FlagSame
  <2> QED
    BY <1>1, <2>2, SameKeeps DEF Same
<1>4. CASE UpdateSelf
  <2>1. g' = AdoptNext(g, Head(stack).at)
    BY <1>4 DEF UpdateSelf
  <2>2. Same(g, g')
    BY <1>2, <2>1, AdoptNextSame
  <2> QED
    BY <1>1, <2>2, SameKeeps DEF Same
<1>5. ASSUME g' = g
      PROVE  Keeps(g, W, g', W)
  BY <1>5 DEF Keeps
<1>6. CASE Learn
  <2>1. CASE g.sym[Root].pred
    BY <2>1, <1>5, <1>6 DEF Learn
  <2>2. CASE ~g.sym[Root].pred
    <3> DEFINE g1 == FindNewPredictors(g, Last(g, Start))
               g2 == Advance(g1, RawValue(g1, Head(stack).at))
    <3>1. g' = Updating(g2)
      BY <1>6, <2>2 DEF Learn
    <3>2. Same(g, g1)
      BY <1>2, FindSame
    <3> HIDE DEF g1
    <3>3. Same(g1, g2)
      BY <3>2, ComputeSame DEF Same, Advance
    <3> HIDE DEF g2
    <3>4. Same(g2, g')
      BY <3>1, <3>3, UpdatingSame DEF Same
    <3>5. Same(g, g2)
      BY <3>2, <3>3, SameTrans
    <3>6. Same(g, g')
      BY <3>4, <3>5, SameTrans
    <3> QED
      BY <1>1, <3>6, SameKeeps DEF Same
  <2> QED
    BY <2>1, <2>2
<1>7. CASE CheckNewDigram
  <2>1. g' = SetDigram(g, Head(stack).at)
    BY <1>7 DEF CheckNewDigram
  <2>2. SameLists(g, g')
    BY <1>2, <2>1, SetDigramIs
  <2> QED
    BY <1>1, <2>2, SameKeeps
<1>8. CASE CheckNoDigram \/ CheckOverlap \/ CheckReuseRule \/ UNCHANGED g
  BY Zenon, <1>5, <1>8 DEF CheckNoDigram, CheckOverlap, CheckReuseRule
<1> QED
  BY <1>3, <1>4, <1>6, <1>7, <1>8

\* Tidying a rule up splices one body at most.
LEMMA TidySpells ==
  ASSUME Inductive, NEW W, Spells(g, W), Tidy
  PROVE  \E V : Keeps(g, W, g', V)
<1> DEFINE f == Head(stack)
           r == f.by
           t == Return
           h == IF f.fresh THEN SetDigram(g, First(g, r)) ELSE g
<1>1. /\ Running("tidy") /\ g' = IF Underused(h, r) THEN Expand(h, First(h, r)) ELSE h
  BY DEF Tidy
<1>2. /\ f.op = "tidy" /\ f = stack[1] /\ Rests(g, f, t) /\ Sound(g) /\ Core(g) /\ IsHeap(g)
  BY <1>1, Top DEF Inductive, Core
<1>3. r \in DOMAIN g.rule \ {Start} /\ Pair(g, r)
  BY <1>2 DEF Rests, Tidied
<1>4. First(g, r) \in Linked(g)
  BY <1>2, <1>3, FirstLinked
<1>5. Sound(h) /\ h.sym = g.sym /\ h.rule = g.rule
  BY <1>2, <1>4, SetDigramSound
<1>6. SameLists(g, h)
  <2>1. SameLists(g, SetDigram(g, First(g, r)))
    BY <1>2, SetDigramIs
  <2>2. SameLists(g, g)
    BY DEF SameLists
  <2> QED
    BY <2>1, <2>2
<1> HIDE DEF h, f, t, r
<1>7. Keeps(g, W, h, W)
  BY <1>2, <1>6, SameKeeps
<1>8. Pair(h, r) /\ r \in DOMAIN h.rule \ {Start}
  BY Zenon, <1>3, <1>5 DEF Pair
<1>9. CASE ~Underused(h, r)
  BY <1>1, <1>7, <1>9
<1>10. CASE Underused(h, r)
  <2> DEFINE a == First(h, r)
             v == h.sym[a].s
             left == h.sym[a].p
             right == h.sym[a].n
             G == h.rule[v].guard
             c == h.sym[G].n
             l == h.sym[G].p
             k == Expand(h, a)
  <2>1. Core(h) /\ Spells(h, W)
    BY <1>5, <1>7 DEF Sound, Keeps
  <2>2. PICK rk : Ranking(h, rk)
    BY <1>5 DEF Sound
  <2>3. Expandable(h, a, v) /\ h.sym[a].owner = r
    BY <1>5, <1>8, <1>10, UnderusedIs
  <2>4. Around(h, a, v, h.sym[a].owner, left, right, G, c, l)
    BY <2>1, <2>2, <2>3, ExpandNodes
  <2>5. g' = k
    BY <1>1, <1>10
  <2> HIDE DEF a, v, left, right, G, c, l, k
  <2>6. Around(h, a, v, r, left, right, G, c, l)
    BY <2>3, <2>4
  <2>7. IsHeap(k) /\ Spliced(h, a, v, left, right, c, l, G, k) /\ Entries3(h, a, right, l, k)
    BY <2>1, <2>6, ExpandIs DEF k
  <2>8. h.rule[v].users = {a}
    BY <2>3 DEF Expandable
  <2>9. Core(k) /\ Lost(h, G, a, k)
    BY <2>1, <2>2, <2>6, <2>7, <2>8, SplicedCore DEF Lost
  <2>10. PICK V : Keeps(h, W, k, V)
    BY <2>1, <2>6, <2>7, <2>9, SplicedKeeps
  <2>11. DOMAIN g.rule \cap DOMAIN k.rule \subseteq DOMAIN h.rule
    BY <1>5
  <2>12. Keeps(g, W, k, V)
    BY <1>7, <2>10, <2>11, KeepsTrans
  <2> QED
    BY <2>5, <2>12
<1> QED
  BY <1>9, <1>10

\* No step of the cascade changes what a rule spells.
LEMMA CascadeSpells ==
  ASSUME Inductive, NEW W, Spells(g, W), Cascade
  PROVE  \E V : Keeps(g, W, g', V)
<1>1. Core(g)
  BY DEF Inductive, Sound
<1>2. CASE CheckNewRule
  <2>1. Core(g')
    BY <1>2, CheckNewRuleKeeps DEF Kept, Sound
  <2>2. PICK a : Coined(g, a, RuleAddress(g), g')
    BY <1>2, CheckNewRuleKeeps
  <2> QED
    BY <1>1, <2>1, <2>2, CoinedKeeps
<1>3. CASE Substitute
  <2>1. Core(g')
    BY <1>3, SubstituteKeeps DEF Kept, Sound
  <2>2. Swaps(g, Head(stack).at, Head(stack).by, g')
    BY <1>3, SubstituteKeeps
  <2> QED
    BY <1>1, <2>1, <2>2, SwapsKeeps
<1>4. CASE Tidy
  BY <1>4, TidySpells
<1>5. CASE \/ UpdateChild \/ UpdateSelf \/ Learn \/ CheckNoDigram \/ CheckNewDigram
           \/ CheckOverlap \/ CheckReuseRule
  <2>1. Keeps(g, W, g', W)
    BY <1>5, CallsKeep
  <2> QED
    BY <2>1
<1> QED
  BY <1>2, <1>3, <1>4, <1>5 DEF Cascade

\* An input makes the start rule spell one value more.
LEMMA InputSpells ==
  ASSUME Inductive, NEW W, Spells(g, W), NEW x \in Terminal, Input(x)
  PROVE  \E V : /\ Spells(g', V) /\ V[First(g', Start)] = W[First(g, Start)] \o <<x>>
                /\ \A r \in DOMAIN g.rule \ {Start} : V[First(g', r)] = W[First(g, r)]
<1> DEFINE a  == SymbolAddress(g)
           g1 == InsertAfter(NewSymbol(g, x, Start), Last(g, Start), a)
           g2 == Advance(g1, x)
<1>1. stack = <<>> /\ g' = Updating(g2)
  BY DEF Input
<1>2. Sound(g1) /\ Appended(g, Start, x, a, g1)
  BY <1>1, InputAppends
<1>3. Core(g) /\ Start \in DOMAIN g.rule
  BY DEF Inductive, Sound, Rooted
<1> HIDE DEF g1, a
<1>4. Core(g1) /\ DOMAIN g1.rule = DOMAIN g.rule
  BY <1>2 DEF Sound, Appended
<1>5. Same(g1, g2)
  BY <1>4, ComputeSame DEF Advance, Core
<1> HIDE DEF g2
<1>6. SameLists(g1, g')
  <2>1. Same(g2, g')
    BY <1>1, <1>5, UpdatingSame DEF Same
  <2>2. Same(g1, g')
    BY <1>5, <2>1, SameTrans
  <2> QED
    BY <2>2 DEF Same
<1>7. PICK V : /\ Spells(g1, V) /\ V[First(g1, Start)] = W[First(g, Start)] \o <<x>>
               /\ \A r \in DOMAIN g.rule \ {Start} : V[First(g1, r)] = W[First(g, r)]
  BY <1>2, <1>3, <1>4, AppendedKeeps
<1>8. Keeps(g1, V, g', V)
  BY <1>4, <1>6, <1>7, SameKeeps
<1>9. DOMAIN g'.rule = DOMAIN g1.rule
  BY <1>6 DEF SameLists
<1>10. Spells(g', V) /\ \A r \in DOMAIN g.rule : V[First(g', r)] = V[First(g1, r)]
  BY <1>4, <1>8, <1>9 DEF Keeps
<1> QED
  BY <1>3, <1>7, <1>10

\* The grammar spells what was read.
Spelled == \E W : Spells(g, W) /\ W[First(g, Start)] = hist

\* What a step adds to what was read.
Read1 == SubSeq(hist', Len(hist) + 1, Len(hist'))

\* A step either adds a value to the strings of the start rule or changes none.
StepMeans ==
  \A W : Spells(g, W) =>
     \E V : /\ Spells(g', V)
            /\ \A r \in DOMAIN g.rule \cap DOMAIN g'.rule :
                 V[First(g', r)] = W[First(g, r)] \o (IF r = Start THEN Read1 ELSE <<>>)
            /\ hist' = hist \o Read1

\* Every step keeps what the rules spell, and an input adds its value.
LEMMA StepSpells ==
  ASSUME Inductive, Bounded, [Next]_vars
  PROVE  StepMeans
<1> SUFFICES ASSUME NEW W, Spells(g, W)
             PROVE  \E V : /\ Spells(g', V)
                           /\ \A r \in DOMAIN g.rule \cap DOMAIN g'.rule :
                                V[First(g', r)] = W[First(g, r)]
                                                    \o (IF r = Start THEN Read1 ELSE <<>>)
                           /\ hist' = hist \o Read1
  BY DEF StepMeans
<1>1. /\ Core(g) /\ hist \in Seq(Terminal) /\ Len(hist) \in Nat
      /\ \A r \in DOMAIN g.rule : W[First(g, r)] \in Seq(Terminal)
  <2>1. Core(g)
    BY DEF Inductive, Sound
  <2>2. \A r \in DOMAIN g.rule : First(g, r) \in Linked(g)
    BY <2>1, FirstLinked
  <2>3. hist \in Seq(Terminal)
    BY DEF Bounded
  <2>4. Len(hist) \in Nat
    BY <2>3, LenProperties
  <2> QED
    BY <2>1, <2>2, <2>3, <2>4 DEF Spells
<1>2. ASSUME hist' = hist, \E V : Keeps(g, W, g', V)
      PROVE  \E V : /\ Spells(g', V)
                    /\ \A r \in DOMAIN g.rule \cap DOMAIN g'.rule :
                         V[First(g', r)] = W[First(g, r)]
                                             \o (IF r = Start THEN Read1 ELSE <<>>)
                    /\ hist' = hist \o Read1
  <2>1. Read1 = <<>>
    <3>1. SubSeq(hist, Len(hist) + 1, Len(hist)) = <<>>
      BY <1>1, SubSeqProperties, EmptySeq
    <3> QED
      BY <3>1, <1>2 DEF Read1
  <2>2. hist \o <<>> = hist /\ \A r \in DOMAIN g.rule : W[First(g, r)] \o <<>> = W[First(g, r)]
    BY <1>1, ConcatEmptySeq
  <2>3. PICK V : Keeps(g, W, g', V)
    BY <1>2
  <2>4. /\ Spells(g', V)
        /\ \A r \in DOMAIN g.rule \cap DOMAIN g'.rule :
             V[First(g', r)] = W[First(g, r)] \o (IF r = Start THEN Read1 ELSE <<>>)
    BY <2>1, <2>2, <2>3 DEF Keeps
  <2> QED
    BY <2>1, <2>2, <2>4, <1>2
<1>3. CASE Cascade
  <2>1. hist' = hist
    BY Zenon, <1>3 DEF Cascade, UpdateChild, UpdateSelf, CheckNoDigram, CheckNewDigram, CheckOverlap,
                CheckReuseRule, CheckNewRule, Substitute, Tidy, Learn
  <2> QED
    BY Zenon, <2>1, <1>2, <1>3, CascadeSpells
<1>4. CASE UNCHANGED vars
  <2>1. hist' = hist /\ UNCHANGED g
    BY <1>4 DEF vars
  <2>2. Keeps(g, W, g', W)
    BY <2>1, CallsKeep
  <2> QED
    BY <2>1, <2>2, <1>2
<1>5. ASSUME NEW x \in Terminal, Input(x)
      PROVE  \E V : /\ Spells(g', V)
                    /\ \A r \in DOMAIN g.rule \cap DOMAIN g'.rule :
                         V[First(g', r)] = W[First(g, r)]
                                             \o (IF r = Start THEN Read1 ELSE <<>>)
                    /\ hist' = hist \o Read1
  <2>1. hist' = Append(hist, x)
    BY <1>5 DEF Input
  <2>2. Read1 = <<x>> /\ hist' = hist \o <<x>>
    <3>1. /\ Append(hist, x) \in Seq(Terminal) /\ Len(Append(hist, x)) = Len(hist) + 1
          /\ Append(hist, x)[Len(hist) + 1] = x /\ Append(hist, x) = hist \o <<x>>
      BY <1>1, <1>5, AppendProperties
    <3>2. SubSeq(Append(hist, x), Len(hist) + 1, Len(hist) + 1) = <<x>>
      <4> DEFINE s == Append(hist, x)
                 m == Len(hist) + 1
      <4>1. s \in Seq(Terminal) /\ m \in 1 .. Len(s) + 1 /\ m \in m .. Len(s) /\ m \in Nat
            /\ s[m] = x /\ m \in 1 .. Len(s)
        BY <1>1, <3>1
      <4> HIDE DEF s, m
      <4>2. SubSeq(s, m, m) = <<s[m]>> \o SubSeq(s, m + 1, m)
        BY <4>1, SubSeqRecursiveFirst
      <4>3. SubSeq(s, m + 1, m) = <<>>
        BY <4>1, SubSeqEmpty
      <4>4. <<x>> \in Seq(Terminal)
        OBVIOUS
      <4>5. <<x>> \o <<>> = <<x>>
        BY <4>4, ConcatEmptySeq
      <4> QED
        BY <4>1, <4>2, <4>3, <4>5 DEF s, m
    <3> QED
      BY <2>1, <3>1, <3>2 DEF Read1
  <2>3. PICK V : /\ Spells(g', V) /\ V[First(g', Start)] = W[First(g, Start)] \o <<x>>
                 /\ \A r \in DOMAIN g.rule \ {Start} : V[First(g', r)] = W[First(g, r)]
    BY <1>5, InputSpells
  <2>4. \A r \in DOMAIN g.rule : W[First(g, r)] \o <<>> = W[First(g, r)]
    BY <1>1, ConcatEmptySeq
  <2> QED
    BY <2>2, <2>3, <2>4
<1> QED
  BY <1>3, <1>4, <1>5 DEF Next, Finished

\* The new oracle spells nothing.
LEMMA InitSpelled ==
  ASSUME Init
  PROVE  Spelled
<1> DEFINE W == [a \in Linked(g) |-> <<>>]
<1>1. Inductive /\ Inner(g) = {}
  BY InitInductive
<1>2. Core(g) /\ Start \in DOMAIN g.rule
  BY <1>1 DEF Inductive, Sound, Rooted
<1>3. First(g, Start) \in Linked(g) /\ \A a \in Guards(g) : a \in Linked(g)
  BY <1>2, FirstLinked, GuardNodes
<1>4. \A a \in Linked(g) : W[a] \in Seq(Terminal)
  BY EmptySeq
<1>5. Spells(g, W)
  BY <1>1, <1>3, <1>4 DEF Spells
<1>6. W[First(g, Start)] = hist
  BY <1>3 DEF Init
<1> HIDE DEF W
<1> QED
  BY <1>5, <1>6 DEF Spelled

\* A step keeps the grammar spelling what was read, and RulesKeepMeaning.
LEMMA StepReads ==
  ASSUME Inductive, Inductive', Bounded, Spelled, [Next]_vars
  PROVE  /\ Spelled'
         /\ \A r \in DOMAIN g.rule \cap DOMAIN g'.rule :
              Expansion(g')[r] = Expansion(g)[r] \o (IF r = Start THEN Read1 ELSE <<>>)
<1>1. PICK W : Spells(g, W) /\ W[First(g, Start)] = hist
  BY DEF Spelled
<1>2. StepMeans
  BY StepSpells
<1>3. PICK V : /\ Spells(g', V)
               /\ \A r \in DOMAIN g.rule \cap DOMAIN g'.rule :
                    V[First(g', r)] = W[First(g, r)] \o (IF r = Start THEN Read1 ELSE <<>>)
               /\ hist' = hist \o Read1
  BY <1>1, <1>2 DEF StepMeans
<1>4. Core(g) /\ Start \in DOMAIN g.rule
  BY DEF Inductive, Sound, Rooted
<1>5. PICK rk : Ranking(g, rk)
  BY DEF Inductive, Sound
<1>6. Core(g') /\ Start \in DOMAIN g'.rule
  BY DEF Inductive, Sound, Rooted
<1>7. PICK e : Ranking(g', e)
  BY DEF Inductive, Sound
<1>8. V[First(g', Start)] = hist'
  BY <1>1, <1>3, <1>4, <1>6
<1>9. Spelled'
  BY <1>3, <1>8 DEF Spelled
<1>10. \A r \in DOMAIN g.rule : Expansion(g)[r] = W[First(g, r)]
  BY <1>1, <1>4, <1>5, ExpansionSpells
<1>11. \A r \in DOMAIN g'.rule : Expansion(g')[r] = V[First(g', r)]
  BY <1>3, <1>6, <1>7, ExpansionSpells
<1> QED
  BY <1>3, <1>9, <1>10, <1>11

\* The grammar spells what was read in every state of every call.
LEMMA StaysSpelled == Spec => []Spelled
<1>1. Init => Spelled
  BY InitSpelled
<1>2. Inductive /\ Inductive' /\ Bounded /\ Spelled /\ [Next]_vars => Spelled'
  BY StepReads
<1> QED
  BY <1>1, <1>2, HeapInvariant, StaysBounded, PTL DEF Spec

\* RulesKeepMeaning holds for every alphabet and every number of inputs: no call
\* of check, match, substitute or expand (symbols.cpp) changes what a rule stands
\* for, and input appends its value to what the start rule stands for.
THEOREM Meaning == Spec => RulesKeepMeaning
<1>1. Inductive /\ Inductive' /\ Bounded /\ Spelled /\ [Next]_vars =>
        [\A r \in DOMAIN g.rule \cap DOMAIN g'.rule :
           Expansion(g')[r] = Expansion(g)[r] \o (IF r = Start
                                                 THEN SubSeq(hist', Len(hist) + 1, Len(hist'))
                                                 ELSE <<>>)]_vars
  BY StepReads DEF Read1
<1> QED
  BY <1>1, HeapInvariant, StaysBounded, StaysSpelled, PTL DEF Spec, RulesKeepMeaning

\* The grammar is lossless in every state of every call, for every alphabet and
\* every number of inputs: the start rule stands for exactly the values that
\* oracle::input was given, in order.
THEOREM Lossless == Spec => [](Expansion(g)[Start] = hist)
<1>1. ASSUME Inductive, Spelled
      PROVE  Expansion(g)[Start] = hist
  <2>1. PICK W : Spells(g, W) /\ W[First(g, Start)] = hist
    BY <1>1 DEF Spelled
  <2>2. Core(g) /\ Start \in DOMAIN g.rule
    BY <1>1 DEF Inductive, Sound, Rooted
  <2>3. PICK rk : Ranking(g, rk)
    BY <1>1 DEF Inductive, Sound
  <2>4. Expansion(g)[Start] = W[First(g, Start)]
    BY <2>1, <2>2, <2>3, ExpansionSpells
  <2> QED
    BY <2>1, <2>4
<1> QED
  BY <1>1, HeapInvariant, StaysSpelled, PTL

-----------------------------------------------------------------------------
(* What an iterator reads.                                                  *)

\* Induction on a measure: what holds of s if it holds of all smaller ones.
LEMMA Measured ==
  ASSUME NEW S, NEW m, \A s \in S : m[s] \in Nat,
         NEW T, \A s \in S : (\A t \in S : m[t] < m[s] => t \in T) => s \in T
  PROVE  \A s \in S : s \in T
<1> SUFFICES ASSUME \E s \in S : s \notin T PROVE FALSE
  OBVIOUS
<1> DEFINE K == {m[s] : s \in {x \in S : x \notin T}}
<1>1. K \subseteq Nat /\ K # {}
  OBVIOUS
<1>2. PICK k \in K : \A n \in K : k <= n
  <2> HIDE DEF K
  <2> QED
    BY <1>1, Least
<1>3. PICK s \in S : s \notin T /\ k = m[s]
  OBVIOUS
<1>4. ASSUME NEW t \in S, m[t] < m[s]
      PROVE  t \in T
  <2>1. m[t] \in Nat /\ m[s] \in Nat /\ ~(m[s] <= m[t])
    BY <1>4
  <2>2. m[t] \notin K
    <3> HIDE DEF K
    <3> QED
      BY <2>1, <1>2, <1>3
  <2> QED
    BY <2>2
<1>5. s \in T
  BY <1>4
<1> QED
  BY <1>3, <1>5

\* F(s) may be computed, by A, from F of one that is smaller by the measure m,
\* d(s), but on B, where it is c(s).
Recursion(S, m, B, d, X, c, A) ==
  /\ \A s \in S : m[s] \in Nat
  /\ \A s \in S \ B : d[s] \in S /\ m[d[s]] < m[s]
  /\ \A s \in S : c[s] \in X
  /\ \A s \in S : \A y \in X : A[<<s, y>>] \in X

\* Then there is such an F.
LEMMA SomeRecursion ==
  ASSUME NEW S, NEW m, NEW B, NEW d, NEW X, NEW c, NEW A, Recursion(S, m, B, d, X, c, A)
  PROVE  \E F \in [S -> X] : \A s \in S : F[s] = IF s \in B THEN c[s] ELSE A[<<s, F[d[s]]>>]
<1>0. /\ \A s \in S : m[s] \in Nat
      /\ \A s \in S \ B : d[s] \in S /\ m[d[s]] < m[s]
      /\ \A s \in S : c[s] \in X
      /\ \A s \in S : \A y \in X : A[<<s, y>>] \in X
  BY DEF Recursion
<1> USE <1>0
<1> DEFINE L(n) == {s \in S : m[s] < n}
           Solution(n, F) ==
             /\ F \in [L(n) -> X]
             /\ \A s \in L(n) : F[s] = IF s \in B THEN c[s] ELSE A[<<s, F[d[s]]>>]
           T == {n \in Nat : \E F : Solution(n, F)}
<1>1. \A n \in Nat : \A s \in L(n) \ B : d[s] \in L(n) /\ d[s] \in S
  <2> SUFFICES ASSUME NEW n \in Nat, NEW s \in L(n) \ B PROVE d[s] \in L(n) /\ d[s] \in S
    OBVIOUS
  <2>1. s \in S \ B /\ m[s] < n
    OBVIOUS
  <2>2. d[s] \in S /\ m[d[s]] < m[s]
    BY <2>1
  <2>3. m[d[s]] \in Nat /\ m[s] \in Nat
    BY <2>1, <2>2
  <2> QED
    BY <2>1, <2>2, <2>3
<1>2. 0 \in T
  <2> DEFINE F == [s \in L(0) |-> c[s]]
  <2>1. L(0) = {}
    OBVIOUS
  <2>2. Solution(0, F)
    BY <2>1
  <2> HIDE DEF F, Solution
  <2> QED
    BY <2>2
<1>3. ASSUME NEW n \in Nat, n \in T
      PROVE  n + 1 \in T
  <2>1. PICK f : Solution(n, f)
    BY <1>3
  <2>2. ASSUME NEW s \in L(n + 1) \ B
        PROVE  d[s] \in L(n) /\ d[s] \in L(n + 1) /\ s \in S
    <3>1. s \in S \ B /\ m[s] < n + 1
      OBVIOUS
    <3>2. d[s] \in S /\ m[d[s]] < m[s]
      BY <3>1
    <3>3. m[d[s]] \in Nat /\ m[s] \in Nat
      BY <3>1, <3>2
    <3> QED
      BY <3>1, <3>2, <3>3
  <2> DEFINE e == [s \in L(n + 1) |-> IF s \in B THEN c[s] ELSE A[<<s, f[d[s]]>>]]
  <2>3. e \in [L(n + 1) -> X]
    <3>1. ASSUME NEW s \in L(n + 1)
          PROVE  (IF s \in B THEN c[s] ELSE A[<<s, f[d[s]]>>]) \in X
      <4>1. CASE s \in B
        BY <4>1
      <4>2. CASE s \notin B
        <5>1. f[d[s]] \in X /\ s \in S
          BY <2>1, <2>2, <4>2
        <5> QED
          BY <4>2, <5>1
      <4> QED
        BY <4>1, <4>2
    <3> QED
      BY <3>1
  <2>4. ASSUME NEW s \in L(n)
        PROVE  s \in L(n + 1) /\ e[s] = f[s]
    <3>1. s \in S /\ m[s] \in Nat /\ m[s] < n
      OBVIOUS
    <3>2. s \in L(n + 1)
      BY <3>1
    <3>3. f[s] = IF s \in B THEN c[s] ELSE A[<<s, f[d[s]]>>]
      BY <2>1
    <3> QED
      BY <3>2, <3>3
  <2>5. \A s \in L(n + 1) : e[s] = IF s \in B THEN c[s] ELSE A[<<s, f[d[s]]>>]
    OBVIOUS
  <2> HIDE DEF e, L
  <2>6. ASSUME NEW s \in L(n + 1)
        PROVE  e[s] = IF s \in B THEN c[s] ELSE A[<<s, e[d[s]]>>]
    <3>1. CASE s \in B
      BY <3>1, <2>5
    <3>2. CASE s \notin B
      <4>1. e[d[s]] = f[d[s]]
        BY <2>2, <2>4, <3>2
      <4> QED
        BY <4>1, <2>5, <3>2
    <3> QED
      BY <3>1, <3>2
  <2>7. Solution(n + 1, e)
    BY <2>3, <2>6
  <2>8. n + 1 \in Nat
    OBVIOUS
  <2> HIDE DEF Solution
  <2> QED
    BY <2>7, <2>8
<1>4. \A n \in Nat : \E F : Solution(n, F)
  <2> HIDE DEF Solution
  <2> SUFFICES ASSUME NEW n \in Nat PROVE n \in T
    OBVIOUS
  <2>1. \A i \in 0 .. n - 1 : i \in T => i + 1 \in T
    <3> SUFFICES ASSUME NEW i \in 0 .. n - 1, i \in T PROVE i + 1 \in T
      OBVIOUS
    <3>1. i \in Nat
      OBVIOUS
    <3> HIDE DEF T
    <3> QED
      BY <3>1, <1>3
  <2> HIDE DEF T
  <2>2. \A i \in 0 .. n : i \in T
    BY <1>2, <2>1, UpTo
  <2> QED
    BY <2>2
<1> DEFINE P == [n \in Nat |-> CHOOSE F : Solution(n, F)]
<1>5. \A n \in Nat : Solution(n, P[n])
  <2> HIDE DEF Solution
  <2> QED
    BY <1>4
<1> HIDE DEF P, T
<1> DEFINE Agreed == {s \in S : \A i, j \in Nat : s \in L(i) /\ s \in L(j) => P[i][s] = P[j][s]}
<1>6. \A s \in S : s \in Agreed
  <2>1. ASSUME NEW s \in S, \A t \in S : m[t] < m[s] => t \in Agreed
        PROVE  s \in Agreed
    <3> SUFFICES ASSUME NEW i \in Nat, NEW j \in Nat, s \in L(i), s \in L(j)
                 PROVE  P[i][s] = P[j][s]
      OBVIOUS
    <3>1. /\ P[i][s] = IF s \in B THEN c[s] ELSE A[<<s, P[i][d[s]]>>]
          /\ P[j][s] = IF s \in B THEN c[s] ELSE A[<<s, P[j][d[s]]>>]
      <4> HIDE DEF L
      <4> QED
        BY <1>5
    <3>2. ASSUME s \notin B
          PROVE  P[i][d[s]] = P[j][d[s]]
      <4>1. d[s] \in L(i) /\ d[s] \in L(j) /\ d[s] \in S
        <5> HIDE DEF L
        <5> QED
          BY <1>1, <3>2
      <4>2. d[s] \in Agreed
        BY <2>1, <3>2, <4>1
      <4> QED
        BY <4>1, <4>2
    <3> QED
      BY <3>1, <3>2
  <2> HIDE DEF Agreed
  <2> QED
    BY <2>1, Measured
<1> DEFINE F == [s \in S |-> P[m[s] + 1][s]]
<1>7. \A s \in S : s \in L(m[s] + 1) /\ m[s] + 1 \in Nat
  OBVIOUS
<1>8. F \in [S -> X]
  <2>1. ASSUME NEW s \in S PROVE P[m[s] + 1][s] \in X
    <3> HIDE DEF L
    <3> QED
      BY <1>5, <1>7
  <2> QED
    BY <2>1
<1>9. ASSUME NEW s \in S
      PROVE  F[s] = IF s \in B THEN c[s] ELSE A[<<s, F[d[s]]>>]
  <2> DEFINE i == m[s] + 1
  <2>1. i \in Nat /\ s \in L(i)
    BY <1>7
  <2> HIDE DEF i, L
  <2>2. P[i][s] = IF s \in B THEN c[s] ELSE A[<<s, P[i][d[s]]>>]
    BY <1>5, <2>1
  <2>3. F[s] = P[i][s]
    BY DEF i
  <2>4. ASSUME s \notin B
        PROVE  P[i][d[s]] = F[d[s]]
    <3>1. d[s] \in L(i) /\ d[s] \in S
      BY <1>1, <2>1, <2>4
    <3>2. d[s] \in L(m[d[s]] + 1) /\ m[d[s]] + 1 \in Nat /\ d[s] \in Agreed
      BY <3>1, <1>6, <1>7
    <3>3. P[i][d[s]] = P[m[d[s]] + 1][d[s]]
      BY <3>1, <3>2, <2>1
    <3> QED
      BY <3>1, <3>3
  <2> QED
    BY <2>2, <2>3, <2>4
<1> QED
  BY <1>8, <1>9

\* No rule is empty.
Filled(h) == \A r \in DOMAIN h.rule : First(h, r) \in Inner(h)

\* The way down from a node to a terminal.
Way(h) ==
  CHOOSE Down : Down = [b \in Linked(h) |->
    IF NT(h.sym[b].s) THEN Down[First(h, h.sym[b].s)] \o <<b>> ELSE <<b>>]

\* In a grammar without empty rules and recursion every node has one.
LEMMA WayDown ==
  ASSUME NEW h, Core(h), NEW rk, Ranking(h, rk), Filled(h), NEW b \in Linked(h)
  PROVE  Way(h)[b] = IF NT(h.sym[b].s) THEN Way(h)[First(h, h.sym[b].s)] \o <<b>> ELSE <<b>>
<1> DEFINE S == Linked(h)
           m == [x \in S |-> 2 * rk[h.sym[x].owner] + (IF x \in Guards(h) THEN 1 ELSE 0)]
           B == {x \in S : ~NT(h.sym[x].s)}
           d == [x \in S |-> First(h, h.sym[x].s)]
           X == Seq(S)
           c == [x \in S |-> <<x>>]
           A == [p \in S \X X |-> p[2] \o <<p[1]>>]
<1>1. \A x \in S : x \in DOMAIN h.sym /\ h.sym[x].owner \in DOMAIN h.rule /\ rk[h.sym[x].owner] \in Nat
  BY Lists DEF Ranking
<1>2. \A x \in S : m[x] \in Nat
  BY <1>1
<1>3. ASSUME NEW x \in S \ B
      PROVE  d[x] \in S /\ m[d[x]] < m[x]
  <2> DEFINE v == h.sym[x].s
             y == First(h, v)
  <2>1. x \in S /\ x \in DOMAIN h.sym /\ NT(v)
    BY <1>1
  <2>2. v \in DOMAIN h.rule
    BY <2>1, RuleValues DEF Core, Valued
  <2>3. y \in Inner(h) /\ y \in Linked(h) /\ y \notin Guards(h) /\ h.sym[y].owner = v
    BY <2>2, FirstLinked DEF Filled, Inner
  <2>4. d[x] = y
    BY <2>1
  <2>5. m[y] = 2 * rk[v]
    BY <2>3, <1>1
  <2>6. CASE x \in Guards(h)
    <3>1. h.sym[x].owner = v
      BY <2>6, GuardNodes
    <3>2. m[x] = 2 * rk[v] + 1
      BY <3>1, <2>6, <2>1
    <3>3. rk[v] \in Nat
      BY <2>2 DEF Ranking
    <3> HIDE DEF v, y, m, d
    <3> QED
      BY <3>2, <3>3, <2>3, <2>4, <2>5
  <2>7. CASE x \notin Guards(h)
    <3>1. x \in Inner(h)
      BY <2>1, <2>7 DEF Inner
    <3>2. rk[v] < rk[h.sym[x].owner]
      BY <3>1, <2>2 DEF Ranking
    <3>3. m[x] = 2 * rk[h.sym[x].owner]
      BY <2>1, <2>7, <1>1
    <3>4. rk[v] \in Nat /\ rk[h.sym[x].owner] \in Nat
      BY <1>1, <2>1, <2>2 DEF Ranking
    <3> HIDE DEF v, y, m, d
    <3> QED
      BY <3>2, <3>3, <3>4, <2>3, <2>4, <2>5
  <2> QED
    BY <2>6, <2>7
<1>4. \A x \in S : c[x] \in X
  OBVIOUS
<1>5. \A x \in S : \A y \in X : A[<<x, y>>] \in X
  <2> SUFFICES ASSUME NEW x \in S, NEW y \in X PROVE A[<<x, y>>] \in X
    OBVIOUS
  <2>1. A[<<x, y>>] = y \o <<x>> /\ <<x>> \in Seq(S)
    OBVIOUS
  <2> QED
    BY <2>1, ConcatProperties
<1>6. PICK F \in [S -> X] : \A x \in S : F[x] = IF x \in B THEN c[x] ELSE A[<<x, F[d[x]]>>]
  <2> HIDE DEF S, m, B, d, X, c, A
  <2>1. Recursion(S, m, B, d, X, c, A)
    BY <1>2, <1>3, <1>4, <1>5 DEF Recursion
  <2> QED
    BY <2>1, SomeRecursion
<1>7. \A x \in S : F[x] = IF NT(h.sym[x].s) THEN F[First(h, h.sym[x].s)] \o <<x>> ELSE <<x>>
  <2> SUFFICES ASSUME NEW x \in S
               PROVE  F[x] = IF NT(h.sym[x].s) THEN F[First(h, h.sym[x].s)] \o <<x>> ELSE <<x>>
    OBVIOUS
  <2>1. CASE x \in B
    BY Zenon, <1>6, <2>1
  <2>2. CASE x \notin B
    <3>1. d[x] \in S /\ d[x] = First(h, h.sym[x].s) /\ NT(h.sym[x].s)
      BY <1>3, <2>2
    <3>2. F[d[x]] \in X
      BY <3>1
    <3>3. A[<<x, F[d[x]]>>] = F[d[x]] \o <<x>>
      BY <3>2
    <3>4. F[x] = A[<<x, F[d[x]]>>]
      BY <1>6, <2>2
    <3> QED
      BY Zenon, <3>1, <3>3, <3>4
  <2> QED
    BY <2>1, <2>2
<1>8. F = [x \in Linked(h) |-> IF NT(h.sym[x].s) THEN F[First(h, h.sym[x].s)] \o <<x>> ELSE <<x>>]
  BY Zenon, <1>7
<1> HIDE DEF S, m, B, d, X, c, A
<1>9. Way(h) = [x \in Linked(h) |->
                  IF NT(h.sym[x].s) THEN Way(h)[First(h, h.sym[x].s)] \o <<x>> ELSE <<x>>]
  <2> DEFINE W == CHOOSE D : D = [x \in Linked(h) |->
                    IF NT(h.sym[x].s) THEN D[First(h, h.sym[x].s)] \o <<x>> ELSE <<x>>]
  <2>1. W = [x \in Linked(h) |->
                  IF NT(h.sym[x].s) THEN W[First(h, h.sym[x].s)] \o <<x>> ELSE <<x>>]
    BY Zenon, <1>8
  <2>2. Way(h) = W
    BY DEF Way
  <2> QED
    BY Zenon, <2>1, <2>2
<1> DEFINE V == Way(h)
<1>10. V = [x \in Linked(h) |-> IF NT(h.sym[x].s) THEN V[First(h, h.sym[x].s)] \o <<x>> ELSE <<x>>]
  BY <1>9
<1> HIDE DEF V
<1>11. V[b] = IF NT(h.sym[b].s) THEN V[First(h, h.sym[b].s)] \o <<b>> ELSE <<b>>
  BY <1>10
<1> QED
  BY <1>11 DEF V

\* Descend puts the way down from a node on what is below.
LEMMA DescendIs ==
  ASSUME NEW h, NEW a, NEW below
  PROVE  Descend(h, a, below) = Way(h)[a] \o below
  BY DEF Descend, Way

\* R tells what is left to read after the node on top of a stack.
After(h, W, R) ==
  /\ R \in [Seq(Linked(h)) -> Seq(Terminal \cup DOMAIN h.rule)]
  /\ \A st \in Seq(Linked(h)) :
       R[st] = IF st = <<>> THEN <<>> ELSE W[h.sym[Head(st)].n] \o R[Tail(st)]

\* There is such an R.
LEMMA SomeAfter ==
  ASSUME NEW h, Core(h), NEW W, Spells(h, W)
  PROVE  \E R : After(h, W, R)
<1> DEFINE N == Linked(h)
           S == Seq(N)
           m == [st \in S |-> Len(st)]
           d == [st \in S |-> Tail(st)]
           X == Seq(Terminal \cup DOMAIN h.rule)
           c == [st \in S |-> <<>>]
<1>1. \A st \in S : m[st] \in Nat
  BY LenProperties
<1>2. ASSUME NEW st \in S \ {<<>>}
      PROVE  d[st] \in S /\ m[d[st]] < m[st]
  <2>1. Tail(st) \in S /\ Len(Tail(st)) = Len(st) - 1 /\ Len(st) \in Nat
    BY HeadTailProperties, LenProperties
  <2> QED
    BY <2>1
<1>3. \A st \in S : c[st] \in X
  BY EmptySeq
<1> DEFINE C == [p \in S \X X |-> IF p[1] = <<>> THEN <<>> ELSE W[h.sym[Head(p[1])].n] \o p[2]]
<1>4. \A st \in S : \A y \in X : C[<<st, y>>] \in X
  <2> SUFFICES ASSUME NEW st \in S, NEW y \in X PROVE C[<<st, y>>] \in X
    BY Zenon
  <2>1. CASE st = <<>>
    <3>1. <<>> \in X
      BY EmptySeq
    <3> QED
      BY Zenon, <3>1, <2>1
  <2>2. CASE st # <<>>
    <3>1. Head(st) \in N
      BY <2>2, HeadTailProperties
    <3>2. h.sym[Head(st)].n \in Linked(h)
      BY <3>1, Lists
    <3>3. W[h.sym[Head(st)].n] \in Seq(Terminal)
      BY <3>2 DEF Spells
    <3>4. W[h.sym[Head(st)].n] \in X
      BY <3>3, SeqMonotonic
    <3>5. C[<<st, y>>] = W[h.sym[Head(st)].n] \o y
      BY Zenon, <2>2
    <3> HIDE DEF C, N
    <3> QED
      BY Zenon, <3>4, <3>5, ConcatProperties
  <2> QED
    BY Zenon, <2>1, <2>2
<1>5. PICK F \in [S -> X] : \A st \in S : F[st] = IF st \in {<<>>} THEN c[st] ELSE C[<<st, F[d[st]]>>]
  <2> HIDE DEF S, m, d, X, c, C
  <2>1. Recursion(S, m, {<<>>}, d, X, c, C)
    BY <1>1, <1>2, <1>3, <1>4 DEF Recursion
  <2> QED
    BY <2>1, SomeRecursion
<1>6. ASSUME NEW st \in S
      PROVE  F[st] = IF st = <<>> THEN <<>> ELSE W[h.sym[Head(st)].n] \o F[Tail(st)]
  <2>1. CASE st = <<>>
    BY Zenon, <1>5, <2>1
  <2>2. CASE st # <<>>
    <3>1. Tail(st) \in S /\ d[st] = Tail(st)
      BY <2>2, HeadTailProperties
    <3>2. F[Tail(st)] \in X
      BY Zenon, <3>1
    <3>3. C[<<st, F[Tail(st)]>>] = W[h.sym[Head(st)].n] \o F[Tail(st)]
      BY Zenon, <3>2, <2>2
    <3>4. F[st] = C[<<st, F[d[st]]>>]
      BY Zenon, <1>5, <2>2
    <3> QED
      BY Zenon, <3>1, <3>3, <3>4, <2>2
  <2> QED
    BY <2>1, <2>2
<1> HIDE DEF m, d, c, C
<1>7. After(h, W, F)
  BY <1>5, <1>6 DEF After
<1> QED
  BY <1>7

\* What is read from a stack on: the value on top, and what comes after it.
Reading(h, R, st) == IF st = <<>> THEN <<>> ELSE <<h.sym[Head(st)].s>> \o R[st]

\* Concatenation is associative.
LEMMA Regroup ==
  ASSUME NEW X
  PROVE  \A a, b, c \in Seq(X) : (a \o b) \o c = a \o (b \o c)
<1> SUFFICES ASSUME NEW a \in Seq(X), NEW b \in Seq(X), NEW c \in Seq(X)
             PROVE  (a \o b) \o c = a \o (b \o c)
  OBVIOUS
<1> QED
  BY ConcatAssociative

\* A node put on a stack.
LEMMA Pushed ==
  ASSUME NEW N, NEW b \in N, NEW t \in Seq(N)
  PROVE  /\ <<b>> \o t \in Seq(N) /\ <<b>> \o t # <<>>
         /\ Head(<<b>> \o t) = b /\ Tail(<<b>> \o t) = t
<1>1. <<b>> \in Seq(N) /\ Len(<<b>>) = 1
  OBVIOUS
<1>2. <<b>> \o t \in Seq(N)
  BY <1>1, ConcatProperties
<1>3. Len(<<b>> \o t) = Len(t) + 1 /\ (<<b>> \o t)[1] = b
  BY Cons
<1>4. Len(t) \in Nat
  BY LenProperties
<1>5. <<b>> \o t # <<>>
  BY <1>3, <1>4, EmptySeq
<1>6. Head(<<b>> \o t) = b
  BY <1>2, <1>3, <1>5
<1>7. Tail(<<b>> \o t) = t
  <2> DEFINE u == <<b>> \o t
  <2>1. Tail(u) \in Seq(N) /\ Len(Tail(u)) = Len(u) - 1 /\ \A i \in 1 .. Len(Tail(u)) : Tail(u)[i] = u[i + 1]
    BY <1>2, <1>5, HeadTailProperties
  <2>2. \A i \in 1 .. Len(t) : u[i + 1] = t[i]
    BY Cons
  <2>3. Len(Tail(u)) = Len(t)
    BY <2>1, <1>3, <1>4
  <2> HIDE DEF u
  <2>4. \A i \in 1 .. Len(t) : Tail(u)[i] = t[i]
    BY <2>1, <2>2, <2>3
  <2>5. Tail(u) = t
    BY <2>1, <2>3, <2>4, SeqEqual
  <2> QED
    BY <2>5 DEF u
<1> QED
  BY <1>2, <1>5, <1>6, <1>7

\* A grammar that can be read: W tells what its nodes spell, R what comes after.
Readable(h, W, R) ==
  /\ Core(h) /\ (\E rk : Ranking(h, rk)) /\ Filled(h)
  /\ Spells(h, W) /\ After(h, W, R)

\* What is read after going down from b, with t below: what b and its successors
\* spell, and then what comes after t.
Continues(h, W, R, b, t) ==
  /\ Descend(h, b, t) \in Seq(Linked(h))
  /\ Reading(h, R, Descend(h, b, t)) = W[b] \o R[t]

\* This holds for all nodes b and stacks t.
LEMMA DescendReads ==
  ASSUME NEW h, NEW W, NEW R, Readable(h, W, R)
  PROVE  \A b \in Inner(h) : \A t \in Seq(Linked(h)) : Continues(h, W, R, b, t)
<1>a. Core(h) /\ Filled(h) /\ Spells(h, W) /\ After(h, W, R)
  BY DEF Readable
<1>b. PICK rk : Ranking(h, rk)
  BY DEF Readable
<1> USE <1>a, <1>b
<1> DEFINE N == Linked(h)
           X == Terminal \cup DOMAIN h.rule
           D == Way(h)
           S == Inner(h)
           m == [x \in S |-> rk[h.sym[x].owner]]
           T == {x \in S : /\ D[x] \in Seq(N)
                           /\ \A u \in Seq(N) : /\ D[x] \o u \in Seq(N)
                                                /\ Reading(h, R, D[x] \o u) = W[x] \o R[u]}
<1> DEFINE Grouped(Y) == \A p, q, r \in Seq(Y) : (p \o q) \o r = p \o (q \o r)
<1>0. Grouped(N) /\ Grouped(X)
  BY Regroup
<1> HIDE DEF X
<1>1. \A x \in S : x \in N /\ x \in DOMAIN h.sym /\ h.sym[x].owner \in DOMAIN h.rule
  BY InnerNode, Lists
<1>2. \A x \in S : m[x] \in Nat
  BY <1>1 DEF Ranking
<1>3. ASSUME NEW x \in S, \A y \in S : m[y] < m[x] => y \in T
      PROVE  x \in T
  <2> DEFINE v == h.sym[x].s
             n == h.sym[x].n
  <2>1. x \in N /\ n \in N /\ v \in Terminal \cup DOMAIN h.rule
    BY <1>1, Lists DEF Core, Valued, X
  <2>2. W[n] \in Seq(X) /\ W[x] = Says(h, W, v) \o W[n]
    <3>1. W[n] \in Seq(Terminal)
      BY <2>1 DEF Spells
    <3>2. W[n] \in Seq(X)
      BY <3>1, SeqMonotonic DEF X
    <3> QED
      BY <3>2 DEF Spells
  <2>3. ASSUME NEW u \in Seq(N)
        PROVE  /\ <<x>> \o u \in Seq(N) /\ R[u] \in Seq(X)
               /\ R[<<x>> \o u] = W[n] \o R[u]
               /\ Reading(h, R, <<x>> \o u) = <<v>> \o (W[n] \o R[u])
    <3>1. /\ <<x>> \o u \in Seq(N) /\ <<x>> \o u # <<>>
          /\ Head(<<x>> \o u) = x /\ Tail(<<x>> \o u) = u
      BY <2>1, Pushed
    <3>2. R[u] \in Seq(X)
      BY DEF After, X
    <3> DEFINE st == <<x>> \o u
    <3> HIDE DEF st
    <3>3. R[st] = W[n] \o R[u]
      <4>1. st \in Seq(Linked(h)) /\ st # <<>> /\ Head(st) = x /\ Tail(st) = u
        BY <3>1 DEF st
      <4>2. R[st] = IF st = <<>> THEN <<>> ELSE W[h.sym[Head(st)].n] \o R[Tail(st)]
        BY <4>1 DEF After
      <4> QED
        BY Zenon, <4>1, <4>2
    <3>4. Reading(h, R, st) = <<v>> \o (W[n] \o R[u])
      BY Zenon, <3>1, <3>3 DEF Reading, st
    <3> QED
      BY Zenon, <3>1, <3>2, <3>3, <3>4 DEF st
  <2>4. D[x] = IF NT(v) THEN D[First(h, v)] \o <<x>> ELSE <<x>>
    BY <2>1, WayDown
  <2> HIDE DEF D, N, n, v, m
  <2>5. CASE v \in Terminal
    <3>1. ~NT(v) /\ v \notin DOMAIN h.rule
      BY <2>5, RuleValues DEF Core
    <3>2. D[x] = <<x>> /\ Says(h, W, v) = <<v>>
      BY <2>4, <3>1 DEF Says
    <3>3. <<v>> \in Seq(X) /\ <<x>> \in Seq(N)
      BY <2>5, <2>1 DEF X
    <3>4. ASSUME NEW u \in Seq(N)
          PROVE  D[x] \o u \in Seq(N) /\ Reading(h, R, D[x] \o u) = W[x] \o R[u]
      <4>1. R[u] \in Seq(X)
        BY <2>3
      <4>2. (<<v>> \o W[n]) \o R[u] = <<v>> \o (W[n] \o R[u])
        <5>1. <<v>> \in Seq(X) /\ W[n] \in Seq(X) /\ R[u] \in Seq(X)
          BY <3>3, <4>1, <2>2
        <5> HIDE DEF T, S
        <5> QED
          BY <5>1, <1>0
      <4>3. <<x>> \o u \in Seq(N) /\ Reading(h, R, <<x>> \o u) = <<v>> \o (W[n] \o R[u])
        BY <2>3
      <4>4. W[x] = <<v>> \o W[n]
        BY <2>2, <3>2
      <4> QED
        BY <4>2, <4>3, <4>4, <3>2
    <3> QED
      BY <3>2, <3>3, <3>4
  <2>6. CASE v \in DOMAIN h.rule
    <3> DEFINE f == First(h, v)
    <3>1. NT(v)
      BY <2>6, RuleValues DEF Core
    <3>2. f \in S /\ h.sym[f].owner = v
      BY <2>6, FirstLinked DEF Filled
    <3>3. m[f] < m[x]
      <4>1. rk[v] < rk[h.sym[x].owner]
        BY <2>6 DEF Ranking, v
      <4> QED
        BY <4>1, <3>2 DEF m
    <3> HIDE DEF f
    <3>4. f \in T
      BY <1>3, <3>2, <3>3
    <3>5. D[x] = D[f] \o <<x>> /\ Says(h, W, v) = W[f]
      BY <2>4, <2>6, <3>1 DEF Says, f
    <3>6. D[f] \in Seq(N) /\ <<x>> \in Seq(N)
      BY <3>4, <2>1
    <3>7. D[x] \in Seq(N)
      BY <3>5, <3>6, ConcatProperties
    <3>8. W[f] \in Seq(X)
      <4>1. W[f] \in Seq(Terminal)
        BY <3>2, <1>1 DEF Spells, N
      <4> QED
        BY <4>1, SeqMonotonic DEF X
    <3>9. ASSUME NEW u \in Seq(N)
          PROVE  D[x] \o u \in Seq(N) /\ Reading(h, R, D[x] \o u) = W[x] \o R[u]
      <4> DEFINE w == <<x>> \o u
      <4>1. w \in Seq(N) /\ R[w] = W[n] \o R[u] /\ R[u] \in Seq(X)
        BY <2>3
      <4>2. D[x] \o u = D[f] \o w
        <5>1. (D[f] \o <<x>>) \o u = D[f] \o (<<x>> \o u)
          <6>1. D[f] \in Seq(N) /\ <<x>> \in Seq(N) /\ u \in Seq(N)
            BY <3>6
          <6> HIDE DEF T, S
          <6> QED
            BY <6>1, <1>0
        <5> QED
          BY <5>1, <3>5
      <4> HIDE DEF w
      <4>3. D[f] \o w \in Seq(N) /\ Reading(h, R, D[f] \o w) = W[f] \o R[w]
        BY <3>4, <4>1
      <4>4. (W[f] \o W[n]) \o R[u] = W[f] \o (W[n] \o R[u])
        <5>1. W[f] \in Seq(X) /\ W[n] \in Seq(X) /\ R[u] \in Seq(X)
          BY <3>8, <2>2, <4>1
        <5> HIDE DEF T, S
        <5> QED
          BY <5>1, <1>0
      <4>5. W[x] = W[f] \o W[n]
        BY <2>2, <3>5
      <4> QED
        BY <4>1, <4>2, <4>3, <4>4, <4>5
    <3> QED
      BY <3>7, <3>9
  <2> QED
    BY <2>1, <2>5, <2>6
<1>4. \A x \in S : x \in T
  <2> HIDE DEF S, m, T
  <2> QED
    BY <1>2, <1>3, Measured
<1> SUFFICES ASSUME NEW b \in Inner(h), NEW t \in Seq(Linked(h))
             PROVE  /\ Descend(h, b, t) \in Seq(Linked(h))
                    /\ Reading(h, R, Descend(h, b, t)) = W[b] \o R[t]
  BY DEF Continues
<1>5. b \in T
  BY <1>4
<1>6. Descend(h, b, t) = D[b] \o t
  BY DescendIs
<1> HIDE DEF D
<1> QED
  BY <1>5, <1>6

\* The search of operator++ for a node that has a next one.
Move(h) ==
  CHOOSE Step : Step = [st \in Seq(Linked(h)) |->
    IF st = <<>> THEN <<>>
    ELSE LET nxt == h.sym[Head(st)].n
         IN  IF IsGuard(h, nxt) THEN Step[Tail(st)] ELSE Descend(h, nxt, Tail(st))]

\* It ends, since it makes the stack shorter.
LEMMA Moves ==
  ASSUME NEW h, NEW W, NEW R, Readable(h, W, R), NEW st \in Seq(Linked(h))
  PROVE  Increment(h, st) =
           IF st = <<>> THEN <<>>
           ELSE LET nxt == h.sym[Head(st)].n
                IN  IF IsGuard(h, nxt) THEN Increment(h, Tail(st))
                                       ELSE Descend(h, nxt, Tail(st))
<1>a. Core(h)
  BY DEF Readable
<1> USE <1>a
<1> DEFINE N == Linked(h)
           S == Seq(N)
           m == [s \in S |-> Len(s)]
           d == [s \in S |-> Tail(s)]
           c == [s \in S |-> <<>>]
           C == [p \in S \X S |->
                   IF p[1] = <<>> THEN <<>>
                   ELSE IF IsGuard(h, h.sym[Head(p[1])].n) THEN p[2]
                   ELSE Descend(h, h.sym[Head(p[1])].n, Tail(p[1]))]
<1>1. \A s \in S : m[s] \in Nat
  BY LenProperties
<1>2. ASSUME NEW s \in S \ {<<>>}
      PROVE  d[s] \in S /\ m[d[s]] < m[s]
  <2>1. Tail(s) \in S /\ Len(Tail(s)) = Len(s) - 1 /\ Len(s) \in Nat
    BY HeadTailProperties, LenProperties
  <2> QED
    BY <2>1
<1>3. <<>> \in S
  BY EmptySeq
<1>4. ASSUME NEW s \in S, s # <<>>, ~IsGuard(h, h.sym[Head(s)].n)
      PROVE  Descend(h, h.sym[Head(s)].n, Tail(s)) \in S
  <2>1. Head(s) \in N /\ Tail(s) \in S
    BY <1>4, HeadTailProperties
  <2>2. h.sym[Head(s)].n \in Inner(h)
    BY <2>1, <1>4, Lists, GuardNodes DEF Inner
  <2> QED
    BY <2>1, <2>2, DescendReads DEF Continues
<1>5. \A s \in S : \A y \in S : C[<<s, y>>] \in S
  <2> SUFFICES ASSUME NEW s \in S, NEW y \in S PROVE C[<<s, y>>] \in S
    OBVIOUS
  <2>1. C[<<s, y>>] = IF s = <<>> THEN <<>>
                      ELSE IF IsGuard(h, h.sym[Head(s)].n) THEN y
                      ELSE Descend(h, h.sym[Head(s)].n, Tail(s))
    OBVIOUS
  <2> HIDE DEF C, S
  <2> QED
    BY <2>1, <1>3, <1>4
<1>6. PICK F \in [S -> S] : \A s \in S : F[s] = IF s \in {<<>>} THEN c[s] ELSE C[<<s, F[d[s]]>>]
  <2>1. \A s \in S : c[s] \in S
    BY <1>3
  <2> HIDE DEF S, m, d, c, C
  <2>2. Recursion(S, m, {<<>>}, d, S, c, C)
    BY <1>1, <1>2, <1>5, <2>1 DEF Recursion
  <2> QED
    BY <2>2, SomeRecursion
<1>7. ASSUME NEW s \in S
      PROVE  F[s] = IF s = <<>> THEN <<>>
                    ELSE LET nxt == h.sym[Head(s)].n
                         IN  IF IsGuard(h, nxt) THEN F[Tail(s)] ELSE Descend(h, nxt, Tail(s))
  <2>1. CASE s = <<>>
    BY <1>6, <2>1
  <2>2. CASE s # <<>>
    <3>1. Tail(s) \in S /\ d[s] = Tail(s)
      BY <2>2, HeadTailProperties
    <3>2. F[Tail(s)] \in S
      BY <3>1
    <3>3. C[<<s, F[Tail(s)]>>] = IF IsGuard(h, h.sym[Head(s)].n) THEN F[Tail(s)]
                                 ELSE Descend(h, h.sym[Head(s)].n, Tail(s))
      BY <3>2, <2>2
    <3>4. F[s] = C[<<s, F[d[s]]>>]
      BY <1>6, <2>2
    <3> HIDE DEF C, d
    <3> QED
      BY <3>1, <3>3, <3>4, <2>2
  <2> QED
    BY <2>1, <2>2
<1> HIDE DEF m, d, c, C
<1>8. F = [s \in Seq(Linked(h)) |->
             IF s = <<>> THEN <<>>
             ELSE LET nxt == h.sym[Head(s)].n
                  IN  IF IsGuard(h, nxt) THEN F[Tail(s)] ELSE Descend(h, nxt, Tail(s))]
  BY <1>7
<1> DEFINE V == CHOOSE Step : Step = [s \in Seq(Linked(h)) |->
             IF s = <<>> THEN <<>>
             ELSE LET nxt == h.sym[Head(s)].n
                  IN  IF IsGuard(h, nxt) THEN Step[Tail(s)] ELSE Descend(h, nxt, Tail(s))]
<1>9. V = [s \in Seq(Linked(h)) |->
             IF s = <<>> THEN <<>>
             ELSE LET nxt == h.sym[Head(s)].n
                  IN  IF IsGuard(h, nxt) THEN V[Tail(s)] ELSE Descend(h, nxt, Tail(s))]
  BY <1>8
<1>10. \A s : Increment(h, s) = V[s]
  BY DEF Increment
<1> HIDE DEF V
<1>11. V[st] = IF st = <<>> THEN <<>>
               ELSE LET nxt == h.sym[Head(st)].n
                    IN  IF IsGuard(h, nxt) THEN V[Tail(st)] ELSE Descend(h, nxt, Tail(st))
  BY <1>9
<1> QED
  BY <1>10, <1>11

\* After operator++, what is read is what came after the node on top.
LEMMA IncrementReads ==
  ASSUME NEW h, NEW W, NEW R, Readable(h, W, R)
  PROVE  \A st \in Seq(Linked(h)) :
           /\ Increment(h, st) \in Seq(Linked(h))
           /\ Reading(h, R, Increment(h, st)) = R[st]
<1>a. Core(h) /\ Spells(h, W) /\ After(h, W, R)
  BY DEF Readable
<1> USE <1>a
<1> DEFINE N == Linked(h)
           S == Seq(N)
           m == [st \in S |-> Len(st)]
           T == {st \in S : /\ Increment(h, st) \in S
                            /\ Reading(h, R, Increment(h, st)) = R[st]}
<1>1. \A st \in S : m[st] \in Nat
  BY LenProperties
<1>2. ASSUME NEW st \in S, \A u \in S : m[u] < m[st] => u \in T
      PROVE  st \in T
  <2> DEFINE z == Head(st)
             t == Tail(st)
             nxt == h.sym[z].n
  <2>1. Increment(h, st) = IF st = <<>> THEN <<>>
                           ELSE IF IsGuard(h, nxt) THEN Increment(h, t) ELSE Descend(h, nxt, t)
    BY Moves
  <2>2. R[st] = IF st = <<>> THEN <<>> ELSE W[nxt] \o R[t]
    BY DEF After
  <2>3. CASE st = <<>>
    <3>1. Reading(h, R, <<>>) = <<>>
      BY DEF Reading
    <3> QED
      BY <2>1, <2>2, <2>3, <3>1
  <2>4. CASE st # <<>>
    <3>1. z \in N /\ t \in S /\ Len(t) = Len(st) - 1 /\ Len(st) \in Nat
      BY <2>4, HeadTailProperties, LenProperties
    <3>2. nxt \in N /\ nxt \in DOMAIN h.sym
      BY <3>1, Lists
    <3>3. CASE nxt \in Guards(h)
      <4>1. IsGuard(h, nxt)
        BY <3>2, <3>3, GuardNodes
      <4>2. m[t] < m[st]
        BY <3>1
      <4>3. t \in T
        <5> HIDE DEF T, m, t
        <5> QED
          BY <1>2, <3>1, <4>2
      <4>4. W[nxt] = <<>>
        BY <3>3 DEF Spells
      <4>5. R[t] \in Seq(Terminal \cup DOMAIN h.rule)
        BY Zenon, <3>1 DEF After
      <4>6. W[nxt] \o R[t] = R[t]
        BY <4>4, <4>5, ConcatEmptySeq
      <4>7. Increment(h, st) = Increment(h, t) /\ R[st] = R[t]
        BY Zenon, <2>1, <2>2, <2>4, <4>1, <4>6
      <4> QED
        BY <4>3, <4>7
    <3>4. CASE nxt \notin Guards(h)
      <4>1. ~IsGuard(h, nxt)
        BY <3>2, <3>4, GuardNodes
      <4>2. nxt \in Inner(h)
        BY <3>2, <3>4 DEF Inner
      <4>3. /\ Descend(h, nxt, t) \in S
            /\ Reading(h, R, Descend(h, nxt, t)) = W[nxt] \o R[t]
        <5>1. Continues(h, W, R, nxt, t)
          BY <3>1, <4>2, DescendReads
        <5> QED
          BY Zenon, <5>1 DEF Continues
      <4> QED
        BY Zenon, <2>1, <2>2, <2>4, <4>1, <4>3
    <3> QED
      BY <3>3, <3>4
  <2> QED
    BY <2>3, <2>4
<1>3. \A st \in S : st \in T
  <2> HIDE DEF S, m, T
  <2> QED
    BY <1>1, <1>2, Measured
<1> QED
  BY <1>3

\* Hence reading from a stack to the end gives what is left.
LEMMA ReadsAll ==
  ASSUME NEW h, NEW W, NEW R, Readable(h, W, R), NEW it \in Seq(Linked(h))
  PROVE  ReadFrom(h, it) = Reading(h, R, it)
<1>a. Core(h) /\ After(h, W, R)
  BY DEF Readable
<1> USE <1>a
<1> DEFINE N == Linked(h)
           S == Seq(N)
           X == Terminal \cup DOMAIN h.rule
           F == [st \in S |-> Reading(h, R, st)]
           V == CHOOSE Read : Read = [st \in Seq(Linked(h)) |->
                  IF st = <<>> THEN <<>> ELSE <<h.sym[Head(st)].s>> \o Read[Increment(h, st)]]
           m == [st \in S |-> Len(Reading(h, R, st))]
           T == {st \in S : V[st] = Reading(h, R, st)}
<1>1. \A st \in S : /\ Increment(h, st) \in S
                    /\ Reading(h, R, Increment(h, st)) = R[st]
  BY IncrementReads
<1>2. F = [st \in Seq(Linked(h)) |->
             IF st = <<>> THEN <<>> ELSE <<h.sym[Head(st)].s>> \o F[Increment(h, st)]]
  BY <1>1 DEF Reading
<1>3. V = [st \in Seq(Linked(h)) |->
             IF st = <<>> THEN <<>> ELSE <<h.sym[Head(st)].s>> \o V[Increment(h, st)]]
  <2> HIDE DEF F
  <2> QED
    BY Zenon, <1>2
<1>4. ReadFrom(h, it) = V[it]
  BY DEF ReadFrom
<1> HIDE DEF V
<1>5. ASSUME NEW st \in S, st # <<>>
      PROVE  /\ m[st] \in Nat /\ m[Increment(h, st)] \in Nat
             /\ m[Increment(h, st)] < m[st]
  <2>1. Head(st) \in DOMAIN h.sym /\ h.sym[Head(st)].s \in X
    <3>1. Head(st) \in N
      BY <1>5, HeadTailProperties
    <3> QED
      BY <3>1, Lists DEF Core, Valued
  <2>2. R[st] \in Seq(X)
    BY DEF After
  <2>3. Len(<<h.sym[Head(st)].s>> \o R[st]) = Len(R[st]) + 1 /\ Len(R[st]) \in Nat
    BY <2>1, <2>2, Cons, LenProperties
  <2>4. Reading(h, R, st) = <<h.sym[Head(st)].s>> \o R[st]
    BY <1>5 DEF Reading
  <2>5. m[Increment(h, st)] = Len(R[st])
    BY <1>1
  <2> QED
    BY <2>3, <2>4, <2>5
<1>6. \A st \in S : m[st] \in Nat
  <2> SUFFICES ASSUME NEW st \in S PROVE m[st] \in Nat
    OBVIOUS
  <2>1. CASE st = <<>>
    <3>1. Reading(h, R, st) = <<>>
      BY <2>1 DEF Reading
    <3> QED
      BY <3>1, EmptySeq
  <2> QED
    BY <2>1, <1>5
<1>7. ASSUME NEW st \in S, \A u \in S : m[u] < m[st] => u \in T
      PROVE  st \in T
  <2>1. V[st] = IF st = <<>> THEN <<>> ELSE <<h.sym[Head(st)].s>> \o V[Increment(h, st)]
    BY <1>3
  <2>2. CASE st = <<>>
    BY <2>1, <2>2 DEF Reading
  <2>3. CASE st # <<>>
    <3>1. Increment(h, st) \in T
      <4> HIDE DEF T, m, S
      <4> QED
        BY <1>1, <1>5, <1>7, <2>3
    <3>2. V[Increment(h, st)] = R[st]
      BY <1>1, <3>1
    <3> QED
      BY <2>1, <2>3, <3>2 DEF Reading
  <2> QED
    BY <2>2, <2>3
<1>8. \A st \in S : st \in T
  <2> HIDE DEF S, m, T
  <2> QED
    BY <1>6, <1>7, Measured
<1> QED
  BY <1>4, <1>8

\* Once something was read no rule is empty.
LEMMA NoneEmpty ==
  ASSUME Inductive, NEW W, Spells(g, W), W[First(g, Start)] # <<>>
  PROVE  Filled(g)
<1>1. Core(g) /\ Long(g)
  BY DEF Inductive, Sound
<1> SUFFICES ASSUME NEW r \in DOMAIN g.rule PROVE First(g, r) \in Inner(g)
  BY DEF Filled
<1> DEFINE q == g.rule[r].guard
           f == First(g, r)
<1>2. f \in Linked(g) /\ g.sym[f].owner = r
  BY <1>1, FirstLinked
<1>3. q \in Guards(g)
  BY <1>1, GuardNodes
<1>4. f # q
  <2>1. CASE r = Start
    <3>1. W[q] = <<>>
      BY <1>3 DEF Spells
    <3> QED
      BY <2>1, <3>1
  <2>2. CASE r # Start
    BY <1>1, <2>2 DEF Long, First
  <2> QED
    BY <2>1, <2>2
<1>5. f \notin Guards(g)
  <2> SUFFICES ASSUME f \in Guards(g) PROVE FALSE
    OBVIOUS
  <2>1. f = g.rule[g.sym[f].s].guard /\ g.sym[f].owner = g.sym[f].s
    BY <1>1, GuardNodes
  <2> QED
    BY <2>1, <1>2, <1>4
<1> QED
  BY <1>2, <1>5 DEF Inner

\* IteratorReplays holds for every alphabet and every number of inputs, and during
\* the calls of input too: oracle::begin, operator* and operator++ (oracle.cpp)
\* give what was read, in order, and then end.
THEOREM Replaying == Spec => []IteratorReplays
<1>1. ASSUME Inductive, Spelled, hist # <<>>
      PROVE  ReadFrom(g, Begin(g, Start)) = hist
  <2>1. PICK W : Spells(g, W) /\ W[First(g, Start)] = hist
    BY <1>1 DEF Spelled
  <2>2. Core(g) /\ Start \in DOMAIN g.rule
    BY <1>1 DEF Inductive, Sound, Rooted
  <2>3. PICK rk : Ranking(g, rk)
    BY <1>1 DEF Inductive, Sound
  <2>4. Filled(g)
    BY <1>1, <2>1, NoneEmpty
  <2>5. PICK R : After(g, W, R)
    BY <2>1, <2>2, SomeAfter
  <2>a. Readable(g, W, R)
    BY <2>1, <2>2, <2>3, <2>4, <2>5 DEF Readable
  <2> DEFINE f == First(g, Start)
             b == Descend(g, f, <<>>)
  <2>6. f \in Inner(g) /\ <<>> \in Seq(Linked(g))
    BY <2>2, <2>4, EmptySeq DEF Filled
  <2> HIDE DEF f
  <2>7. b \in Seq(Linked(g)) /\ Reading(g, R, b) = W[f] \o R[<<>>]
    <3>1. Continues(g, W, R, f, <<>>)
      BY <2>a, <2>6, DescendReads
    <3> QED
      BY <3>1 DEF Continues
  <2>8. ReadFrom(g, b) = Reading(g, R, b)
    BY <2>a, <2>7, ReadsAll
  <2>9. R[<<>>] = <<>>
    BY <2>5, <2>6 DEF After
  <2>10. W[f] \in Seq(Terminal)
    BY <2>1, <2>2, FirstLinked DEF Spells, f
  <2>11. W[f] \o <<>> = W[f]
    BY <2>10, ConcatEmptySeq
  <2>12. Begin(g, Start) = b
    BY DEF Begin, f
  <2> HIDE DEF b
  <2> QED
    BY <2>1, <2>7, <2>8, <2>9, <2>11, <2>12 DEF f
<1>2. Inductive /\ Spelled => IteratorReplays
  BY <1>1 DEF IteratorReplays
<1> QED
  BY <1>2, HeapInvariant, StaysSpelled, PTL
-----------------------------------------------------------------------------
(* Every step of the cascade lowers Rank.  First the calls on a stack are   *)
(* counted, then what each step does to the counts.                         *)

\* The frames of a stack that are calls of op; those that check the next digram
\* too; and those that a tidying up waits for.
CallsOf(s, op) == {i \in DOMAIN s : s[i].op = op}
Nexts(s) == {i \in CallsOf(s, "check") : s[i].orNext}
Lasts(s) == {i \in CallsOf(s, "substitute") : s[i + 1].op = "tidy"}

\* Y are the places X of a stack of n frames after one more, and perhaps that one.
Shift(n, X, Y) ==
  /\ X \subseteq 1 .. n /\ Y \subseteq 1 .. n + 1
  /\ \A i \in 1 .. n : i + 1 \in Y <=> i \in X

\* How many they are.
LEMMA Shifted ==
  ASSUME NEW n \in Nat, NEW X, NEW Y, Shift(n, X, Y)
  PROVE  /\ IsFiniteSet(X) /\ IsFiniteSet(Y)
         /\ Cardinality(X) \in Nat
         /\ Cardinality(Y) = Cardinality(X) + (IF 1 \in Y THEN 1 ELSE 0)
<1>0. /\ X \in SUBSET (1 .. n) /\ Y \in SUBSET (1 .. n + 1)
      /\ \A i \in 1 .. n : i + 1 \in Y <=> i \in X
  BY DEF Shift
<1>1. IsFiniteSet(1 .. n) /\ IsFiniteSet(1 .. n + 1)
  BY FS_Interval
<1>2. IsFiniteSet(X) /\ IsFiniteSet(Y) /\ Cardinality(X) \in Nat
  BY <1>0, <1>1, FS_Subset, FS_CardinalityType
<1> DEFINE Z == Y \ {1}
           F == [i \in X |-> i + 1]
<1>3. Cardinality(Z) = Cardinality(X)
  <2>1. \A i \in X : i \in Nat /\ i >= 1 /\ i + 1 \in Z
    BY <1>0
  <2>2. \A j \in Z : j - 1 \in X /\ (j - 1) + 1 = j
    <3> SUFFICES ASSUME NEW j \in Z PROVE j - 1 \in X /\ (j - 1) + 1 = j
      OBVIOUS
    <3>1. j - 1 \in 1 .. n /\ (j - 1) + 1 = j
      BY <1>0
    <3> QED
      BY <3>1, <1>0
  <2>3. \A i, j \in X : i + 1 = j + 1 => i = j
    BY <1>0
  <2> HIDE DEF Z
  <2>4. F \in Bijection(X, Z)
    <3>1. F \in [X -> Z] /\ \A i \in X : F[i] = i + 1
      BY <2>1
    <3> HIDE DEF F
    <3>2. F \in Injection(X, Z)
      BY <3>1, <2>3 DEF Injection, IsInjective
    <3>3. F \in Surjection(X, Z)
      BY <3>1, <2>2 DEF Surjection
    <3> QED
      BY <3>2, <3>3 DEF Bijection
  <2> HIDE DEF F
  <2> QED
    BY <2>4, <1>2, FS_Bijection DEF ExistsBijection
<1>4. CASE 1 \in Y
  <2>1. Cardinality(Z) = Cardinality(Y) - 1
    BY <1>2, <1>4, FS_RemoveElement
  <2>2. Cardinality(Y) \in Nat
    BY <1>2, FS_CardinalityType
  <2> QED
    BY <2>1, <2>2, <1>2, <1>3, <1>4
<1>5. CASE 1 \notin Y
  <2>1. Z = Y
    BY <1>5
  <2> HIDE DEF Z
  <2> QED
    BY <2>1, <1>2, <1>3, <1>5
<1> QED
  BY <1>4, <1>5

\* A frame more: what there is to count.
LEMMA Tally ==
  ASSUME NEW f, NEW t, IsStack(t), IsStack(<<f>> \o t)
  PROVE  LET s == <<f>> \o t
         IN  /\ \A op : /\ Cardinality(CallsOf(t, op)) \in Nat
                        /\ Cardinality(CallsOf(s, op)) =
                             Cardinality(CallsOf(t, op)) + (IF f.op = op THEN 1 ELSE 0)
             /\ Cardinality(Nexts(t)) \in Nat
             /\ Cardinality(Nexts(s)) =
                  Cardinality(Nexts(t)) + (IF f.op = "check" /\ f.orNext THEN 1 ELSE 0)
             /\ Cardinality(Lasts(t)) \in Nat
             /\ Cardinality(Lasts(s)) =
                  Cardinality(Lasts(t)) + (IF f.op = "substitute" /\ t[1].op = "tidy" THEN 1 ELSE 0)
<1> DEFINE s == <<f>> \o t
           n == Len(t)
<1>1. /\ n \in Nat /\ DOMAIN t = 1 .. n /\ DOMAIN s = 1 .. n + 1
      /\ s[1] = f /\ \A i \in 1 .. n : s[i + 1] = t[i]
  BY Positions
<1>2. \A i \in DOMAIN t : t[i].op = "substitute" => i + 1 \in 1 .. n
  BY <1>1 DEF IsStack, Nested
<1>3. f.op = "substitute" => s[2] = t[1]
  <2> SUFFICES ASSUME f.op = "substitute" PROVE s[2] = t[1]
    OBVIOUS
  <2>1. 1 \in DOMAIN s /\ s[1].op = "substitute"
    BY <1>1
  <2>2. 1 + 1 \in DOMAIN s
    <3> HIDE DEF s
    <3> QED
      BY <2>1 DEF IsStack, Nested, s
  <2>3. 1 \in 1 .. n /\ 1 + 1 = 2
    BY <2>2, <1>1
  <2> QED
    BY <2>3, <1>1
<1> HIDE DEF s, n
<1>4. \A i \in 1 .. n : i + 1 \in 1 .. n + 1
  BY <1>1
<1>5. ASSUME NEW op
      PROVE  /\ Cardinality(CallsOf(t, op)) \in Nat
             /\ Cardinality(CallsOf(s, op)) =
                  Cardinality(CallsOf(t, op)) + (IF f.op = op THEN 1 ELSE 0)
  <2> DEFINE X == CallsOf(t, op)
             Y == CallsOf(s, op)
  <2>1. Shift(n, X, Y)
    BY <1>1, <1>4 DEF CallsOf, Shift
  <2>2. 1 \in Y <=> f.op = op
    BY <1>1 DEF CallsOf
  <2> HIDE DEF X, Y
  <2>3. Cardinality(X) \in Nat /\ Cardinality(Y) = Cardinality(X) + (IF 1 \in Y THEN 1 ELSE 0)
    BY <2>1, <1>1, Shifted
  <2> QED
    BY <2>2, <2>3 DEF X, Y
<1>6. /\ Cardinality(Nexts(t)) \in Nat
      /\ Cardinality(Nexts(s)) =
           Cardinality(Nexts(t)) + (IF f.op = "check" /\ f.orNext THEN 1 ELSE 0)
  <2> DEFINE X == Nexts(t)
             Y == Nexts(s)
  <2>1. Shift(n, X, Y)
    BY <1>1, <1>4 DEF CallsOf, Nexts, Shift
  <2>2. 1 \in Y <=> f.op = "check" /\ f.orNext
    BY <1>1 DEF CallsOf, Nexts
  <2> HIDE DEF X, Y
  <2>3. Cardinality(X) \in Nat /\ Cardinality(Y) = Cardinality(X) + (IF 1 \in Y THEN 1 ELSE 0)
    BY <2>1, <1>1, Shifted
  <2> QED
    BY <2>2, <2>3 DEF X, Y
<1>7. /\ Cardinality(Lasts(t)) \in Nat
      /\ Cardinality(Lasts(s)) =
           Cardinality(Lasts(t)) + (IF f.op = "substitute" /\ t[1].op = "tidy" THEN 1 ELSE 0)
  <2> DEFINE X == Lasts(t)
             Y == Lasts(s)
  <2>1. \A i \in 1 .. n : t[i].op = "substitute" => s[(i + 1) + 1] = t[i + 1]
    BY <1>1, <1>2
  <2>2. X \subseteq 1 .. n /\ Y \subseteq 1 .. n + 1
    BY <1>1 DEF CallsOf, Lasts
  <2>3. \A i \in 1 .. n : i + 1 \in Y <=> i \in X
    BY <2>1, <1>1, <1>4 DEF CallsOf, Lasts
  <2>4. 1 \in Y <=> f.op = "substitute" /\ t[1].op = "tidy"
    BY <1>1, <1>3 DEF CallsOf, Lasts
  <2> HIDE DEF X, Y
  <2>5. Cardinality(X) \in Nat /\ Cardinality(Y) = Cardinality(X) + (IF 1 \in Y THEN 1 ELSE 0)
    <3>1. Shift(n, X, Y)
      BY <2>2, <2>3 DEF Shift
    <3> QED
      BY <3>1, <1>1, Shifted
  <2> QED
    BY <2>4, <2>5 DEF X, Y
<1> QED
  BY <1>5, <1>6, <1>7 DEF s

\* The nodes that update_predictors has still to come to.
Marked(h) == {a \in DOMAIN h.sym : h.sym[a].upd}

\* The parts of Rank, of a heap h and a stack s.
Learns(s) == Cardinality(CallsOf(s, "learn"))
Due(h, s) == Len(Body(h, Start)) - Cardinality(Lasts(s))
Calls(s) ==
  4 * Cardinality(CallsOf(s, "substitute")) + Cardinality(CallsOf(s, "tidy"))
    + Cardinality(CallsOf(s, "check")) + Cardinality(Nexts(s))
Updates(s) == Cardinality(CallsOf(s, "update"))
Walk(h, s) == Updates(s) + 2 * Cardinality(Marked(h))

\* Heap k and stack u rank below heap h and stack s.
Below(k, u, h, s) ==
  \/ Learns(u) < Learns(s)
  \/ Learns(u) = Learns(s) /\ Due(k, u) < Due(h, s)
  \/ Learns(u) = Learns(s) /\ Due(k, u) = Due(h, s) /\ Calls(u) < Calls(s)
  \/ /\ Learns(u) = Learns(s) /\ Due(k, u) = Due(h, s) /\ Calls(u) = Calls(s)
     /\ Walk(k, u) < Walk(h, s)

\* A call more counts as its kind says.
LEMMA PushCounts ==
  ASSUME NEW f, NEW t, IsStack(t), Fits(f, t)
  PROVE  LET s == <<f>> \o t
         IN  /\ IsStack(s)
             /\ Learns(t) \in Nat /\ Calls(t) \in Nat /\ Updates(t) \in Nat
             /\ Cardinality(Lasts(t)) \in Nat
             /\ Learns(s) = Learns(t) + (IF f.op = "learn" THEN 1 ELSE 0)
             /\ Updates(s) = Updates(t) + (IF f.op = "update" THEN 1 ELSE 0)
             /\ Cardinality(Lasts(s)) =
                  Cardinality(Lasts(t)) + (IF f.op = "substitute" /\ t[1].op = "tidy" THEN 1 ELSE 0)
             /\ Calls(s) = Calls(t) + (IF f.op = "substitute" THEN 4
                                       ELSE IF f.op = "tidy" THEN 1
                                       ELSE IF f.op = "check" THEN IF f.orNext THEN 2 ELSE 1
                                       ELSE 0)
<1> DEFINE s == <<f>> \o t
           C(op) == Cardinality(CallsOf(t, op))
           D(op) == Cardinality(CallsOf(s, op))
<1>1. IsStack(s)
  BY Push
<1>2. /\ \A op : /\ C(op) \in Nat /\ D(op) = C(op) + (IF f.op = op THEN 1 ELSE 0)
      /\ Cardinality(Nexts(t)) \in Nat
      /\ Cardinality(Nexts(s)) =
           Cardinality(Nexts(t)) + (IF f.op = "check" /\ f.orNext THEN 1 ELSE 0)
      /\ Cardinality(Lasts(t)) \in Nat
      /\ Cardinality(Lasts(s)) =
           Cardinality(Lasts(t)) + (IF f.op = "substitute" /\ t[1].op = "tidy" THEN 1 ELSE 0)
  BY <1>1, Tally
<1>3. /\ Learns(t) = C("learn") /\ Learns(s) = D("learn")
      /\ Updates(t) = C("update") /\ Updates(s) = D("update")
      /\ Calls(t) = 4 * C("substitute") + C("tidy") + C("check") + Cardinality(Nexts(t))
      /\ Calls(s) = 4 * D("substitute") + D("tidy") + D("check") + Cardinality(Nexts(s))
  BY DEF Learns, Updates, Calls
<1> HIDE DEF s, C, D
<1>4. /\ C("substitute") \in Nat /\ C("tidy") \in Nat /\ C("check") \in Nat
      /\ C("learn") \in Nat /\ C("update") \in Nat
      /\ D("substitute") = C("substitute") + (IF f.op = "substitute" THEN 1 ELSE 0)
      /\ D("tidy") = C("tidy") + (IF f.op = "tidy" THEN 1 ELSE 0)
      /\ D("check") = C("check") + (IF f.op = "check" THEN 1 ELSE 0)
      /\ D("learn") = C("learn") + (IF f.op = "learn" THEN 1 ELSE 0)
      /\ D("update") = C("update") + (IF f.op = "update" THEN 1 ELSE 0)
  BY <1>2
<1>5. Calls(t) \in Nat
  BY <1>2, <1>3, <1>4
<1>6. Calls(s) = Calls(t) + (IF f.op = "substitute" THEN 4
                             ELSE IF f.op = "tidy" THEN 1
                             ELSE IF f.op = "check" THEN IF f.orNext THEN 2 ELSE 1
                             ELSE 0)
  <2>1. CASE f.op = "substitute"
    BY <2>1, <1>2, <1>3, <1>4
  <2>2. CASE f.op = "tidy"
    BY <2>2, <1>2, <1>3, <1>4
  <2>3. CASE f.op = "check" /\ f.orNext
    BY <2>3, <1>2, <1>3, <1>4
  <2>4. CASE f.op = "check" /\ ~f.orNext
    BY <2>4, <1>2, <1>3, <1>4
  <2>5. CASE f.op \notin {"substitute", "tidy", "check"}
    BY <2>5, <1>2, <1>3, <1>4
  <2> QED
    BY <2>1, <2>2, <2>3, <2>4, <2>5
<1> QED
  BY <1>1, <1>2, <1>3, <1>4, <1>5, <1>6 DEF s

\* The calls in progress are those below the one on top, and that one.
LEMMA TopCounts ==
  ASSUME Inductive, NEW op, Running(op)
  PROVE  LET t == Return
             f == Head(stack)
         IN  /\ f.op = op /\ IsStack(t) /\ Fits(f, t)
             /\ Learns(t) \in Nat /\ Calls(t) \in Nat /\ Updates(t) \in Nat
             /\ Cardinality(Lasts(t)) \in Nat
             /\ Learns(stack) = Learns(t) + (IF op = "learn" THEN 1 ELSE 0)
             /\ Updates(stack) = Updates(t) + (IF op = "update" THEN 1 ELSE 0)
             /\ Cardinality(Lasts(stack)) =
                  Cardinality(Lasts(t)) + (IF op = "substitute" /\ t[1].op = "tidy" THEN 1 ELSE 0)
             /\ Calls(stack) = Calls(t) + (IF op = "substitute" THEN 4
                                           ELSE IF op = "tidy" THEN 1
                                           ELSE IF op = "check" THEN IF f.orNext THEN 2 ELSE 1
                                           ELSE 0)
<1> DEFINE t == Return
           f == Head(stack)
<1>1. f.op = op /\ IsStack(t) /\ Fits(f, t) /\ stack # <<>> /\ IsStack(stack)
  BY Top DEF Inductive
<1>2. stack = <<f>> \o t
  BY <1>1, Decons DEF Return
<1> DEFINE s == <<f>> \o t
<1>3. /\ Learns(t) \in Nat /\ Calls(t) \in Nat /\ Updates(t) \in Nat
      /\ Cardinality(Lasts(t)) \in Nat
      /\ Learns(s) = Learns(t) + (IF f.op = "learn" THEN 1 ELSE 0)
      /\ Updates(s) = Updates(t) + (IF f.op = "update" THEN 1 ELSE 0)
      /\ Cardinality(Lasts(s)) =
           Cardinality(Lasts(t)) + (IF f.op = "substitute" /\ t[1].op = "tidy" THEN 1 ELSE 0)
      /\ Calls(s) = Calls(t) + (IF f.op = "substitute" THEN 4
                                ELSE IF f.op = "tidy" THEN 1
                                ELSE IF f.op = "check" THEN IF f.orNext THEN 2 ELSE 1
                                ELSE 0)
  <2> HIDE DEF t, f
  <2> QED
    BY <1>1, PushCounts
<1>4. stack = s
  BY <1>2
<1> HIDE DEF s, t, f
<1> QED
  BY <1>1, <1>3, <1>4 DEF t, f

\* These are the parts of Rank, before and after a step,
LEMMA RankIs ==
  /\ Rank = <<Learns(stack), Due(g, stack), Calls(stack), Walk(g, stack)>>
  /\ Rank' = <<Learns(stack'), Due(g', stack'), Calls(stack'), Walk(g', stack')>>
BY DEF Rank, Frames, Pending, Learns, Due, Calls, Walk, Updates, Marked, CallsOf, Lasts, Nexts

\* and what comes below ranks lower.
LEMMA Lower ==
  ASSUME Below(g', stack', g, stack)
  PROVE  LexLess(Rank', Rank)
<1> DEFINE a == Learns(stack')
           b == Due(g', stack')
           c == Calls(stack')
           d == Walk(g', stack')
           p == Learns(stack)
           q == Due(g, stack)
           r == Calls(stack)
           w == Walk(g, stack)
           x == Rank'
           y == Rank
<1>1. x = <<a, b, c, d>> /\ y = <<p, q, r, w>>
  BY RankIs
<1>2. \/ a < p
      \/ a = p /\ b < q
      \/ a = p /\ b = q /\ c < r
      \/ a = p /\ b = q /\ c = r /\ d < w
  BY DEF Below
<1> HIDE DEF a, b, c, d, p, q, r, w, x, y
<1>3. /\ x[1] = a /\ x[2] = b /\ x[3] = c /\ x[4] = d
      /\ y[1] = p /\ y[2] = q /\ y[3] = r /\ y[4] = w
  BY <1>1
<1>4. LexLess(x, y)
  <2>1. CASE a < p
    <3>1. x[1] < y[1] /\ \A j \in 1 .. 1 - 1 : x[j] = y[j]
      BY <1>3, <2>1
    <3> QED
      BY <3>1 DEF LexLess
  <2>2. CASE a = p /\ b < q
    <3>1. x[2] < y[2] /\ \A j \in 1 .. 2 - 1 : x[j] = y[j]
      BY <1>3, <2>2
    <3> QED
      BY <3>1 DEF LexLess
  <2>3. CASE a = p /\ b = q /\ c < r
    <3>1. x[3] < y[3] /\ \A j \in 1 .. 3 - 1 : x[j] = y[j]
      BY <1>3, <2>3
    <3> QED
      BY <3>1 DEF LexLess
  <2>4. CASE a = p /\ b = q /\ c = r /\ d < w
    <3>1. x[4] < y[4] /\ \A j \in 1 .. 4 - 1 : x[j] = y[j]
      BY <1>3, <2>4
    <3> QED
      BY <3>1 DEF LexLess
  <2> QED
    BY <1>2, <2>1, <2>2, <2>3, <2>4
<1> QED
  BY <1>4 DEF x, y

\* The length of the start rule is a number, and so is what is due of it.
LEMMA StartLength ==
  ASSUME NEW h, Sound(h)
  PROVE  /\ Start \in DOMAIN h.rule /\ Core(h) /\ Len(Body(h, Start)) \in Nat
         /\ \A t : Cardinality(Lasts(t)) \in Nat => Due(h, t) \in Int
<1>1. Start \in DOMAIN h.rule /\ Core(h)
  BY DEF Sound, Rooted
<1>2. IsFiniteSet(InnerOf(h, Start)) /\ Len(Body(h, Start)) = Cardinality(InnerOf(h, Start))
  BY <1>1, BodyLength
<1>3. Len(Body(h, Start)) \in Nat
  BY <1>2, FS_CardinalityType
<1> QED
  BY <1>1, <1>3 DEF Due

\* The marked nodes are finitely many.
LEMMA MarkedFinite ==
  ASSUME NEW h, Core(h)
  PROVE  IsFiniteSet(Marked(h)) /\ Cardinality(Marked(h)) \in Nat
<1>1. IsFiniteSet(DOMAIN h.sym) /\ Marked(h) \subseteq DOMAIN h.sym
  BY DEF Core, Counted, Marked
<1> HIDE DEF Marked
<1> QED
  BY <1>1, FS_Subset, FS_CardinalityType

\* A call that returns and leaves the start rule as long.
LEMMA ReturnLowers ==
  ASSUME Inductive, NEW op \in {"check", "tidy"}, Running(op),
         Sound(g'), Len(Body(g', Start)) = Len(Body(g, Start)), stack' = Return
  PROVE  Below(g', stack', g, stack)
<1> DEFINE t == Return
<1>1. /\ Learns(t) \in Nat /\ Calls(t) \in Nat /\ Cardinality(Lasts(t)) \in Nat
      /\ Learns(stack) = Learns(t) /\ Cardinality(Lasts(stack)) = Cardinality(Lasts(t))
      /\ Calls(stack) > Calls(t)
  <2>1. op # "learn" /\ op # "substitute"
    OBVIOUS
  <2>2. /\ Learns(t) \in Nat /\ Calls(t) \in Nat /\ Cardinality(Lasts(t)) \in Nat
        /\ Learns(stack) = Learns(t) + 0 /\ Cardinality(Lasts(stack)) = Cardinality(Lasts(t)) + 0
        /\ Calls(stack) = Calls(t) + (IF op = "tidy" THEN 1
                                      ELSE IF Head(stack).orNext THEN 2 ELSE 1)
    BY <2>1, TopCounts
  <2> HIDE DEF t
  <2> QED
    BY <2>2
<1>2. Due(g', t) = Due(g, stack)
  BY <1>1 DEF Due
<1> QED
  BY <1>1, <1>2 DEF Below

\* check that has found nothing, and goes on to the next digram or returns.
LEMMA ZeroLowers ==
  ASSUME Inductive, Running("check"), Sound(g'),
         Len(Body(g', Start)) = Len(Body(g, Start)),
         stack' = AfterZero(Head(stack)) \o Return
  PROVE  Below(g', stack', g, stack)
<1> DEFINE t == Return
           f == Head(stack)
           e == CheckFrame(g.sym[f.at].n, FALSE)
<1>1. /\ IsStack(t) /\ Fits(f, t) /\ f.op = "check"
      /\ Learns(t) \in Nat /\ Calls(t) \in Nat /\ Cardinality(Lasts(t)) \in Nat
      /\ Learns(stack) = Learns(t) + 0 /\ Cardinality(Lasts(stack)) = Cardinality(Lasts(t)) + 0
      /\ Calls(stack) = Calls(t) + (IF f.orNext THEN 2 ELSE 1)
  BY TopCounts
<1>2. CASE f.orNext
  <2>1. e.op = "check" /\ e.orNext = FALSE
    BY DEF CheckFrame
  <2>2. stack' = <<e>> \o t
    BY <1>2 DEF AfterZero
  <2> HIDE DEF e, t, f
  <2>3. Fits(e, t)
    BY <1>1, <1>2, <2>1 DEF Fits
  <2> DEFINE s == <<e>> \o t
  <2>4. /\ Learns(s) = Learns(t) + 0 /\ Cardinality(Lasts(s)) = Cardinality(Lasts(t)) + 0
        /\ Calls(s) = Calls(t) + 1
    BY <1>1, <2>1, <2>3, PushCounts
  <2>5. stack' = s
    BY <2>2
  <2> HIDE DEF s
  <2>6. Learns(s) = Learns(stack) /\ Calls(s) < Calls(stack)
        /\ Cardinality(Lasts(s)) = Cardinality(Lasts(stack))
    BY <1>1, <1>2, <2>4
  <2>7. Due(g', s) = Due(g, stack)
    BY <2>6 DEF Due
  <2> QED
    BY <2>5, <2>6, <2>7 DEF Below
<1>3. CASE ~f.orNext
  <2>1. AfterZero(f) = <<>>
    BY <1>3 DEF AfterZero
  <2>2. PICK F : t \in Seq(F)
    BY <1>1 DEF IsStack
  <2>3. stack' = t
    BY <2>1, <2>2, ConcatEmptySeq
  <2> QED
    BY <2>3, ReturnLowers
<1> QED
  BY <1>2, <1>3

\* match: the substitution that it leaves pending is going to take a symbol off
\* the start rule.
LEMMA MatchLowers ==
  ASSUME Inductive, Running("check"), Sound(g'),
         Len(Body(g', Start)) = Len(Body(g, Start)),
         NEW m, NEW a, NEW r, NEW fresh,
         LET v == <<SubstituteFrame(a, r)>> \o (<<TidyFrame(r, fresh)>> \o Return)
         IN  stack' = v \/ stack' = <<SubstituteFrame(m, r)>> \o v
  PROVE  Below(g', stack', g, stack)
<1> DEFINE t == Return
           x == TidyFrame(r, fresh)
           y == SubstituteFrame(a, r)
           z == SubstituteFrame(m, r)
           u == <<x>> \o t
           v == <<y>> \o u
           w == <<z>> \o v
<1>1. /\ x.op = "tidy" /\ x.by = r
      /\ y.op = "substitute" /\ y.by = r
      /\ z.op = "substitute" /\ z.by = r
  BY DEF TidyFrame, SubstituteFrame
<1>2. /\ IsStack(t) /\ Fits(Head(stack), t) /\ Head(stack).op = "check"
      /\ Learns(t) \in Nat /\ Cardinality(Lasts(t)) \in Nat
      /\ Learns(stack) = Learns(t) + 0 /\ Cardinality(Lasts(stack)) = Cardinality(Lasts(t)) + 0
  BY TopCounts
<1>3. stack' = v \/ stack' = w
  OBVIOUS
<1> HIDE DEF x, y, z, t
<1>4. t # <<>> => t[1].op # "update"
  BY <1>2 DEF Fits
<1>5. Fits(x, t)
  BY <1>1, <1>4 DEF Fits
<1>6. /\ IsStack(u) /\ u # <<>> /\ u[1] = x
      /\ Learns(u) = Learns(t) + 0 /\ Cardinality(Lasts(u)) = Cardinality(Lasts(t)) + 0
  BY <1>1, <1>2, <1>5, Push, PushCounts
<1> HIDE DEF u
<1>7. Fits(y, u)
  BY <1>1, <1>6 DEF Fits
<1>8. /\ IsStack(v) /\ v # <<>> /\ v[1] = y
      /\ Learns(v) = Learns(u) + 0 /\ Cardinality(Lasts(v)) = Cardinality(Lasts(u)) + 1
  BY <1>1, <1>6, <1>7, Push, PushCounts
<1> HIDE DEF v
<1>9. Fits(z, v)
  BY <1>1, <1>8 DEF Fits
<1>10. Learns(w) = Learns(v) + 0 /\ Cardinality(Lasts(w)) = Cardinality(Lasts(v)) + 0
  BY <1>1, <1>8, <1>9, PushCounts
<1> HIDE DEF w
<1>13. /\ Learns(stack') = Learns(stack)
       /\ Cardinality(Lasts(stack')) = Cardinality(Lasts(stack)) + 1
       /\ Cardinality(Lasts(stack)) \in Nat
  BY <1>2, <1>3, <1>6, <1>8, <1>10
<1>14. Due(g', stack') < Due(g, stack)
  <2>1. Len(Body(g, Start)) \in Nat
    BY StartLength DEF Inductive
  <2> QED
    BY <2>1, <1>13 DEF Due
<1> QED
  BY <1>13, <1>14 DEF Below

\* The steps of check.
LEMMA CheckLowers ==
  ASSUME Inductive, Sound(g'),
         CheckNoDigram \/ CheckNewDigram \/ CheckOverlap \/ CheckReuseRule \/ CheckNewRule
  PROVE  Below(g', stack', g, stack)
<1>1. Core(g) /\ Start \in DOMAIN g.rule /\ Core(g')
  BY StartLength DEF Inductive
<1>2. Running("check")
  BY DEF CheckNoDigram, CheckNewDigram, CheckOverlap, CheckReuseRule, CheckNewRule
<1>3. CASE CheckNoDigram
  BY <1>2, <1>3, ZeroLowers DEF CheckNoDigram
<1>4. CASE CheckNewDigram
  <2>1. g' = SetDigram(g, Head(stack).at) /\ stack' = AfterZero(Head(stack)) \o Return
    BY <1>4 DEF CheckNewDigram
  <2>2. SameLists(g, g')
    BY <1>1, <2>1, SetDigramIs DEF Core
  <2>3. Len(Body(g', Start)) = Len(Body(g, Start))
    BY <1>1, <2>2, SameLength
  <2> QED
    BY <1>2, <2>1, <2>3, ZeroLowers
<1>5. CASE CheckOverlap
  BY <1>2, <1>5, ReturnLowers DEF CheckOverlap
<1>6. CASE CheckReuseRule
  <2>1. PICK a, r : /\ g' = g
                    /\ stack' = <<SubstituteFrame(a, r), TidyFrame(r, FALSE)>> \o Return
    BY Zenon, <1>6 DEF CheckReuseRule
  <2> DEFINE x == TidyFrame(r, FALSE)
             y == SubstituteFrame(a, r)
             t == Return
             v == <<y>> \o (<<x>> \o t)
  <2>2. IsStack(t)
    BY <1>2, TopCounts
  <2>3. stack' = <<y, x>> \o t
    BY <2>1
  <2> HIDE DEF x, y, t
  <2>4. stack' = v
    BY <2>2, <2>3, Cons2
  <2> QED
    BY <1>2, <2>1, <2>4, MatchLowers DEF x, y, t
<1>7. CASE CheckNewRule
  <2>1. PICK b : Coined(g, b, RuleAddress(g), g')
    BY <1>7, CheckNewRuleKeeps
  <2>2. Alike(g, g', Start)
    BY <1>1, <2>1, CoinedAlike
  <2>3. Len(Body(g', Start)) = Len(Body(g, Start))
    BY <1>1, <2>2, AlikeLength
  <2>4. PICK m, a, r : stack' = <<SubstituteFrame(m, r), SubstituteFrame(a, r),
                                  TidyFrame(r, TRUE)>> \o Return
    BY <1>7 DEF CheckNewRule, NewRuleCalls
  <2> DEFINE d == SubstituteFrame(m, r)
             e == SubstituteFrame(a, r)
             f == TidyFrame(r, TRUE)
             t == Return
             u == <<e>> \o (<<f>> \o t)
  <2>5. IsStack(t)
    BY <1>2, TopCounts
  <2>6. stack' = <<d, e, f>> \o t
    BY <2>4
  <2> HIDE DEF d, e, f, t
  <2>7. stack' = <<d>> \o u
    <3>1. <<d, e, f>> \o t = <<d>> \o (<<e>> \o (<<f>> \o t))
      BY <2>5, Cons3
    <3> QED
      BY <3>1, <2>6
  <2> QED
    BY <1>2, <2>3, <2>7, MatchLowers DEF d, e, f, t
<1> QED
  BY <1>3, <1>4, <1>5, <1>6, <1>7

\* substitute, which takes a symbol off the rule it works on: off the start rule,
\* when it is the last of its match.
LEMMA SubstituteLowers ==
  ASSUME Inductive, Sound(g'), Substitute
  PROVE  Below(g', stack', g, stack)
<1> DEFINE t == Return
           f == Head(stack)
           a == f.at
           e == CheckFrame(g.sym[a].p, TRUE)
           s == <<e>> \o t
<1>1. Running("substitute") /\ stack' = s
  BY DEF Substitute
<1>2. e.op = "check" /\ e.orNext = TRUE
  BY DEF CheckFrame
<1>3. /\ f.op = "substitute" /\ IsStack(t) /\ Fits(f, t)
      /\ Learns(t) \in Nat /\ Calls(t) \in Nat /\ Cardinality(Lasts(t)) \in Nat
      /\ Learns(stack) = Learns(t) + 0
      /\ Cardinality(Lasts(stack)) =
           Cardinality(Lasts(t)) + (IF t[1].op = "tidy" THEN 1 ELSE 0)
      /\ Calls(stack) = Calls(t) + 4
  BY <1>1, TopCounts
<1>4. Swaps(g, a, f.by, g')
  BY SubstituteKeeps
<1>5. Rests(g, f, t)
  BY <1>1, Top
<1>6. Core(g) /\ Start \in DOMAIN g.rule /\ Core(g')
  BY StartLength DEF Inductive
<1> HIDE DEF t, f, e
<1>7. Fits(e, t)
  BY <1>2, <1>3 DEF Fits
<1>8. /\ Learns(s) = Learns(t) + 0 /\ Cardinality(Lasts(s)) = Cardinality(Lasts(t)) + 0
      /\ Calls(s) = Calls(t) + 2
  BY <1>2, <1>3, <1>7, PushCounts
<1> HIDE DEF s
<1>9. /\ Len(Body(g, Start)) \in Nat
      /\ Len(Body(g', Start)) = Len(Body(g, Start)) - (IF g.sym[a].owner = Start THEN 1 ELSE 0)
  BY <1>4, <1>6, SwapsLength
<1>10. ASSUME t[1].op = "tidy" PROVE g.sym[a].owner = Start
  <2>1. t # <<>>
    BY <1>3 DEF Fits
  <2>2. Target(g, a, f.by)
    BY <1>3, <1>5, <1>10, <2>1 DEF Rests, Over
  <2>3. a \in Linked(g) /\ g.sym[a].n = Last(g, Start)
    BY <2>2 DEF Target, Inner
  <2>4. g.sym[g.sym[a].n].owner = g.sym[a].owner
    BY <1>6, <2>3, NextNode
  <2>5. g.sym[Last(g, Start)].owner = Start
    BY <1>6, GuardNodes, PrevNode DEF Last
  <2> QED
    BY <2>3, <2>4, <2>5
<1>11. /\ Learns(s) = Learns(stack) /\ Calls(s) < Calls(stack)
  BY <1>3, <1>8
<1>12. Due(g', s) < Due(g, stack) \/ Due(g', s) = Due(g, stack)
  <2>1. CASE t[1].op = "tidy"
    BY <2>1, <1>3, <1>8, <1>9, <1>10 DEF Due
  <2>2. CASE t[1].op # "tidy" /\ g.sym[a].owner = Start
    BY <2>2, <1>3, <1>8, <1>9 DEF Due
  <2>3. CASE t[1].op # "tidy" /\ g.sym[a].owner # Start
    BY <2>3, <1>3, <1>8, <1>9 DEF Due
  <2> QED
    BY <2>1, <2>2, <2>3
<1> QED
  BY <1>1, <1>11, <1>12 DEF Below

\* The end of match.
LEMMA TidyLowers ==
  ASSUME Inductive, Sound(g'), Tidy
  PROVE  Below(g', stack', g, stack)
<1> DEFINE f == Head(stack)
           r == f.by
           t == Return
           h == IF f.fresh THEN SetDigram(g, First(g, r)) ELSE g
<1>1. /\ Running("tidy") /\ stack' = t
      /\ g' = IF Underused(h, r) THEN Expand(h, First(h, r)) ELSE h
  BY DEF Tidy
<1>2. /\ f.op = "tidy" /\ f = stack[1] /\ Rests(g, f, t) /\ Sound(g) /\ Core(g) /\ IsHeap(g)
  BY <1>1, Top DEF Inductive, Core
<1>3. r \in DOMAIN g.rule \ {Start} /\ Pair(g, r)
  BY <1>2 DEF Rests, Tidied
<1>4. First(g, r) \in Linked(g)
  BY <1>2, <1>3, FirstLinked
<1>5. Sound(h) /\ h.sym = g.sym /\ h.rule = g.rule
  BY <1>2, <1>4, SetDigramSound
<1>6. SameLists(g, h)
  <2>1. SameLists(g, SetDigram(g, First(g, r)))
    BY <1>2, SetDigramIs
  <2>2. SameLists(g, g)
    BY DEF SameLists
  <2> QED
    BY <2>1, <2>2
<1> HIDE DEF h, f, t, r
<1>7. Core(h) /\ Start \in DOMAIN g.rule /\ Core(g') /\ Start \in DOMAIN h.rule
  BY <1>2, <1>5, StartLength
<1>8. Len(Body(h, Start)) = Len(Body(g, Start))
  BY <1>2, <1>6, <1>7, SameLength
<1>9. Pair(h, r) /\ r \in DOMAIN h.rule \ {Start}
  BY Zenon, <1>3, <1>5 DEF Pair
<1>10. Len(Body(g', Start)) = Len(Body(h, Start))
  <2>1. CASE ~Underused(h, r)
    BY <1>1, <2>1
  <2>2. CASE Underused(h, r)
    <3> DEFINE a == First(h, r)
               v == h.sym[a].s
               left == h.sym[a].p
               right == h.sym[a].n
               G == h.rule[v].guard
               c == h.sym[G].n
               l == h.sym[G].p
               k == Expand(h, a)
    <3>1. PICK rk : Ranking(h, rk)
      BY <1>5 DEF Sound
    <3>2. Expandable(h, a, v) /\ h.sym[a].owner = r
      BY <1>5, <1>9, <2>2, UnderusedIs
    <3>3. Around(h, a, v, h.sym[a].owner, left, right, G, c, l)
      BY <1>7, <3>1, <3>2, ExpandNodes
    <3>4. g' = k
      BY <1>1, <2>2
    <3> HIDE DEF a, v, left, right, G, c, l, k
    <3>5. Around(h, a, v, r, left, right, G, c, l)
      BY <3>2, <3>3
    <3>6. Spliced(h, a, v, left, right, c, l, G, k)
      BY <1>7, <3>5, ExpandIs DEF k
    <3>7. Start # r /\ Start # v
      BY <1>9, <3>5 DEF Around
    <3>8. Alike(h, k, Start)
      BY <1>7, <3>5, <3>6, <3>7, SplicedAlike
    <3> QED
      BY <1>7, <3>4, <3>8, AlikeLength
  <2> QED
    BY <2>1, <2>2
<1> QED
  BY <1>1, <1>5, <1>8, <1>10, ReturnLowers DEF t

\* The walk of update_predictors is at a node whose predictor links all lead to
\* nodes that are still there: it reads no memory that was freed.
UpdateLive ==
  Running("update") => g.sym[Head(stack).at].preds \subseteq DOMAIN g.sym

\* A call of update_predictors on a child: the child's mark pays for it.
LEMMA ChildLowers ==
  ASSUME Inductive, Sound(g'), UpdateChild, UpdateLive
  PROVE  Below(g', stack', g, stack)
<1> DEFINE t == Return
           f == Head(stack)
           todo == ToUpdate(g, f.at, f.done)
           c == CHOOSE d \in todo : \A e \in todo : d <= e
           x == UpdateFrame(c, 0)
           y == UpdateFrame(f.at, c)
           u == <<y>> \o t
           s == <<x>> \o u
<1>1. /\ Running("update") /\ todo # {}
      /\ g' = [g EXCEPT !.sym[c].upd = FALSE] /\ stack' = <<x, y>> \o t
  BY DEF UpdateChild
<1>2. x.op = "update" /\ y.op = "update"
  BY DEF UpdateFrame
<1>3. /\ IsStack(t)
      /\ Learns(t) \in Nat /\ Calls(t) \in Nat /\ Updates(t) \in Nat /\ Cardinality(Lasts(t)) \in Nat
      /\ Learns(stack) = Learns(t) + 0 /\ Cardinality(Lasts(stack)) = Cardinality(Lasts(t)) + 0
      /\ Calls(stack) = Calls(t) + 0 /\ Updates(stack) = Updates(t) + 1
  BY <1>1, TopCounts
<1>4. Core(g) /\ Start \in DOMAIN g.rule /\ Core(g') /\ IsHeap(g)
  BY StartLength DEF Inductive, Core
<1>5. c \in todo
  <2>1. todo \subseteq Nat
    <3>1. \A d \in DOMAIN g.sym : d \in Nat
      BY <1>4 DEF Core, Allocated, Addresses
    <3>2. todo \subseteq DOMAIN g.sym
      BY <1>1 DEF UpdateLive, ToUpdate
    <3> QED
      BY <3>1, <3>2
  <2> HIDE DEF todo
  <2>2. \E d \in todo : \A e \in todo : d <= e
    BY <1>1, <2>1, Least
  <2> QED
    BY <2>2
<1>6. c \in DOMAIN g.sym /\ g.sym[c].upd
  BY <1>1, <1>5 DEF UpdateLive, ToUpdate
<1> HIDE DEF c, todo
<1>7. SameLists(g, g')
  BY <1>1, <1>4, FlagSame DEF Same
<1>8. Len(Body(g', Start)) = Len(Body(g, Start))
  BY <1>4, <1>7, SameLength
<1>9. Marked(g') = Marked(g) \ {c} /\ c \in Marked(g)
  <2>1. /\ DOMAIN g'.sym = DOMAIN g.sym /\ ~g'.sym[c].upd
        /\ \A b \in DOMAIN g.sym : b # c => g'.sym[b] = g.sym[b]
    BY <1>1, <1>4, <1>6 DEF IsHeap, HeapFields, NodeFields
  <2> QED
    BY <2>1, <1>6 DEF Marked
<1>10. Cardinality(Marked(g')) = Cardinality(Marked(g)) - 1 /\ Cardinality(Marked(g)) \in Nat
  BY <1>4, <1>9, MarkedFinite, FS_RemoveElement
<1> HIDE DEF x, y, t, f
<1>11. Fits(y, t)
  BY <1>2 DEF Fits
<1>12. /\ IsStack(u)
       /\ Learns(u) = Learns(t) + 0 /\ Cardinality(Lasts(u)) = Cardinality(Lasts(t)) + 0
       /\ Calls(u) = Calls(t) + 0 /\ Updates(u) = Updates(t) + 1
  BY <1>2, <1>3, <1>11, PushCounts
<1> HIDE DEF u
<1>13. Fits(x, u)
  BY <1>2 DEF Fits
<1>14. /\ Learns(s) = Learns(u) + 0 /\ Cardinality(Lasts(s)) = Cardinality(Lasts(u)) + 0
       /\ Calls(s) = Calls(u) + 0 /\ Updates(s) = Updates(u) + 1
  BY <1>2, <1>12, <1>13, PushCounts
<1>15. stack' = s
  BY <1>1, <1>3, Cons2 DEF u
<1> HIDE DEF s
<1>16. /\ Learns(s) = Learns(stack) /\ Calls(s) = Calls(stack)
       /\ Cardinality(Lasts(s)) = Cardinality(Lasts(stack)) /\ Updates(s) = Updates(stack) + 1
       /\ Updates(stack) \in Nat
  BY <1>3, <1>12, <1>14
<1>17. Due(g', s) = Due(g, stack)
  BY <1>8, <1>16 DEF Due
<1>18. Walk(g', s) < Walk(g, stack)
  BY <1>10, <1>16 DEF Walk
<1> QED
  BY <1>15, <1>16, <1>17, <1>18 DEF Below

\* Adopting what was computed marks no node, and takes no mark off.
LEMMA AdoptNextMarks ==
  ASSUME NEW h, IsHeap(h), NEW a
  PROVE  Marked(AdoptNext(h, a)) = Marked(h)
<1> DEFINE nxt == h.sym[a].next
           end == LeftEnd(h)
           S == UNION {Spine(h, b, end) : b \in nxt.new}
           e == [b \in DOMAIN h.sym |->
                  IF b \notin S THEN h.sym[b]
                  ELSE [h.sym[b] EXCEPT
                          !.pred = TRUE,
                          !.preds = IF NT(h.sym[b].s)
                                    THEN @ \cup {end[h.sym[b].s]} ELSE @]]
           m0 == [h EXCEPT !.sym = e]
           m  == BecomePredictorDown(h, nxt.new, end)
           g1 == Turn(m, a, nxt)
           k  == AdoptNext(h, a)
<1>1. k = IF nxt.pred \/ h.sym[a].owner = Null THEN g1
          ELSE [g1 EXCEPT !.predictions = @ \ {a}]
  BY DEF AdoptNext
<1>2. m = AddPredictions(m0, S)
  BY DEF BecomePredictorDown
<1> HIDE DEF S, end
<1>3. DOMAIN e = DOMAIN h.sym /\ \A b \in DOMAIN e : e[b].upd = h.sym[b].upd /\ DOMAIN e[b] = NodeFields
  BY DEF IsHeap, NodeFields
<1> HIDE DEF e
<1>4. m0.sym = e /\ DOMAIN m0 = HeapFields
  BY DEF IsHeap, HeapFields
<1> HIDE DEF m0
<1>5. m.sym = e /\ DOMAIN m = HeapFields
  BY <1>2, <1>4 DEF AddPredictions, HeapFields
<1> HIDE DEF m, nxt
<1>6. /\ DOMAIN g1 = HeapFields /\ DOMAIN g1.sym = DOMAIN h.sym
      /\ \A b \in DOMAIN h.sym : g1.sym[b].upd = h.sym[b].upd
  <2> DEFINE ps == IF nxt.pred THEN nxt.new \cup nxt.stay ELSE {}
             d == [e EXCEPT ![a].pred = nxt.pred, ![a].preds = ps, ![a].next = NoNext]
  <2>1. g1 = [m EXCEPT !.sym = d]
    BY <1>5 DEF Turn
  <2> HIDE DEF ps, g1
  <2>2. DOMAIN d = DOMAIN h.sym /\ \A b \in DOMAIN d : d[b].upd = h.sym[b].upd
    BY <1>3 DEF NodeFields
  <2> HIDE DEF d
  <2>3. g1.sym = d /\ DOMAIN g1 = HeapFields
    BY <2>1, <1>5 DEF HeapFields
  <2> QED
    BY <2>2, <2>3
<1> HIDE DEF g1
<1>7. k.sym = g1.sym
  <2>1. CASE nxt.pred \/ h.sym[a].owner = Null
    BY <2>1, <1>1
  <2>2. CASE ~(nxt.pred \/ h.sym[a].owner = Null)
    <3>1. k = [g1 EXCEPT !.predictions = @ \ {a}]
      BY <2>2, <1>1
    <3> HIDE DEF k
    <3> QED
      BY <3>1, <1>6 DEF HeapFields
  <2> QED
    BY <2>1, <2>2
<1> HIDE DEF k
<1>8. Marked(k) = Marked(h)
  BY <1>6, <1>7 DEF Marked
<1> QED
  BY <1>8 DEF k

\* update_predictors, when it returns.
LEMMA SelfLowers ==
  ASSUME Inductive, Sound(g'), UpdateSelf
  PROVE  Below(g', stack', g, stack)
<1> DEFINE t == Return
<1>1. Running("update") /\ g' = AdoptNext(g, Head(stack).at) /\ stack' = t
  BY DEF UpdateSelf
<1>2. /\ Learns(t) \in Nat /\ Calls(t) \in Nat /\ Updates(t) \in Nat /\ Cardinality(Lasts(t)) \in Nat
      /\ Learns(stack) = Learns(t) + 0 /\ Cardinality(Lasts(stack)) = Cardinality(Lasts(t)) + 0
      /\ Calls(stack) = Calls(t) + 0 /\ Updates(stack) = Updates(t) + 1
  BY <1>1, TopCounts
<1>3. Core(g) /\ Start \in DOMAIN g.rule /\ Core(g') /\ IsHeap(g)
  BY StartLength DEF Inductive, Core
<1>4. SameLists(g, g') /\ Marked(g') = Marked(g)
  BY <1>1, <1>3, AdoptNextSame, AdoptNextMarks DEF Same
<1>5. Len(Body(g', Start)) = Len(Body(g, Start))
  BY <1>3, <1>4, SameLength
<1>6. Cardinality(Marked(g)) \in Nat
  BY <1>3, MarkedFinite
<1> HIDE DEF t
<1>7. Due(g', t) = Due(g, stack)
  BY <1>2, <1>5 DEF Due
<1>8. Walk(g', t) < Walk(g, stack)
  BY <1>2, <1>4, <1>6 DEF Walk
<1> QED
  BY <1>1, <1>2, <1>7, <1>8 DEF Below

\* The end of input: there is no other call of it.
LEMMA LearnLowers ==
  ASSUME Inductive, Learn
  PROVE  Below(g', stack', g, stack)
<1> DEFINE t == Return
           f == UpdateFrame(Root, 0)
<1>1. Running("learn") /\ (stack' = t \/ \E h : stack' = UpdateRoot(h) \o t)
  BY DEF Learn
<1>2. IsStack(t) /\ Learns(t) \in Nat /\ Learns(stack) = Learns(t) + 1
  BY <1>1, TopCounts
<1>3. f.op = "update"
  BY DEF UpdateFrame
<1> HIDE DEF f, t
<1>4. Fits(f, t)
  BY <1>3 DEF Fits
<1> DEFINE s == <<f>> \o t
<1>5. Learns(s) = Learns(t) + 0
  BY <1>2, <1>3, <1>4, PushCounts
<1>6. stack' = t \/ stack' = s
  <2>1. CASE stack' = t
    BY <2>1
  <2>2. ASSUME NEW h, stack' = UpdateRoot(h) \o t
        PROVE  stack' = t \/ stack' = s
    <3>1. UpdateRoot(h) = <<f>> \/ UpdateRoot(h) = <<>>
      BY DEF UpdateRoot, f
    <3>2. PICK F : t \in Seq(F)
      BY <1>2 DEF IsStack
    <3>3. <<>> \o t = t
      BY <3>2, ConcatEmptySeq
    <3>4. CASE UpdateRoot(h) = <<f>>
      BY <2>2, <3>4
    <3>5. CASE UpdateRoot(h) = <<>>
      BY <2>2, <3>3, <3>5
    <3> QED
      BY <3>1, <3>4, <3>5
  <2> QED
    BY <1>1, <2>1, <2>2
<1> HIDE DEF s
<1>7. Learns(stack') < Learns(stack)
  BY <1>2, <1>5, <1>6
<1> QED
  BY <1>7 DEF Below

\* Every step of the cascade goes down.
LEMMA StepLowers ==
  ASSUME Inductive, UpdateLive, [Next]_vars, stack # <<>>, ~UNCHANGED vars
  PROVE  LexLess(Rank', Rank)
<1>1. Sound(g')
  BY StepKeeps DEF Inductive
<1>2. Cascade
  BY DEF Next, Input, Finished
<1>3. Below(g', stack', g, stack)
  <2>1. CASE UpdateChild
    BY <1>1, <2>1, ChildLowers
  <2>2. CASE UpdateSelf
    BY <1>1, <2>2, SelfLowers
  <2>3. CASE CheckNoDigram \/ CheckNewDigram \/ CheckOverlap \/ CheckReuseRule \/ CheckNewRule
    BY <1>1, <2>3, CheckLowers
  <2>4. CASE Substitute
    BY <1>1, <2>4, SubstituteLowers
  <2>5. CASE Tidy
    BY <1>1, <2>5, TidyLowers
  <2>6. CASE Learn
    BY <2>6, LearnLowers
  <2> QED
    BY Zenon, <1>2, <2>1, <2>2, <2>3, <2>4, <2>5, <2>6 DEF Cascade
<1> QED
  BY <1>3, Lower

\* Every call of input returns, unless it follows a predictor link to a node that
\* substitute has freed: with each step of the cascade (check, match, substitute,
\* expand, update_predictors, learning) Rank falls, and Grounding ends that.
\* The links are the one thing in this that the invariant does not know: a node
\* that is gone has no mark to take off.
THEOREM Descent == Spec /\ []UpdateLive => CascadeDescends
<1>1. Inductive /\ UpdateLive /\ [Next]_vars => [stack # <<>> => LexLess(Rank', Rank)]_vars
  <2> SUFFICES ASSUME Inductive, UpdateLive, [Next]_vars, stack # <<>>, ~UNCHANGED vars
               PROVE  LexLess(Rank', Rank)
    BY Zenon
  <2> QED
    BY StepLowers
<1>2. Spec => []Inductive
  BY HeapInvariant
<1> QED
  BY <1>1, <1>2, PTL DEF Spec, CascadeDescends

\* The parts of Rank are naturals: at most one substitution leaves a rule to be
\* tidied up, and then the start rule has a symbol that is to go.
LEMMA RankNatural ==
  ASSUME Inductive
  PROVE  Rank \in Nat \X Nat \X Nat \X Nat
<1>1. /\ Len(stack) \in Nat /\ DOMAIN stack = 1 .. Len(stack)
      /\ Sound(g) /\ Core(g) /\ Held(g, stack) /\ IsStack(stack)
  <2>1. PICK E : stack \in Seq(E)
    BY DEF Inductive, IsStack
  <2> QED
    BY <2>1 DEF Inductive, Sound
<1>2. \A X : X \subseteq 1 .. Len(stack) => Cardinality(X) \in Nat
  <2>1. IsFiniteSet(1 .. Len(stack))
    BY <1>1, FS_Interval
  <2>2. \A X : X \subseteq 1 .. Len(stack) => IsFiniteSet(X)
    BY <2>1, FS_Subset
  <2> QED
    BY <2>2, FS_CardinalityType
<1>3. /\ \A op : Cardinality(CallsOf(stack, op)) \in Nat
      /\ Cardinality(Nexts(stack)) \in Nat
  BY <1>1, <1>2 DEF CallsOf, Nexts
<1>4. Cardinality(Marked(g)) \in Nat
  BY <1>1, MarkedFinite
<1>5. Due(g, stack) \in Nat
  <2>1. Start \in DOMAIN g.rule /\ Len(Body(g, Start)) \in Nat
    BY <1>1, StartLength
  <2>2. CASE Lasts(stack) = {}
    BY <2>1, <2>2, FS_EmptySet DEF Due
  <2>3. CASE Lasts(stack) # {}
    <3>1. PICK i : i \in Lasts(stack)
      BY <2>3
    <3>2. \A j \in Lasts(stack) : /\ j \in Nat /\ j \in DOMAIN stack /\ j + 1 \in DOMAIN stack
                                  /\ stack[j].op = "substitute" /\ stack[j + 1].op = "tidy"
      BY <1>1 DEF Lasts, CallsOf, IsStack, Nested
    <3>3. \A j, k \in Lasts(stack) : ~(j < k)
      <4> SUFFICES ASSUME NEW j \in Lasts(stack), NEW k \in Lasts(stack), j < k PROVE FALSE
        OBVIOUS
      <4>1. j + 2 <= k
        BY <3>2
      <4> QED
        BY <4>1, <3>2, <1>1 DEF Held
    <3>4. Lasts(stack) = {i}
      BY <3>1, <3>2, <3>3
    <3>5. Cardinality(Lasts(stack)) = 1
      BY <3>4, FS_Singleton
    <3>6. Target(g, stack[i].at, stack[i].by)
      BY <3>1, <3>2, <1>1 DEF Held, Over
    <3>7. g.sym[stack[i].at].n = Last(g, Start) /\ Last(g, Start) \in Inner(g)
      BY <3>6 DEF Target
    <3>8. Last(g, Start) \in InnerOf(g, Start)
      <4>1. g.sym[Last(g, Start)].owner = Start
        BY <3>7, <1>1, LastNode
      <4> QED
        BY <4>1, <3>7 DEF InnerOf
    <3>9. IsFiniteSet(InnerOf(g, Start)) /\ Len(Body(g, Start)) = Cardinality(InnerOf(g, Start))
      BY <1>1, <2>1, BodyLength
    <3>10. Len(Body(g, Start)) # 0
      BY <3>8, <3>9, FS_EmptySet
    <3> QED
      BY <2>1, <3>5, <3>10 DEF Due
  <2> QED
    BY <2>2, <2>3
<1>6. Learns(stack) \in Nat /\ Calls(stack) \in Nat /\ Walk(g, stack) \in Nat
  BY <1>3, <1>4 DEF Learns, Calls, Walk, Updates
<1> QED
  BY <1>5, <1>6, RankIs

\* In every state, of any call, Rank is made of naturals; in the order of the
\* first that differs it cannot fall for ever, so that input returns (Descent).
THEOREM Grounding == Spec => [](Rank \in Nat \X Nat \X Nat \X Nat)
<1>1. Inductive => Rank \in Nat \X Nat \X Nat \X Nat
  BY RankNatural
<1> QED
  BY <1>1, HeapInvariant, PTL

=============================================================================
