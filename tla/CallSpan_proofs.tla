-------------------------- MODULE CallSpan_proofs --------------------------
(***************************************************************************)
(* Proofs about CallSpan, for every finite call graph and every span.      *)
(***************************************************************************)
EXTENDS CallSpan, ClosureTheorems

-----------------------------------------------------------------------------
(* Around: what is at most k calls away.                                   *)

(* The function that Around defines by recursion.                          *)
IsBall(b, k) ==
  b = [i \in 0..k |-> IF i = 0 THEN {start} ELSE Linked(b[i - 1])]

LEMMA BallIs ==
  ASSUME NEW k \in Nat, NEW b, IsBall(b, k)
  PROVE  /\ DOMAIN b = 0..k
         /\ b[0] = {start}
         /\ \A i \in 0..k : i # 0 => b[i] = Linked(b[i - 1])
<1> DEFINE F(c) == [i \in 0..k |-> IF i = 0 THEN {start} ELSE Linked(c[i - 1])]
<1>1. b = F(b)
  BY DEF IsBall
<1>2. DOMAIN F(b) = 0..k
  OBVIOUS
<1>3. F(b)[0] = {start}
  OBVIOUS
<1>4. \A i \in 0..k : i # 0 => F(b)[i] = Linked(b[i - 1])
  OBVIOUS
<1> HIDE DEF F
<1> QED BY <1>1, <1>2, <1>3, <1>4

LEMMA IsBallIf ==
  ASSUME NEW k \in Nat, NEW b,
         b = [i \in 0..k |-> b[i]],
         b[0] = {start},
         \A i \in 0..k : i # 0 => b[i] = Linked(b[i - 1])
  PROVE  IsBall(b, k)
<1>1. \A i \in 0..k : b[i] = IF i = 0 THEN {start} ELSE Linked(b[i - 1])
  OBVIOUS
<1>2. [i \in 0..k |-> b[i]] = [i \in 0..k |-> IF i = 0 THEN {start} ELSE Linked(b[i - 1])]
  BY <1>1
<1> QED BY <1>2 DEF IsBall

LEMMA BallExists ==
  ASSUME NEW k \in Nat
  PROVE  \E b : IsBall(b, k)
<1> DEFINE S == {n \in Nat : \E b : IsBall(b, n)}
<1>1. 0 \in S
  <2> DEFINE b == [i \in 0..0 |-> {start}]
  <2>1. b = [i \in 0..0 |-> b[i]] /\ b[0] = {start}
    OBVIOUS
  <2>2. \A i \in 0..0 : i = 0
    OBVIOUS
  <2> HIDE DEF b
  <2>3. IsBall(b, 0)
    BY <2>1, <2>2, IsBallIf
  <2> QED BY <2>3
<1>2. ASSUME NEW n \in S PROVE n + 1 \in S
  <2>1. PICK b : IsBall(b, n)
    OBVIOUS
  <2>2. /\ DOMAIN b = 0..n
        /\ b[0] = {start}
        /\ \A i \in 0..n : i # 0 => b[i] = Linked(b[i - 1])
    BY <2>1, BallIs
  <2> DEFINE c == [i \in 0..(n + 1) |-> IF i = n + 1 THEN Linked(b[n]) ELSE b[i]]
  <2>3. c = [i \in 0..(n + 1) |-> c[i]]
    OBVIOUS
  <2>4. c[n + 1] = Linked(b[n]) /\ \A i \in 0..n : c[i] = b[i]
    OBVIOUS
  <2> HIDE DEF c
  <2>5. c[0] = {start}
    BY <2>2, <2>4
  <2>6. ASSUME NEW i \in 0..(n + 1), i # 0 PROVE c[i] = Linked(c[i - 1])
    <3>1. CASE i = n + 1
      BY <2>4, <3>1
    <3>2. CASE i # n + 1
      <4>1. i \in 0..n /\ i - 1 \in 0..n
        BY <2>6, <3>2
      <4> QED BY <2>2, <2>4, <2>6, <4>1
    <3> QED BY <3>1, <3>2
  <2>7. n + 1 \in Nat
    OBVIOUS
  <2>8. \A i \in 0..(n + 1) : i # 0 => c[i] = Linked(c[i - 1])
    BY <2>6
  <2>9. IsBall(c, n + 1)
    BY <2>3, <2>5, <2>7, <2>8, IsBallIf
  <2> QED BY <2>7, <2>9
<1>3. S = Nat
  <2> HIDE DEF S
  <2> QED BY <1>1, <1>2, Induction DEF S
<1> QED BY <1>3

LEMMA AroundIs ==
  ASSUME NEW k \in Nat
  PROVE  \E b : IsBall(b, k) /\ Around(k) = b[k]
<1>1. PICK b : IsBall(b, k)
  BY BallExists
<1>2. Around(k) = (CHOOSE c : IsBall(c, k))[k]
  BY DEF Around, IsBall
<1>3. IsBall(CHOOSE c : IsBall(c, k), k)
  BY <1>1
<1> QED BY <1>2, <1>3

(* Balls of different radius agree.                                        *)
LEMMA BallsAgree ==
  ASSUME NEW k \in Nat, NEW m \in Nat, NEW b, NEW c, IsBall(b, k), IsBall(c, m)
  PROVE  \A i \in Nat : i <= k /\ i <= m => b[i] = c[i]
<1> DEFINE S == {i \in Nat : i <= k /\ i <= m => b[i] = c[i]}
<1>1. 0 \in S
  BY BallIs
<1>2. ASSUME NEW i \in S PROVE i + 1 \in S
  <2> SUFFICES ASSUME i + 1 <= k, i + 1 <= m PROVE b[i + 1] = c[i + 1]
    OBVIOUS
  <2>1. b[i] = c[i]
    OBVIOUS
  <2>2. b[i + 1] = Linked(b[(i + 1) - 1]) /\ c[i + 1] = Linked(c[(i + 1) - 1])
    BY BallIs
  <2>3. (i + 1) - 1 = i
    OBVIOUS
  <2> QED BY <2>1, <2>2, <2>3
<1>3. S = Nat
  <2> HIDE DEF S
  <2> QED BY <1>1, <1>2, Induction DEF S
<1> QED BY <1>3

LEMMA AroundZero == Around(0) = {start}
BY AroundIs, BallIs

LEMMA AroundNext ==
  ASSUME NEW k \in Nat
  PROVE  Around(k + 1) = Linked(Around(k))
<1>1. PICK b : IsBall(b, k) /\ Around(k) = b[k]
  BY AroundIs
<1>2. PICK c : IsBall(c, k + 1) /\ Around(k + 1) = c[k + 1]
  BY AroundIs
<1>3. c[k + 1] = Linked(c[(k + 1) - 1]) /\ (k + 1) - 1 = k
  BY <1>2, BallIs
<1>4. b[k] = c[k]
  BY <1>1, <1>2, BallsAgree
<1> QED BY <1>1, <1>2, <1>3, <1>4

LEMMA AroundGrows ==
  ASSUME NEW k \in Nat, NEW m \in Nat, k <= m
  PROVE  Around(k) \subseteq Around(m)
<1> DEFINE S == {n \in Nat : Around(k) \subseteq Around(k + n)}
<1>1. 0 \in S
  BY k + 0 = k
<1>2. ASSUME NEW n \in S PROVE n + 1 \in S
  <2>1. k + (n + 1) = (k + n) + 1 /\ k + n \in Nat
    OBVIOUS
  <2>2. Around(k + (n + 1)) = Linked(Around(k + n))
    BY <2>1, AroundNext
  <2>3. Around(k + n) \subseteq Around(k + (n + 1))
    BY <2>2 DEF Linked
  <2> QED BY <2>3
<1>3. S = Nat
  <2> HIDE DEF S
  <2> QED BY <1>1, <1>2, Induction DEF S
<1>4. m - k \in Nat /\ k + (m - k) = m
  OBVIOUS
<1> QED BY <1>3, <1>4

LEMMA AroundIsFn ==
  ASSUME start \in Fn, NEW k \in Nat
  PROVE  Around(k) \subseteq Fn
<1> DEFINE S == {n \in Nat : Around(n) \subseteq Fn}
<1>1. 0 \in S
  BY AroundZero
<1>2. ASSUME NEW n \in S PROVE n + 1 \in S
  BY AroundNext DEF Linked
<1>3. S = Nat
  <2> HIDE DEF S
  <2> QED BY <1>1, <1>2, Induction DEF S
<1> QED BY <1>3

(* A ball that is closed under calls stays as it is.                       *)
LEMMA AroundStays ==
  ASSUME NEW k \in Nat, Linked(Around(k)) = Around(k)
  PROVE  \A m \in Nat : m >= k => Around(m) = Around(k)
<1> DEFINE S == {n \in Nat : Around(k + n) = Around(k)}
<1>1. 0 \in S
  BY k + 0 = k
<1>2. ASSUME NEW n \in S PROVE n + 1 \in S
  <2>1. k + (n + 1) = (k + n) + 1 /\ k + n \in Nat
    OBVIOUS
  <2>2. Around(k + (n + 1)) = Linked(Around(k + n))
    BY <2>1, AroundNext
  <2> QED BY <2>2
<1>3. S = Nat
  <2> HIDE DEF S
  <2> QED BY <1>1, <1>2, Induction DEF S
<1>4. ASSUME NEW m \in Nat, m >= k PROVE Around(m) = Around(k)
  <2>1. m - k \in Nat /\ k + (m - k) = m
    BY <1>4
  <2>2. Around(k + (m - k)) = Around(k)
    BY <1>3, <2>1
  <2> QED BY <2>1, <2>2
<1> QED BY <1>4

(* No ball is larger than the set of all functions, so one of the first    *)
(* Cardinality(Fn) is closed, and so is the component.                     *)
LEMMA ComponentClosed ==
  ASSUME start \in Fn
  PROVE  /\ Linked(Component) = Component
         /\ \A k \in Nat : Around(k) \subseteq Component
<1> DEFINE N == Cardinality(Fn)
           Closes(n) == \E k \in Nat : k < n /\ Linked(Around(k)) = Around(k)
           S == {n \in Nat : n <= N => Closes(n) \/ Cardinality(Around(n)) >= n + 1}
<1>1. N \in Nat /\ IsFiniteSet(Fn)
  BY CallSpanAssumption, FS_CardinalityType
<1>2. \A n \in Nat : /\ IsFiniteSet(Around(n))
                     /\ Cardinality(Around(n)) \in Nat
                     /\ Cardinality(Around(n)) <= N
  BY <1>1, AroundIsFn, FS_Subset, FS_CardinalityType
<1>3. 0 \in S
  BY AroundZero, FS_Singleton
<1>4. ASSUME NEW n \in S PROVE n + 1 \in S
  <2> SUFFICES ASSUME n + 1 <= N, ~Closes(n + 1)
               PROVE  Cardinality(Around(n + 1)) >= (n + 1) + 1
    OBVIOUS
  <2>1. n \in Nat /\ ~Closes(n)
    OBVIOUS
  <2>2. Cardinality(Around(n)) >= n + 1
    BY <1>1, <2>1
  <2>3. Linked(Around(n)) # Around(n)
    BY <2>1
  <2>4. Around(n + 1) = Linked(Around(n)) /\ n + 1 \in Nat
    BY <2>1, AroundNext
  <2>5. Around(n) \subseteq Around(n + 1)
    BY <2>4 DEF Linked
  <2>6. Cardinality(Around(n)) <= Cardinality(Around(n + 1))
        /\ Cardinality(Around(n)) # Cardinality(Around(n + 1))
    BY <1>2, <2>1, <2>3, <2>4, <2>5, FS_Subset
  <2> HIDE DEF N
  <2> QED BY <1>2, <2>1, <2>2, <2>4, <2>6
<1>5. S = Nat
  <2> HIDE DEF S
  <2> QED BY <1>3, <1>4, Induction DEF S
<1>6. Closes(N + 1)
  <2>1. CASE Closes(N)
    BY <1>1, <2>1
  <2>2. CASE ~Closes(N)
    <3>1. Cardinality(Around(N)) >= N + 1
      BY <1>1, <1>5, <2>2
    <3> HIDE DEF N
    <3> QED BY <1>1, <1>2, <3>1
  <2> QED BY <2>1, <2>2
<1>7. PICK k \in Nat : k < N + 1 /\ Linked(Around(k)) = Around(k)
  BY <1>6
<1>8. Component = Around(N)
  BY DEF Component
<1> HIDE DEF N
<1>9. Component = Around(k)
  BY <1>1, <1>7, <1>8, AroundStays
<1>10. ASSUME NEW m \in Nat PROVE Around(m) \subseteq Component
  <2>1. CASE m <= k
    BY <1>9, <2>1, AroundGrows
  <2>2. CASE m > k
    BY <1>7, <1>9, <2>2, AroundStays
  <2> QED BY <2>1, <2>2
<1> QED BY <1>7, <1>9, <1>10

-----------------------------------------------------------------------------
(* The invariant.  The activation at level l of the recursion, the first   *)
(* being at level 0, has span - l left and follows calls of functions that *)
(* are l calls away: this keeps the search within the span.  Every level   *)
(* but the first is that of a function in result, so that a search that    *)
(* has used up a span of the size of the component has found all of it:    *)
(* nothing is cut off, and what a function found leads to is found too, or *)
(* is still to be followed.                                                *)
Frame == [depth : 0..span, callees : SUBSET Fn, callers : SUBSET Fn]

Edges(frame) == frame.callees \cup frame.callers

LevelInv ==
  \A i \in DOMAIN stack :
    /\ stack[i].depth = span - (Len(stack) - i)
    /\ Edges(stack[i]) \subseteq Around(Len(stack) - i)

CountInv == Len(stack) <= Cardinality(result) + 1

ToFollow == UNION {Edges(stack[i]) : i \in DOMAIN stack}

FoundInv ==
  span >= Cardinality(Component) =>
    Linked(result) \cup {start} \subseteq result \cup ToFollow

IInv ==
  /\ TypeOK
  /\ LevelInv
  /\ CountInv
  /\ WithinSpan
  /\ FoundInv

-----------------------------------------------------------------------------
(* Stacks                                                                  *)

LEMMA Push ==
  ASSUME NEW T, NEW s \in Seq(T), s # <<>>, NEW a \in T, NEW b \in T,
         NEW t, t = <<a, b>> \o Tail(s)
  PROVE  /\ t \in Seq(T)
         /\ Len(s) \in Nat /\ Len(t) = Len(s) + 1
         /\ DOMAIN s = 1..Len(s) /\ DOMAIN t = 1..(Len(s) + 1)
         /\ t[1] = a /\ t[2] = b
         /\ \A i \in 3..(Len(s) + 1) : t[i] = s[i - 1]
OBVIOUS

LEMMA ReplaceTop ==
  ASSUME NEW T, NEW s \in Seq(T), s # <<>>, NEW a \in T,
         NEW t, t = <<a>> \o Tail(s)
  PROVE  /\ t \in Seq(T)
         /\ Len(s) \in Nat /\ Len(t) = Len(s)
         /\ DOMAIN s = 1..Len(s) /\ DOMAIN t = 1..Len(s)
         /\ t[1] = a
         /\ \A i \in 2..Len(s) : t[i] = s[i]
OBVIOUS

LEMMA Pop ==
  ASSUME NEW T, NEW s \in Seq(T), s # <<>>, NEW t, t = Tail(s)
  PROVE  /\ t \in Seq(T)
         /\ Len(s) \in Nat \ {0} /\ Len(t) = Len(s) - 1
         /\ DOMAIN s = 1..Len(s) /\ DOMAIN t = 1..(Len(s) - 1)
         /\ \A i \in 1..(Len(s) - 1) : t[i] = s[i + 1]
OBVIOUS

LEMMA Top ==
  ASSUME NEW T, NEW s \in Seq(T), s # <<>>
  PROVE  /\ Head(s) = s[1] /\ s[1] \in T
         /\ Len(s) \in Nat \ {0} /\ DOMAIN s = 1..Len(s)
         /\ \A i \in DOMAIN s : s[i] \in T
OBVIOUS

(* The activation that has followed one of its calls.                      *)
LEMMA FollowedIs ==
  ASSUME NEW frame \in Frame, NEW f \in Following(frame)
  PROVE  /\ f \in Edges(frame)
         /\ Followed(frame, f) \in Frame
         /\ Followed(frame, f).depth = frame.depth
         /\ Edges(Followed(frame, f)) \subseteq Edges(frame)
         /\ Edges(frame) \subseteq Edges(Followed(frame, f)) \cup {f}
<1>1. CASE frame.callees # {}
  <2>1. f \in frame.callees /\ Followed(frame, f) = [frame EXCEPT !.callees = @ \ {f}]
    BY <1>1 DEF Following, Followed
  <2> QED BY <2>1 DEF Frame, Edges
<1>2. CASE frame.callees = {}
  <2>1. f \in frame.callers /\ Followed(frame, f) = [frame EXCEPT !.callers = @ \ {f}]
    BY <1>2 DEF Following, Followed
  <2> QED BY <2>1 DEF Frame, Edges
<1> QED BY <1>1, <1>2

(* The activation of a function f.                                         *)
Activation(f, depth) == [depth |-> depth, callees |-> Callees(f), callers |-> Callers(f)]

LEMMA ActivationIs ==
  ASSUME NEW f \in Fn, NEW d \in 0..span
  PROVE  /\ Activation(f, d) \in Frame
         /\ Activation(f, d).depth = d
         /\ Edges(Activation(f, d)) = Callees(f) \cup Callers(f)
         /\ Linked({f}) = {f} \cup Edges(Activation(f, d))
BY DEF Activation, Frame, Edges, Callees, Callers, Linked

LEMMA AroundSame ==
  ASSUME calls' = calls, start' = start
  PROVE  /\ \A k \in Nat : Around(k)' = Around(k)
         /\ Component' = Component
         /\ \A S \in SUBSET Fn : Linked(S)' = Linked(S)
BY DEF Around, Component, Linked

-----------------------------------------------------------------------------
(* The invariant holds initially and at every step.                        *)

LEMMA InitInv ==
  ASSUME Init
  PROVE  IInv
<1> DEFINE bottom == [depth |-> span, callees |-> {start}, callers |-> {}]
<1>1. MaxSpan \in Nat /\ start \in Fn /\ span \in 0..MaxSpan /\ span \in 0..span
  BY CallSpanAssumption DEF Init
<1>2. bottom \in Frame /\ bottom.depth = span /\ Edges(bottom) = {start}
  BY <1>1 DEF Frame, Edges
<1>3. stack = <<bottom>>
  BY DEF Init
<1> HIDE DEF bottom
<1>4. /\ stack \in Seq(Frame) /\ Len(stack) = 1 /\ DOMAIN stack = {1}
      /\ stack[1] = bottom
  BY <1>2, <1>3
<1>5. TypeOK
  BY <1>1, <1>4, CallSpanAssumption DEF TypeOK, Init, Frame
<1>6. LevelInv
  BY <1>1, <1>2, <1>4, AroundZero DEF LevelInv
<1>7. result = {}
  BY DEF Init
<1>8. CountInv
  BY <1>4, <1>7, FS_EmptySet DEF CountInv
<1>9. WithinSpan
  BY <1>7 DEF WithinSpan
<1>10. Linked(result) = {} /\ start \in ToFollow
  BY <1>2, <1>4, <1>7 DEF Linked, ToFollow
<1>11. FoundInv
  BY <1>10 DEF FoundInv
<1> QED BY <1>5, <1>6, <1>8, <1>9, <1>11 DEF IInv

(* What every action that looks at the innermost activation reads.         *)
LEMMA TopIs ==
  ASSUME IInv, stack # <<>>
  PROVE  /\ Head(stack) = stack[1] /\ stack[1] \in Frame
         /\ stack \in Seq(Frame)
         /\ Len(stack) \in Nat \ {0} /\ DOMAIN stack = 1..Len(stack)
         /\ span \in Nat /\ start \in Fn
         /\ stack[1].depth = span - (Len(stack) - 1)
         /\ stack[1].depth \in 0..span
         /\ Edges(stack[1]) \subseteq Around(Len(stack) - 1)
         /\ Edges(stack[1]) \subseteq Fn
<1>1. stack \in Seq(Frame)
  BY DEF IInv, TypeOK, Frame
<1>2. span \in Nat /\ start \in Fn
  BY CallSpanAssumption DEF IInv, TypeOK
<1>3. /\ Head(stack) = stack[1] /\ stack[1] \in Frame
      /\ Len(stack) \in Nat \ {0} /\ DOMAIN stack = 1..Len(stack)
  BY <1>1, Top
<1>4. 1 \in DOMAIN stack
  BY <1>3
<1>5. stack[1].depth = span - (Len(stack) - 1) /\ Edges(stack[1]) \subseteq Around(Len(stack) - 1)
  BY <1>4 DEF IInv, LevelInv
<1>6. stack[1].depth \in 0..span /\ Edges(stack[1]) \subseteq Fn
  BY <1>3 DEF Frame, Edges
<1> QED BY <1>1, <1>2, <1>3, <1>5, <1>6

LEMMA ResultIs ==
  ASSUME IInv
  PROVE  /\ IsFiniteSet(result) /\ Cardinality(result) \in Nat
         /\ IsFiniteSet(Component) /\ Cardinality(Component) \in Nat
         /\ result \subseteq Component
         /\ Cardinality(result) <= Cardinality(Component)
         /\ Cardinality(result) = Cardinality(Component) => result = Component
<1>1. start \in Fn /\ result \subseteq Fn /\ span \in Nat
  BY CallSpanAssumption DEF IInv, TypeOK
<1>2. Cardinality(Fn) \in Nat /\ IsFiniteSet(Fn)
  BY CallSpanAssumption, FS_CardinalityType
<1>3. Component \subseteq Fn
  BY <1>1, <1>2, AroundIsFn DEF Component
<1>4. IsFiniteSet(result) /\ IsFiniteSet(Component)
  BY <1>1, <1>2, <1>3, FS_Subset
<1>5. result \subseteq Component
  <2>1. CASE span = 0
    BY <2>1 DEF IInv, WithinSpan
  <2>2. CASE span # 0
    <3>1. span - 1 \in Nat /\ result \subseteq Around(span - 1)
      BY <1>1, <2>2 DEF IInv, WithinSpan
    <3> QED BY <1>1, <3>1, ComponentClosed
  <2> QED BY <2>1, <2>2
<1> QED BY <1>4, <1>5, FS_Subset, FS_CardinalityType

LEMMA EnterInv ==
  ASSUME IInv, NEW f \in Fn, Enter(f)
  PROVE  IInv'
<1> DEFINE top == stack[1]
           L == Len(stack)
           frame == Activation(f, top.depth - 1)
           rest == Followed(top, f)
<1>1. stack # <<>> /\ f \in Following(top) /\ top.depth > 0 /\ f \notin result
  BY TopIs DEF Enter
<1>2. /\ UNCHANGED <<calls, start, span>>
      /\ result' = result \cup {f}
      /\ stack' = <<frame, rest>> \o Tail(stack)
  BY TopIs DEF Enter, Activation
<1>3. /\ top \in Frame /\ stack \in Seq(Frame) /\ L \in Nat \ {0} /\ DOMAIN stack = 1..L
      /\ span \in Nat /\ start \in Fn
      /\ top.depth = span - (L - 1) /\ top.depth \in 0..span
      /\ Edges(top) \subseteq Around(L - 1)
  BY <1>1, TopIs
<1>4. /\ f \in Edges(top) /\ rest \in Frame /\ rest.depth = top.depth
      /\ Edges(rest) \subseteq Edges(top) /\ Edges(top) \subseteq Edges(rest) \cup {f}
  BY <1>1, <1>3, FollowedIs
<1>5. top.depth - 1 \in 0..span
  BY <1>1, <1>3
<1>6. /\ frame \in Frame /\ frame.depth = top.depth - 1
      /\ Linked({f}) = {f} \cup Edges(frame)
  BY <1>5, ActivationIs
<1>7. /\ stack' \in Seq(Frame) /\ Len(stack') = L + 1
      /\ DOMAIN stack' = 1..(L + 1)
      /\ stack'[1] = frame /\ stack'[2] = rest
      /\ \A i \in 3..(L + 1) : stack'[i] = stack[i - 1]
  BY <1>1, <1>2, <1>3, <1>4, <1>6, Push
<1>8. /\ \A k \in Nat : Around(k)' = Around(k)
      /\ Component' = Component
      /\ \A S \in SUBSET Fn : Linked(S)' = Linked(S)
  BY <1>2, AroundSame
<1>9. L - 1 \in Nat /\ f \in Around(L - 1)
  BY <1>3, <1>4
<1> HIDE DEF top, L, frame, rest
<1>10. TypeOK'
  <2>1. Frame' = Frame
    BY <1>2 DEF Frame
  <2>2. stack' \in Seq(Frame')
    BY <1>7, <2>1
  <2> QED BY <1>2, <2>2 DEF IInv, TypeOK, Frame
<1>11. LevelInv'
  <2> SUFFICES ASSUME NEW i \in 1..(L + 1)
               PROVE  /\ stack'[i].depth = span - ((L + 1) - i)
                      /\ Edges(stack'[i]) \subseteq Around((L + 1) - i)
    <3>1. \A i \in 1..(L + 1) : (L + 1) - i \in Nat
      BY <1>3
    <3> QED BY <1>2, <1>7, <1>8, <3>1 DEF LevelInv, Edges
  <2>1. CASE i = 1
    <3>1. Linked({f}) \subseteq Linked(Around(L - 1))
      BY <1>9 DEF Linked
    <3>2. Linked(Around(L - 1)) = Around((L - 1) + 1)
      BY <1>9, AroundNext
    <3>3. (L - 1) + 1 = L /\ (L + 1) - i = L
      BY <1>3, <2>1
    <3>4. Edges(stack'[i]) \subseteq Around((L + 1) - i)
      BY <1>6, <1>7, <2>1, <3>1, <3>2, <3>3
    <3>5. stack'[i].depth = span - ((L + 1) - i)
      BY <1>3, <1>6, <1>7, <2>1, <3>3
    <3> QED BY <3>4, <3>5
  <2>2. CASE i = 2
    <3>1. (L + 1) - i = L - 1
      BY <1>3, <2>2
    <3> QED BY <1>3, <1>4, <1>7, <2>2, <3>1
  <2>3. CASE i \in 3..(L + 1)
    <3>1. i - 1 \in 1..L /\ (L + 1) - i = L - (i - 1)
      BY <1>3, <2>3
    <3>2. stack[i - 1].depth = span - (L - (i - 1)) /\ Edges(stack[i - 1]) \subseteq Around(L - (i - 1))
      BY <1>3, <3>1 DEF IInv, LevelInv, L
    <3> QED BY <1>7, <2>3, <3>1, <3>2
  <2>4. i = 1 \/ i = 2 \/ i \in 3..(L + 1)
    BY <1>3
  <2> QED BY <2>1, <2>2, <2>3, <2>4
<1>12. CountInv'
  <2>1. Cardinality(result') = Cardinality(result) + 1 /\ Cardinality(result) \in Nat
    BY <1>1, <1>2, ResultIs, FS_AddElement
  <2>2. L <= Cardinality(result) + 1
    BY DEF IInv, CountInv, L
  <2>3. Len(stack') <= Cardinality(result') + 1
    BY <1>3, <1>7, <2>1, <2>2
  <2> QED BY <2>3 DEF CountInv
<1>13. WithinSpan'
  <2>1. span # 0 /\ span - 1 \in Nat /\ L - 1 <= span - 1
    BY <1>1, <1>3
  <2>2. f \in Around(span - 1)
    BY <1>9, <2>1, AroundGrows
  <2>3. result' \subseteq Around(span - 1)
    BY <1>2, <2>1, <2>2 DEF IInv, WithinSpan
  <2> QED BY <1>2, <1>8, <2>1, <2>3 DEF WithinSpan
<1>14. FoundInv'
  <2> SUFFICES ASSUME span >= Cardinality(Component)
               PROVE  Linked(result') \cup {start} \subseteq result' \cup ToFollow'
    <3>1. result' \subseteq Fn
      BY <1>2 DEF IInv, TypeOK
    <3>2. Linked(result)' = Linked(result')
      BY <1>2 DEF Linked
    <3> QED BY <1>2, <1>8, <3>2 DEF FoundInv
  <2>1. Linked(result) \cup {start} \subseteq result \cup ToFollow
    BY DEF IInv, FoundInv
  <2>2. Linked(result') = Linked(result) \cup Linked({f})
    BY <1>2 DEF Linked
  <2>3. Edges(frame) \subseteq ToFollow' /\ Edges(rest) \subseteq ToFollow'
    BY <1>3, <1>7 DEF ToFollow, Edges
  <2>4. ASSUME NEW i \in DOMAIN stack
        PROVE  Edges(stack[i]) \subseteq ToFollow' \cup {f}
    <3>1. CASE i = 1
      BY <1>4, <2>3, <3>1 DEF top
    <3>2. CASE i # 1
      <4>1. i + 1 \in 3..(L + 1) /\ i + 1 \in DOMAIN stack' /\ (i + 1) - 1 = i
        BY <1>3, <1>7, <3>2
      <4>2. stack'[i + 1] = stack[i]
        BY <1>7, <4>1
      <4> QED BY <4>1, <4>2 DEF ToFollow, Edges
    <3> QED BY <3>1, <3>2
  <2>5. ToFollow \subseteq ToFollow' \cup {f}
    BY <2>4 DEF ToFollow
  <2> QED BY <1>2, <1>6, <2>1, <2>2, <2>3, <2>5
<1> QED BY <1>10, <1>11, <1>12, <1>13, <1>14 DEF IInv

(* A function skipped for want of depth would be one more than the span    *)
(* functions found: with a span of the size of the component there is none.*)
LEMMA SkippedIsFound ==
  ASSUME IInv, NEW f \in Fn, Skip(f), span >= Cardinality(Component)
  PROVE  f \in result
<1> SUFFICES ASSUME stack[1].depth = 0 PROVE f \in result
  BY TopIs DEF Skip
<1>1. /\ stack[1].depth = span - (Len(stack) - 1)
      /\ Edges(stack[1]) \subseteq Around(Len(stack) - 1)
      /\ Len(stack) \in Nat \ {0} /\ span \in Nat /\ start \in Fn
      /\ stack[1] \in Frame /\ f \in Following(stack[1])
  BY TopIs DEF Skip
<1>2. Len(stack) <= Cardinality(result) + 1
  BY DEF IInv, CountInv
<1>3. result = Component
  BY <1>1, <1>2, ResultIs
<1>4. Len(stack) - 1 \in Nat /\ f \in Around(Len(stack) - 1)
  BY <1>1, FollowedIs
<1>5. f \in Component
  BY <1>1, <1>4, ComponentClosed
<1> QED BY <1>3, <1>5

LEMMA SkipInv ==
  ASSUME IInv, NEW f \in Fn, Skip(f)
  PROVE  IInv'
<1> DEFINE top == stack[1]
           L == Len(stack)
           rest == Followed(top, f)
<1>1. stack # <<>> /\ f \in Following(top)
  BY TopIs DEF Skip
<1>2. UNCHANGED <<calls, start, span, result>> /\ stack' = <<rest>> \o Tail(stack)
  BY TopIs DEF Skip
<1>3. /\ top \in Frame /\ stack \in Seq(Frame) /\ L \in Nat \ {0} /\ DOMAIN stack = 1..L
      /\ span \in Nat /\ start \in Fn
      /\ top.depth = span - (L - 1)
      /\ Edges(top) \subseteq Around(L - 1)
  BY <1>1, TopIs
<1>4. /\ rest \in Frame /\ rest.depth = top.depth
      /\ Edges(rest) \subseteq Edges(top) /\ Edges(top) \subseteq Edges(rest) \cup {f}
  BY <1>1, <1>3, FollowedIs
<1>5. /\ stack' \in Seq(Frame) /\ Len(stack') = L /\ DOMAIN stack' = 1..L
      /\ stack'[1] = rest
      /\ \A i \in 2..L : stack'[i] = stack[i]
  BY <1>1, <1>2, <1>3, <1>4, ReplaceTop
<1>6. /\ \A k \in Nat : Around(k)' = Around(k)
      /\ Component' = Component
      /\ \A S \in SUBSET Fn : Linked(S)' = Linked(S)
  BY <1>2, AroundSame
<1>7. span >= Cardinality(Component) => f \in result
  BY SkippedIsFound
<1> HIDE DEF top, L, rest
<1>8. TypeOK'
  <2>1. Frame' = Frame
    BY <1>2 DEF Frame
  <2>2. stack' \in Seq(Frame')
    BY <1>5, <2>1
  <2> QED BY <1>2, <2>2 DEF IInv, TypeOK, Frame
<1>9. LevelInv'
  <2> SUFFICES ASSUME NEW i \in 1..L
               PROVE  /\ stack'[i].depth = span - (L - i)
                      /\ Edges(stack'[i]) \subseteq Around(L - i)
    <3>1. \A i \in 1..L : L - i \in Nat
      BY <1>3
    <3> QED BY <1>2, <1>5, <1>6, <3>1 DEF LevelInv, Edges
  <2>1. CASE i = 1
    BY <1>3, <1>4, <1>5, <2>1
  <2>2. CASE i # 1
    <3>1. i \in 2..L
      BY <1>3, <2>2
    <3>2. stack[i].depth = span - (L - i) /\ Edges(stack[i]) \subseteq Around(L - i)
      BY <1>3 DEF IInv, LevelInv, L
    <3> QED BY <1>5, <3>1, <3>2
  <2> QED BY <2>1, <2>2
<1>10. CountInv'
  BY <1>2, <1>5 DEF IInv, CountInv, L
<1>11. WithinSpan'
  <2>1. CASE span = 0
    BY <1>2, <2>1 DEF IInv, WithinSpan
  <2>2. CASE span # 0
    <3>1. span - 1 \in Nat
      BY <1>3, <2>2
    <3> QED BY <1>2, <1>6, <2>2, <3>1 DEF IInv, WithinSpan
  <2> QED BY <2>1, <2>2
<1>12. FoundInv'
  <2> SUFFICES ASSUME span >= Cardinality(Component)
               PROVE  Linked(result) \cup {start} \subseteq result \cup ToFollow'
    <3>1. result \subseteq Fn
      BY DEF IInv, TypeOK
    <3>2. Linked(result)' = Linked(result)
      BY <1>2 DEF Linked
    <3> QED BY <1>2, <1>6, <3>2 DEF FoundInv
  <2>1. Linked(result) \cup {start} \subseteq result \cup ToFollow
    BY DEF IInv, FoundInv
  <2>2. ASSUME NEW i \in DOMAIN stack
        PROVE  Edges(stack[i]) \subseteq ToFollow' \cup {f}
    <3>1. CASE i = 1
      <4>1. Edges(rest) \subseteq ToFollow'
        BY <1>3, <1>5 DEF ToFollow, Edges
      <4> QED BY <1>4, <3>1, <4>1 DEF top
    <3>2. CASE i # 1
      <4>1. i \in 2..L /\ i \in DOMAIN stack'
        BY <1>3, <1>5, <3>2
      <4>2. stack'[i] = stack[i]
        BY <1>5, <4>1
      <4> QED BY <4>1, <4>2 DEF ToFollow, Edges
    <3> QED BY <3>1, <3>2
  <2>3. ToFollow \subseteq ToFollow' \cup {f}
    BY <2>2 DEF ToFollow
  <2> QED BY <1>7, <2>1, <2>3
<1> QED BY <1>8, <1>9, <1>10, <1>11, <1>12 DEF IInv

LEMMA ReturnInv ==
  ASSUME IInv, Return
  PROVE  IInv'
<1> DEFINE L == Len(stack)
<1>1. stack # <<>> /\ Following(stack[1]) = {}
  BY TopIs DEF Return
<1>2. UNCHANGED <<calls, start, span, result>> /\ stack' = Tail(stack)
  BY DEF Return
<1>3. /\ stack \in Seq(Frame) /\ L \in Nat \ {0} /\ DOMAIN stack = 1..L
      /\ span \in Nat /\ start \in Fn
  BY <1>1, TopIs
<1>4. /\ stack' \in Seq(Frame) /\ Len(stack') = L - 1 /\ DOMAIN stack' = 1..(L - 1)
      /\ \A i \in 1..(L - 1) : stack'[i] = stack[i + 1]
  BY <1>1, <1>2, <1>3, Pop
<1>5. Edges(stack[1]) = {}
  BY <1>1 DEF Following, Edges
<1>6. /\ \A k \in Nat : Around(k)' = Around(k)
      /\ Component' = Component
  BY <1>2, AroundSame
<1> HIDE DEF L
<1>7. TypeOK'
  <2>1. Frame' = Frame
    BY <1>2 DEF Frame
  <2>2. stack' \in Seq(Frame')
    BY <1>4, <2>1
  <2> QED BY <1>2, <2>2 DEF IInv, TypeOK, Frame
<1>8. LevelInv'
  <2> SUFFICES ASSUME NEW i \in 1..(L - 1)
               PROVE  /\ stack'[i].depth = span - ((L - 1) - i)
                      /\ Edges(stack'[i]) \subseteq Around((L - 1) - i)
    <3>1. \A i \in 1..(L - 1) : (L - 1) - i \in Nat
      BY <1>3
    <3> QED BY <1>2, <1>4, <1>6, <3>1 DEF LevelInv, Edges
  <2>1. i + 1 \in DOMAIN stack /\ L - (i + 1) = (L - 1) - i
    BY <1>3
  <2>2. stack[i + 1].depth = span - (L - (i + 1)) /\ Edges(stack[i + 1]) \subseteq Around(L - (i + 1))
    BY <2>1 DEF IInv, LevelInv, L
  <2> QED BY <1>4, <2>1, <2>2
<1>9. CountInv'
  <2>1. Cardinality(result) \in Nat /\ L <= Cardinality(result) + 1
    BY ResultIs DEF IInv, CountInv, L
  <2>2. L - 1 <= Cardinality(result) + 1
    BY <1>3, <2>1
  <2> QED BY <1>2, <1>4, <2>2 DEF CountInv
<1>10. WithinSpan'
  <2>1. CASE span = 0
    BY <1>2, <2>1 DEF IInv, WithinSpan
  <2>2. CASE span # 0
    <3>1. span - 1 \in Nat
      BY <1>3, <2>2
    <3> QED BY <1>2, <1>6, <2>2, <3>1 DEF IInv, WithinSpan
  <2> QED BY <2>1, <2>2
<1>11. FoundInv'
  <2>1. ASSUME NEW i \in DOMAIN stack
        PROVE  Edges(stack[i]) \subseteq ToFollow'
    <3>1. CASE i = 1
      BY <1>5, <3>1
    <3>2. CASE i # 1
      <4>1. i - 1 \in 1..(L - 1) /\ (i - 1) + 1 = i
        BY <1>3, <3>2
      <4>2. stack'[i - 1] = stack[i] /\ i - 1 \in DOMAIN stack'
        BY <1>4, <4>1
      <4> QED BY <4>2 DEF ToFollow, Edges
    <3> QED BY <3>1, <3>2
  <2>2. ToFollow \subseteq ToFollow'
    BY <2>1 DEF ToFollow
  <2>3. Linked(result)' = Linked(result)
    BY <1>2 DEF Linked
  <2> QED BY <1>2, <1>6, <2>2, <2>3 DEF IInv, FoundInv
<1> QED BY <1>7, <1>8, <1>9, <1>10, <1>11 DEF IInv

LEMMA StepInv ==
  ASSUME IInv, [Next]_vars
  PROVE  IInv'
<1>1. CASE Return
  BY <1>1, ReturnInv
<1>2. CASE \E f \in Fn : Enter(f)
  BY <1>2, EnterInv
<1>3. CASE \E f \in Fn : Skip(f)
  BY <1>3, SkipInv
<1>4. CASE UNCHANGED vars
  <2>1. UNCHANGED <<calls, start, span, stack, result>>
    BY <1>4 DEF vars
  <2>2. /\ \A k \in Nat : Around(k)' = Around(k)
        /\ Component' = Component
    BY <2>1, AroundSame
  <2>3. TypeOK' /\ CountInv'
    BY <2>1 DEF IInv, TypeOK, CountInv
  <2>4. LevelInv'
    <3>1. \A i \in DOMAIN stack : Len(stack) - i \in Nat
      <4>1. stack \in Seq(Frame)
        BY DEF IInv, TypeOK, Frame
      <4> QED BY <4>1
    <3> QED BY <2>1, <2>2, <3>1 DEF IInv, LevelInv, Edges
  <2>5. WithinSpan'
    <3>1. span = 0 \/ span - 1 \in Nat
      BY CallSpanAssumption DEF IInv, TypeOK
    <3> QED BY <2>1, <2>2, <3>1 DEF IInv, WithinSpan
  <2>6. FoundInv'
    <3>1. Linked(result)' = Linked(result) /\ ToFollow' = ToFollow
      BY <2>1 DEF Linked, ToFollow, Edges
    <3> QED BY <2>1, <2>2, <3>1 DEF IInv, FoundInv
  <2> QED BY <2>3, <2>4, <2>5, <2>6 DEF IInv
<1> QED BY <1>1, <1>2, <1>3, <1>4 DEF Next

LEMMA Invariant == Spec => []IInv
BY InitInv, StepInv, PTL DEF Spec

(* The depth of an activation never wraps around: it stays between 0 and   *)
(* the span.                                                               *)
THEOREM Typing == Spec => []TypeOK
<1>1. IInv => TypeOK
  BY DEF IInv
<1> QED BY <1>1, Invariant, PTL

(* No function is reached that is span calls away or more, in whatever     *)
(* order boundedReachableFunctions follows the edges.                      *)
THEOREM NeverBeyondSpan == Spec => []WithinSpan
<1>1. IInv => WithinSpan
  BY DEF IInv
<1> QED BY <1>1, Invariant, PTL

(* A span of at least as many calls as there are connected functions       *)
(* reaches all of them, although the map result that marks what was        *)
(* visited does not say with how much depth left.                          *)
THEOREM LargeSpansSuffice == Spec => []LargeSpanReachesAll
<1>1. ASSUME IInv PROVE LargeSpanReachesAll
  <2> SUFFICES ASSUME Done, span >= Cardinality(Component)
               PROVE  result = Component
    BY DEF LargeSpanReachesAll
  <2>1. ToFollow = {}
    BY DEF Done, ToFollow
  <2>2. Linked(result) \subseteq result /\ start \in result
    BY <1>1, <2>1 DEF IInv, FoundInv
  <2> DEFINE S == {n \in Nat : Around(n) \subseteq result}
  <2>3. 0 \in S
    BY <2>2, AroundZero
  <2>4. ASSUME NEW n \in S PROVE n + 1 \in S
    <3>1. Around(n + 1) = Linked(Around(n))
      BY AroundNext
    <3>2. Linked(Around(n)) \subseteq Linked(result)
      BY DEF Linked
    <3> QED BY <2>2, <3>1, <3>2
  <2>5. S = Nat
    <3> HIDE DEF S
    <3> QED BY <2>3, <2>4, Induction DEF S
  <2>6. Cardinality(Fn) \in Nat
    BY CallSpanAssumption, FS_CardinalityType
  <2>7. Component \subseteq result
    BY <2>5, <2>6 DEF Component
  <2> QED BY <1>1, <2>7, ResultIs
<1> QED BY <1>1, Invariant, PTL
=============================================================================
