----------------------------- MODULE RestProofs -----------------------------
(***************************************************************************)
(* Proofs about the REST side.  First, the requests of RestRequest, for    *)
(* any number of retries and any set of statuses to retry on, made by the  *)
(* iterator and by the application.  Then what RestResources generates,    *)
(* for any documents its assumptions admit: the classes, their sidecar and *)
(* the tree of accessors, and what a call of a generated method sends.     *)
(***************************************************************************)
EXTENDS RestPagination, RestResources, StackLemmas, FiniteSetTheorems, WellFoundedInduction

-----------------------------------------------------------------------------
(* Each step of a request keeps the invariant.                             *)

LEMMA InitOK == RequestInit => RequestInv
<1> SUFFICES ASSUME RequestInit PROVE RequestInv
  OBVIOUS
<1> USE RestOptions DEF RequestInit
<1>1. RequestTypeOK
  <2>1. 0 \in 0..(Retries + 1)
    OBVIOUS
  <2>2. aborted \in BOOLEAN /\ phase \in {"idle", "loop", "sent", "answered"}
    OBVIOUS
  <2> QED
    BY <2>1, <2>2 DEF RequestTypeOK, Methods
<1>2. AttemptsCounted /\ AnswerStands /\ RoundsAreSafe
  BY DEF AttemptsCounted, AnswerStands, RoundsAreSafe
<1>3. OutcomeTruthful /\ OnlyLossReplays
  BY DEF OutcomeTruthful, OnlyLossReplays
<1> QED
  BY <1>1, <1>2, <1>3 DEF RequestInv

LEMMA BeginOK ==
  ASSUME RequestInv, NEW m \in Methods, Begin(m)
  PROVE  RequestInv'
BY RestOptions DEF Begin, RequestInv, RequestTypeOK, AttemptsCounted, AnswerStands,
   RoundsAreSafe, OutcomeTruthful, OnlyLossReplays

LEMMA AttemptOK ==
  ASSUME RequestInv, Attempt
  PROVE  RequestInv'
<1> USE RestOptions DEF Attempt, End, RequestInv, RequestTypeOK
<1>1. RequestTypeOK' /\ AttemptsCounted' /\ AnswerStands'
  BY DEF AttemptsCounted, AnswerStands
<1>2. RoundsAreSafe' /\ OnlyLossReplays'
  BY DEF RoundsAreSafe, OnlyLossReplays
<1>3. OutcomeTruthful'
  BY DEF OutcomeTruthful
<1> QED
  BY <1>1, <1>2, <1>3

\* An attempt that is answered: what the server may have done by then.
LEMMA RespondOK ==
  ASSUME RequestInv, NEW s \in Statuses, Respond(s)
  PROVE  RequestInv'
<1> USE RestOptions DEF Respond, RequestInv, RequestTypeOK
<1>1. /\ applied' \in {applied, applied + 1} /\ lost' \in {lost, lost + 1}
      /\ s = 200 => applied' = applied + 1
      /\ s = 429 => applied' = applied
      /\ s = 599 => lost' = lost + 1
      /\ lost' >= lost
  BY DEF Statuses
<1>2. applied < attempt /\ lost < attempt /\ attempt <= Retries + 1
  BY DEF AttemptsCounted
<1>3. RequestTypeOK' /\ AttemptsCounted' /\ AnswerStands'
  BY <1>1, <1>2 DEF AttemptsCounted, AnswerStands, Statuses
<1>4. RoundsAreSafe' /\ OnlyLossReplays'
  BY <1>1, <1>2 DEF RoundsAreSafe, OnlyLossReplays
<1>5. OutcomeTruthful'
  BY DEF OutcomeTruthful
<1> QED
  BY <1>3, <1>4, <1>5

\* A method that is not idempotent goes round only after a status that
\* leaves nothing behind, or a loss.
LEMMA RoundAgain ==
  ASSUME RequestInv, phase = "answered", Retryable
  PROVE  attempt <= Retries /\ (method \notin Idempotent => applied <= lost)
<1>1. attempt <= Retries /\ (response = 599 \/ StatusIsRetryable(method, response))
  BY DEF Retryable
<1>2. response \in Statuses
  BY DEF RequestInv, AnswerStands
<1>3. method \notin Idempotent => response \in {429, 599}
  BY <1>1, <1>2 DEF StatusIsRetryable, Statuses
<1> QED
  BY <1>1, <1>3 DEF RequestInv, RoundsAreSafe

LEMMA ConcludeOK ==
  ASSUME RequestInv, Conclude
  PROVE  RequestInv'
<1> USE RestOptions DEF RequestInv, RequestTypeOK
<1>1. /\ phase = "answered" /\ UNCHANGED <<method, attempt, response, aborted, applied, lost>>
      /\ response \in Statuses /\ (response = 200 => applied > 0) /\ attempt >= 1
  BY DEF Conclude, AnswerStands, AttemptsCounted
<1>2. CASE response = 200
  <2>1. phase' = "idle" /\ outcome' = "result"
    BY <1>2 DEF Conclude, End
  <2> QED
    BY <1>1, <1>2, <2>1 DEF AttemptsCounted, AnswerStands, RoundsAreSafe, OutcomeTruthful,
       OnlyLossReplays
<1>3. CASE response # 200 /\ Retryable
  <2>1. phase' = "loop" /\ outcome' = outcome
    BY <1>3 DEF Conclude
  <2>2. attempt <= Retries /\ (method \notin Idempotent => applied <= lost)
    BY <1>1, <1>3, RoundAgain
  <2> QED
    BY <1>1, <2>1, <2>2 DEF AttemptsCounted, AnswerStands, RoundsAreSafe, OutcomeTruthful,
       OnlyLossReplays
<1>4. CASE response # 200 /\ ~Retryable
  <2>1. phase' = "idle" /\ outcome' = IF response = 599 THEN "transport" ELSE "error"
    BY <1>4 DEF Conclude, End
  <2>2. response = 599 \/ StatusIsRetryable(method, response) => attempt = Retries + 1
    BY <1>1, <1>4 DEF Retryable
  <2>3. StatusIsRetryable(method, response)' <=> StatusIsRetryable(method, response)
    BY <1>1 DEF StatusIsRetryable
  <2>4. OutcomeTruthful'
    BY <1>1, <1>4, <2>1, <2>2, <2>3 DEF OutcomeTruthful
  <2> QED
    BY <1>1, <2>1, <2>4 DEF AttemptsCounted, AnswerStands, RoundsAreSafe, OnlyLossReplays
<1> QED
  BY <1>2, <1>3, <1>4

LEMMA SameOK ==
  ASSUME RequestInv, UNCHANGED request \/ Abort
  PROVE  RequestInv'
<1>1. /\ UNCHANGED <<phase, method, attempt, response, outcome, applied, lost>>
      /\ aborted' \in BOOLEAN /\ (aborted => aborted')
  BY DEF request, Abort, RequestInv, RequestTypeOK
<1>2. RequestTypeOK' /\ AttemptsCounted' /\ AnswerStands' /\ RoundsAreSafe' /\ OnlyLossReplays'
  BY <1>1 DEF RequestInv, RequestTypeOK, AttemptsCounted, AnswerStands, RoundsAreSafe,
     OnlyLossReplays
<1>3. StatusIsRetryable(method, response)' <=> StatusIsRetryable(method, response)
  BY <1>1 DEF StatusIsRetryable
<1>4. OutcomeTruthful'
  BY <1>1, <1>3 DEF RequestInv, OutcomeTruthful
<1> QED
  BY <1>2, <1>4 DEF RequestInv

-----------------------------------------------------------------------------
(* The whole of iterator, application and server.                          *)

LEMMA InvStep == RequestInv /\ [Next]_vars => RequestInv'
<1> SUFFICES ASSUME RequestInv, [Next]_vars PROVE RequestInv'
  OBVIOUS
<1>1. CASE NextFetches \/ AppRequest
  <2>1. \E m \in Methods : Begin(m)
    BY <1>1 DEF NextFetches, AppRequest, Methods
  <2> QED
    BY <2>1, BeginOK
<1>2. CASE RequestStep
  BY <1>2, AttemptOK, ConcludeOK, RespondOK DEF RequestStep
<1>3. CASE \/ NextItem \/ NextEnds \/ FetchReturns \/ FetchDies \/ AppReturns \/ Abort
           \/ UNCHANGED vars
  <2>1. UNCHANGED request \/ Abort
    BY <1>3 DEF NextItem, NextEnds, FetchReturns, FetchDies, AppReturns, vars
  <2> QED
    BY <2>1, SameOK
<1> QED
  BY <1>1, <1>2, <1>3 DEF Next, IteratorStep

(* In every state the request under way satisfies its invariant.           *)
THEOREM RequestCorrect == Spec => []RequestInv
<1>1. Init => RequestInv
  BY InitOK DEF Init
<1> QED
  BY <1>1, InvStep, PTL DEF Spec

(* Whatever the retry settings are, the caller of a request is told what   *)
(* its last response said, and an error only when no attempt was left that *)
(* the settings allow.                                                     *)
THEOREM OutcomeCorrect == Spec => []OutcomeTruthful
<1>1. RequestInv => OutcomeTruthful
  BY DEF RequestInv
<1> QED
  BY <1>1, RequestCorrect, PTL

(* For any retry settings, a POST or PATCH acts at most once more than     *)
(* responses to it were lost.                                              *)
THEOREM ReplayCorrect == Spec => []OnlyLossReplays
<1>1. RequestInv => OnlyLossReplays
  BY DEF RequestInv
<1> QED
  BY <1>1, RequestCorrect, PTL

-----------------------------------------------------------------------------
(* The walk: recursive functions over the pages of a book.                 *)

(* Induction, for a set of numbers.                                        *)
LEMMA NumbersBelow ==
  ASSUME NEW T, 0 \in T, \A n \in T : n \in Nat => n + 1 \in T
  PROVE  Nat \subseteq T
<1> SUFFICES ASSUME Nat \ T # {} PROVE FALSE
  OBVIOUS
<1> DEFINE U == Nat \ T
<1>1. PICK x \in U : \A y \in U : ~(<<y, x>> \in OpToRel(<, Nat))
  <2>1. U \subseteq Nat /\ U # {}
    OBVIOUS
  <2> HIDE DEF U
  <2> QED
    BY <2>1, NatLessThanWellFounded, WFMin
<1>2. x \in Nat \ {0} /\ x - 1 \in Nat /\ (x - 1) + 1 = x /\ x - 1 < x
  OBVIOUS
<1>3. x - 1 \notin U
  BY <1>1, <1>2 DEF OpToRel
<1> QED
  BY <1>2, <1>3

(* What follows in the chain the pages C[1..(n-1)].                        *)
Link(b, C, n) == IF n = 1 THEN 1
                 ELSE IF C[n - 1] = 0 \/ b[C[n - 1]].next \in {C[k] : k \in 2..(n - 1)} THEN 0
                      ELSE b[C[n - 1]].next

LEMMA LinkLocal ==
  ASSUME NEW b, NEW n \in Nat \ {0}, NEW C, NEW D, \A k \in 1..(n - 1) : C[k] = D[k]
  PROVE  Link(b, C, n) = Link(b, D, n)
<1>1. CASE n = 1
  BY <1>1 DEF Link
<1>2. CASE n # 1
  <2>1. n - 1 \in 1..(n - 1) /\ \A k \in 2..(n - 1) : C[k] = D[k]
    BY <1>2
  <2>2. {C[k] : k \in 2..(n - 1)} = {D[k] : k \in 2..(n - 1)}
    BY <2>1
  <2> QED
    BY <1>2, <2>1, <2>2 DEF Link
<1> QED
  BY <1>1, <1>2

LEMMA ChainExists ==
  ASSUME NEW b
  PROVE  \A m \in Nat : \E C : C = [n \in 1..m |-> Link(b, C, n)]
<1> DEFINE T == {m \in Nat : \E C : C = [n \in 1..m |-> Link(b, C, n)]}
<1>1. 0 \in T
  <2>1. \A C : [n \in 1..0 |-> Link(b, C, n)] = <<>>
    OBVIOUS
  <2> QED
    BY <2>1
<1>2. ASSUME NEW m \in T PROVE m + 1 \in T
  <2>1. PICK C : C = [n \in 1..m |-> Link(b, C, n)]
    OBVIOUS
  <2> DEFINE D == [n \in 1..(m + 1) |-> IF n = m + 1 THEN Link(b, C, m + 1) ELSE C[n]]
  <2>2. \A k \in 1..m : D[k] = C[k]
    OBVIOUS
  <2>3. ASSUME NEW n \in 1..(m + 1) PROVE D[n] = Link(b, D, n)
    <3>1. Link(b, C, n) = Link(b, D, n)
      <4>1. n \in Nat \ {0} /\ \A k \in 1..(n - 1) : k \in 1..m
        OBVIOUS
      <4>2. \A k \in 1..(n - 1) : C[k] = D[k]
        BY <2>2, <4>1
      <4> HIDE DEF D
      <4> QED
        BY <4>1, <4>2, LinkLocal
    <3>2. D[n] = Link(b, C, n)
      <4>1. CASE n = m + 1
        BY <4>1
      <4>2. CASE n # m + 1
        <5>1. n \in 1..m
          BY <4>2
        <5>2. D[n] = C[n]
          BY <2>2, <5>1
        <5> HIDE DEF D
        <5> QED
          BY <2>1, <5>1, <5>2
      <4> QED
        BY <4>1, <4>2
    <3> HIDE DEF D
    <3> QED
      BY <3>1, <3>2
  <2>4. D = [n \in 1..(m + 1) |-> Link(b, D, n)]
    <3>1. D = [n \in 1..(m + 1) |-> D[n]]
      OBVIOUS
    <3> HIDE DEF D
    <3> QED
      BY <2>3, <3>1
  <2> HIDE DEF D
  <2> QED
    BY <2>4
<1> HIDE DEF T
<1>3. Nat \subseteq T
  BY <1>1, <1>2, NumbersBelow
<1> QED
  BY <1>3 DEF T

LEMMA ChainEquation ==
  ASSUME NEW b
  PROVE  Chain(b) = [n \in 1..(Pages + 1) |-> Link(b, Chain(b), n)]
<1>1. \E C : C = [n \in 1..(Pages + 1) |-> Link(b, C, n)]
  <2> DEFINE m == Pages + 1
  <2>1. m \in Nat
    BY SomePages
  <2> HIDE DEF m
  <2>2. \E C : C = [n \in 1..m |-> Link(b, C, n)]
    BY <2>1, ChainExists
  <2> QED
    BY <2>2 DEF m
<1>2. Chain(b) = CHOOSE C : C = [n \in 1..(Pages + 1) |-> Link(b, C, n)]
  BY DEF Chain, Link
<1> QED
  BY <1>1, <1>2

LEMMA ChainLinks ==
  ASSUME NEW b \in Books
  PROVE  /\ Chain(b)[1] = 1
         /\ \A n \in 1..Pages : Chain(b)[n + 1] = Link(b, Chain(b), n + 1)
         /\ \A n \in 1..(Pages + 1) : Chain(b)[n] \in 0..Pages
<1> DEFINE C == Chain(b)
<1>1. C = [n \in 1..(Pages + 1) |-> Link(b, C, n)]
  BY ChainEquation
<1> HIDE DEF C
<1>2. 1 \in 1..(Pages + 1) /\ \A n \in 1..Pages : n + 1 \in 1..(Pages + 1) /\ n + 1 # 1
  BY SomePages
<1>3. C[1] = 1 /\ \A n \in 1..Pages : C[n + 1] = Link(b, C, n + 1)
  <2>1. \A n \in 1..(Pages + 1) : C[n] = Link(b, C, n)
    BY <1>1
  <2> QED
    BY <1>2, <2>1 DEF Link
<1>4. \A n \in 1..(Pages + 1) : C[n] \in 0..Pages
  <2> DEFINE T == {n \in Nat : n + 1 \in 1..(Pages + 1) => C[n + 1] \in 0..Pages}
  <2>1. 0 \in T
    BY <1>3, SomePages
  <2>2. ASSUME NEW n \in T PROVE n + 1 \in T
    <3> SUFFICES ASSUME n + 2 \in 1..(Pages + 1) PROVE C[n + 2] \in 0..Pages
      BY SomePages
    <3>1. n + 1 \in 1..Pages /\ C[n + 1] \in 0..Pages /\ (n + 1) + 1 = n + 2 /\ (n + 2) - 1 = n + 1
      BY SomePages
    <3>2. C[n + 2] = Link(b, C, n + 2)
      BY <1>3, <3>1
    <3>3. C[n + 1] = 0 \/ b[C[n + 1]].next \in 0..Pages
      BY <3>1 DEF Books
    <3> QED
      BY <3>1, <3>2, <3>3, SomePages DEF Link
  <2> HIDE DEF T
  <2>3. Nat \subseteq T
    BY <2>1, <2>2, NumbersBelow
  <2>4. ASSUME NEW n \in 1..(Pages + 1) PROVE C[n] \in 0..Pages
    <3>1. n - 1 \in T /\ (n - 1) + 1 = n
      BY <2>3
    <3> QED
      BY <3>1 DEF T
  <2> QED
    BY <2>4
<1> QED
  BY <1>3, <1>4 DEF C

(* The items of the first n pages of the chain, from those of the first n-1.*)
Grow(b, W, n) == IF n = 0 THEN <<>> ELSE W[n - 1] \o ItemsOf(b, Chain(b)[n])

LEMMA WalkExists ==
  ASSUME NEW b
  PROVE  \A m \in Nat : \E W : W = [n \in 0..m |-> Grow(b, W, n)]
<1> DEFINE T == {m \in Nat : \E W : W = [n \in 0..m |-> Grow(b, W, n)]}
<1>1. 0 \in T
  <2> DEFINE W == [n \in 0..0 |-> <<>>]
  <2>1. \A n \in 0..0 : W[n] = Grow(b, W, n)
    BY DEF Grow
  <2>2. W = [n \in 0..0 |-> W[n]]
    OBVIOUS
  <2> HIDE DEF W
  <2>3. W = [n \in 0..0 |-> Grow(b, W, n)]
    BY <2>1, <2>2
  <2> QED
    BY <2>3
<1>2. ASSUME NEW m \in T PROVE m + 1 \in T
  <2>1. PICK W : W = [n \in 0..m |-> Grow(b, W, n)]
    OBVIOUS
  <2> DEFINE D == [n \in 0..(m + 1) |-> IF n = m + 1 THEN Grow(b, W, m + 1) ELSE W[n]]
  <2>2. \A k \in 0..m : D[k] = W[k]
    OBVIOUS
  <2>3. ASSUME NEW n \in 0..(m + 1) PROVE D[n] = Grow(b, D, n)
    <3>1. Grow(b, W, n) = Grow(b, D, n)
      <4>1. n = 0 \/ n - 1 \in 0..m
        OBVIOUS
      <4> HIDE DEF D
      <4> QED
        BY <2>2, <4>1 DEF Grow
    <3>2. D[n] = Grow(b, W, n)
      <4>1. CASE n = m + 1
        BY <4>1
      <4>2. CASE n # m + 1
        <5>1. n \in 0..m
          BY <4>2
        <5>2. D[n] = W[n]
          BY <2>2, <5>1
        <5> HIDE DEF D
        <5> QED
          BY <2>1, <5>1, <5>2
      <4> QED
        BY <4>1, <4>2
    <3> HIDE DEF D
    <3> QED
      BY <3>1, <3>2
  <2>4. D = [n \in 0..(m + 1) |-> Grow(b, D, n)]
    <3>1. D = [n \in 0..(m + 1) |-> D[n]]
      OBVIOUS
    <3> HIDE DEF D
    <3> QED
      BY <2>3, <3>1
  <2> HIDE DEF D
  <2> QED
    BY <2>4
<1> HIDE DEF T
<1>3. Nat \subseteq T
  BY <1>1, <1>2, NumbersBelow
<1> QED
  BY <1>3 DEF T

LEMMA WalkEquation ==
  ASSUME NEW b
  PROVE  /\ Walk(b)[0] = <<>>
         /\ \A n \in 0..Pages : Walk(b)[n + 1] = Walk(b)[n] \o ItemsOf(b, Chain(b)[n + 1])
<1>1. \E W : W = [n \in 0..(Pages + 1) |-> Grow(b, W, n)]
  <2> DEFINE m == Pages + 1
  <2>1. m \in Nat
    BY SomePages
  <2> HIDE DEF m
  <2>2. \E W : W = [n \in 0..m |-> Grow(b, W, n)]
    BY <2>1, WalkExists
  <2> QED
    BY <2>2 DEF m
<1>2. Walk(b) = CHOOSE W : W = [n \in 0..(Pages + 1) |-> Grow(b, W, n)]
  BY DEF Walk, Grow
<1> DEFINE W == Walk(b)
<1>3. W = [n \in 0..(Pages + 1) |-> Grow(b, W, n)]
  BY <1>1, <1>2
<1> HIDE DEF W
<1>4. \A n \in 0..(Pages + 1) : W[n] = Grow(b, W, n)
  BY <1>3
<1>5. /\ 0 \in 0..(Pages + 1)
      /\ \A n \in 0..Pages : n + 1 \in 0..(Pages + 1) /\ n + 1 # 0 /\ (n + 1) - 1 = n
  BY SomePages
<1>6. W[0] = <<>>
  BY <1>4, <1>5 DEF Grow
<1>7. \A n \in 0..Pages : W[n + 1] = W[n] \o ItemsOf(b, Chain(b)[n + 1])
  <2> TAKE n \in 0..Pages
  <2>1. W[n + 1] = Grow(b, W, n + 1)
    BY <1>4, <1>5
  <2> QED
    BY <1>5, <2>1 DEF Grow
<1> QED
  BY <1>6, <1>7 DEF W

LEMMA ItemsTyped ==
  ASSUME NEW b \in Books, NEW p \in 0..Pages
  PROVE  ItemsOf(b, p) \in Seq(Item)
<1>1. CASE p = 0
  BY <1>1, EmptySeq DEF ItemsOf
<1>2. CASE p # 0
  <2>1. p \in 1..Pages /\ b[p].count \in 0..MaxItems /\ b[p].count \in Nat
    BY <1>2, SomePages DEF Books
  <2>2. \A n \in 1..b[p].count : <<p, n>> \in Item
    BY <2>1, SomePages DEF Item
  <2> DEFINE m == b[p].count
  <2>3. m \in Nat /\ \A n \in 1..m : <<p, n>> \in Item
    BY <2>1, <2>2
  <2> HIDE DEF m
  <2>4. [n \in 1..m |-> <<p, n>>] \in [1..m -> Item]
    BY <2>3
  <2>5. [n \in 1..m |-> <<p, n>>] \in Seq(Item)
    BY <2>3, <2>4, SeqDef
  <2> QED
    BY <1>2, <2>5 DEF ItemsOf, m
<1> QED
  BY <1>1, <1>2

LEMMA WalkTyped ==
  ASSUME NEW b \in Books
  PROVE  \A n \in 0..(Pages + 1) : Walk(b)[n] \in Seq(Item)
<1> DEFINE W == Walk(b)
           T == {n \in Nat : n <= Pages + 1 => W[n] \in Seq(Item)}
<1>1. 0 \in T
  BY WalkEquation, EmptySeq
<1>2. ASSUME NEW n \in T PROVE n + 1 \in T
  <2> SUFFICES ASSUME n + 1 <= Pages + 1 PROVE W[n + 1] \in Seq(Item)
    OBVIOUS
  <2>1. n \in 0..Pages /\ n + 1 \in 1..(Pages + 1) /\ W[n] \in Seq(Item)
    BY SomePages
  <2>2. ItemsOf(b, Chain(b)[n + 1]) \in Seq(Item)
    BY <2>1, ChainLinks, ItemsTyped
  <2>3. W[n + 1] = W[n] \o ItemsOf(b, Chain(b)[n + 1])
    BY <2>1, WalkEquation
  <2> HIDE DEF W
  <2> QED
    BY <2>1, <2>2, <2>3, ConcatProperties
<1> HIDE DEF T, W
<1>3. Nat \subseteq T
  BY <1>1, <1>2, NumbersBelow
<1>4. \A n \in 0..(Pages + 1) : n \in T /\ n <= Pages + 1
  BY <1>3, SomePages
<1> QED
  BY <1>4 DEF T, W

(* Where the chain has ended the walk has.                                 *)
LEMMA WalkStops ==
  ASSUME NEW b \in Books, NEW k \in 0..Pages, Chain(b)[k + 1] = 0
  PROVE  Walk(b)[Pages + 1] = Walk(b)[k]
<1> DEFINE W == Walk(b)
           C == Chain(b)
           T == {m \in Nat : k + m <= Pages => C[k + m + 1] = 0 /\ W[k + m + 1] = W[k]}
<1>0. /\ \A n \in 0..Pages : W[n + 1] = W[n] \o ItemsOf(b, C[n + 1])
      /\ \A n \in 1..Pages : C[n + 1] = Link(b, C, n + 1)
      /\ W[k] \in Seq(Item) /\ C[k + 1] = 0 /\ ItemsOf(b, 0) = <<>>
  <2>1. k \in 0..(Pages + 1)
    BY SomePages
  <2>2. W[k] \in Seq(Item)
    BY <2>1, WalkTyped
  <2>3. ItemsOf(b, 0) = <<>>
    BY DEF ItemsOf
  <2>4. \A n \in 0..Pages : W[n + 1] = W[n] \o ItemsOf(b, C[n + 1])
    BY WalkEquation
  <2>5. \A n \in 1..Pages : C[n + 1] = Link(b, C, n + 1)
    BY ChainLinks
  <2> QED
    BY <2>2, <2>3, <2>4, <2>5
<1> HIDE DEF W, C
<1>1. W[k] \o ItemsOf(b, 0) = W[k]
  BY <1>0, ConcatEmptySeq
<1>2. 0 \in T
  <2>1. k + 0 + 1 = k + 1
    BY SomePages
  <2>2. C[k + 1] = 0 /\ W[k + 1] = W[k]
    BY <1>0, <1>1
  <2> QED
    BY <2>1, <2>2
<1>3. ASSUME NEW m \in T PROVE m + 1 \in T
  <2> SUFFICES ASSUME k + (m + 1) <= Pages
               PROVE  C[k + (m + 1) + 1] = 0 /\ W[k + (m + 1) + 1] = W[k]
    OBVIOUS
  <2> DEFINE n == k + m + 1
  <2>1. n \in 1..Pages /\ n \in 0..Pages /\ k + (m + 1) + 1 = n + 1 /\ (n + 1) - 1 = n /\ n + 1 # 1
    BY SomePages
  <2>2. C[n] = 0 /\ W[n] = W[k]
    BY SomePages
  <2> HIDE DEF n
  <2>3. C[n + 1] = 0
    BY <1>0, <2>1, <2>2 DEF Link
  <2>4. W[n + 1] = W[k]
    <3>1. W[n + 1] = W[n] \o ItemsOf(b, C[n + 1])
      BY <1>0, <2>1
    <3> QED
      BY <1>1, <2>2, <2>3, <3>1
  <2> QED
    BY <2>1, <2>3, <2>4
<1> HIDE DEF T
<1>4. Nat \subseteq T
  BY <1>2, <1>3, NumbersBelow
<1>5. Pages - k \in T /\ k + (Pages - k) <= Pages /\ k + (Pages - k) + 1 = Pages + 1
  BY <1>4, SomePages
<1>6. W[Pages + 1] = W[k]
  BY <1>5 DEF T
<1> QED
  BY <1>6 DEF W

(* Of the walk the items of the first pages are a prefix.                  *)
LEMMA WalkPrefix ==
  ASSUME NEW b \in Books, NEW k \in 0..(Pages + 1)
  PROVE  /\ Len(Walk(b)[k]) <= Len(Walk(b)[Pages + 1])
         /\ \A i \in 1..Len(Walk(b)[k]) : Walk(b)[Pages + 1][i] = Walk(b)[k][i]
<1> DEFINE W == Walk(b)
           T == {m \in Nat : k + m <= Pages + 1 =>
                   /\ Len(W[k]) <= Len(W[k + m])
                   /\ \A i \in 1..Len(W[k]) : W[k + m][i] = W[k][i]}
<1>0. /\ \A n \in 0..Pages : W[n + 1] = W[n] \o ItemsOf(b, Chain(b)[n + 1])
      /\ \A n \in 0..(Pages + 1) : W[n] \in Seq(Item) /\ Len(W[n]) \in Nat
  BY WalkEquation, WalkTyped, LenProperties
<1> HIDE DEF W
<1>1. 0 \in T
  BY <1>0
<1>2. ASSUME NEW m \in T PROVE m + 1 \in T
  <2> SUFFICES ASSUME k + (m + 1) <= Pages + 1
               PROVE  /\ Len(W[k]) <= Len(W[k + (m + 1)])
                      /\ \A i \in 1..Len(W[k]) : W[k + (m + 1)][i] = W[k][i]
    OBVIOUS
  <2> DEFINE n == k + m
  <2>1. n \in 0..Pages /\ n \in 0..(Pages + 1) /\ n + 1 \in 1..(Pages + 1) /\ k + (m + 1) = n + 1
    BY SomePages
  <2>2. /\ Len(W[k]) <= Len(W[n]) /\ \A i \in 1..Len(W[k]) : W[n][i] = W[k][i]
    BY SomePages
  <2> HIDE DEF n
  <2>3. W[n] \in Seq(Item) /\ ItemsOf(b, Chain(b)[n + 1]) \in Seq(Item)
    BY <1>0, <2>1, ChainLinks, ItemsTyped
  <2>4. W[n + 1] = W[n] \o ItemsOf(b, Chain(b)[n + 1])
    BY <1>0, <2>1
  <2> DEFINE u == ItemsOf(b, Chain(b)[n + 1])
             v == W[n]
             w == W[n + 1]
  <2>5. /\ Len(w) = Len(v) + Len(u) /\ Len(u) \in Nat /\ Len(v) \in Nat /\ Len(W[k]) \in Nat
        /\ \A i \in 1..Len(v) : w[i] = v[i]
    <3>1. v \in Seq(Item) /\ u \in Seq(Item) /\ w = v \o u /\ Len(W[k]) \in Nat
      BY <1>0, <2>3, <2>4
    <3> HIDE DEF u, v, w
    <3>2. Len(u) \in Nat /\ Len(v) \in Nat
      BY <3>1, LenProperties
    <3>3. Len(v \o u) = Len(v) + Len(u)
      BY <3>1, ConcatProperties
    <3>4. \A i \in 1..(Len(v) + Len(u)) : (v \o u)[i] = IF i <= Len(v) THEN v[i] ELSE u[i - Len(v)]
      BY <3>1, ConcatProperties
    <3>5. \A i \in 1..Len(v) : i \in 1..(Len(v) + Len(u)) /\ i <= Len(v)
      BY <3>2
    <3> QED
      BY <3>1, <3>2, <3>3, <3>4, <3>5
  <2>6. /\ Len(W[k]) <= Len(v) /\ \A i \in 1..Len(W[k]) : v[i] = W[k][i]
    BY <2>2
  <2> HIDE DEF u, v
  <2>7. \A i \in 1..Len(W[k]) : i \in 1..Len(v)
    BY <2>5, <2>6
  <2>8. Len(W[k]) <= Len(w) /\ \A i \in 1..Len(W[k]) : w[i] = W[k][i]
    <3> HIDE DEF w
    <3> QED
      BY <2>5, <2>6, <2>7
  <2>9. w = W[k + (m + 1)]
    BY <2>1
  <2> HIDE DEF w
  <2> QED
    BY <2>8, <2>9
<1> HIDE DEF T
<1>3. Nat \subseteq T
  BY <1>1, <1>2, NumbersBelow
<1>4. (Pages + 1) - k \in T /\ k + ((Pages + 1) - k) <= Pages + 1 /\ k + ((Pages + 1) - k) = Pages + 1
  BY <1>3, SomePages
<1>5. Len(W[k]) <= Len(W[Pages + 1]) /\ \A i \in 1..Len(W[k]) : W[Pages + 1][i] = W[k][i]
  BY <1>4 DEF T
<1> QED
  BY <1>5 DEF W

-----------------------------------------------------------------------------
(* The iterator.                                                           *)

LEMMA SamePrefix ==
  ASSUME NEW S, NEW s \in Seq(S), NEW t \in Seq(S), NEW n \in 0..Len(s),
         Len(s) <= Len(t), \A i \in 1..Len(s) : t[i] = s[i]
  PROVE  /\ SubSeq(t, 1, n) = SubSeq(s, 1, n)
         /\ SubSeq(s, 1, n) \in Seq(S) /\ Len(SubSeq(s, 1, n)) = n
<1>0. /\ Len(s) \in Nat /\ Len(t) \in Nat /\ n \in Nat /\ 1 \in Int /\ n \in Int
      /\ \A i \in 1..n : i \in 1..Len(s) /\ i \in 1..Len(t) /\ 1 + i - 1 = i
      /\ n - 1 + 1 = n
  BY LenProperties
<1>1. \A i \in 1..n : s[i] \in S /\ t[i] \in S
  BY <1>0, ElementOfSeq
<1>2. /\ SubSeq(s, 1, n) \in Seq(S)
      /\ Len(SubSeq(s, 1, n)) = IF 1 <= n THEN n - 1 + 1 ELSE 0
      /\ \A i \in 1..(n - 1 + 1) : SubSeq(s, 1, n)[i] = s[1 + i - 1]
  BY <1>0, <1>1, SubSeqProperties
<1>3. /\ SubSeq(t, 1, n) \in Seq(S)
      /\ Len(SubSeq(t, 1, n)) = IF 1 <= n THEN n - 1 + 1 ELSE 0
      /\ \A i \in 1..(n - 1 + 1) : SubSeq(t, 1, n)[i] = t[1 + i - 1]
  BY <1>0, <1>1, SubSeqProperties
<1>4. Len(SubSeq(s, 1, n)) = n /\ Len(SubSeq(t, 1, n)) = n
  BY <1>0, <1>2, <1>3
<1>5. \A i \in 1..n : SubSeq(t, 1, n)[i] = SubSeq(s, 1, n)[i]
  BY <1>0, <1>2, <1>3
<1> QED
  BY <1>2, <1>3, <1>4, <1>5, SeqEqual

LEMMA IteratorInit == Init => IteratorInv
<1> SUFFICES ASSUME Init PROVE IteratorInv
  OBVIOUS
<1>1. RequestTypeOK
  BY InitOK DEF Init, RequestInv
<1>2. /\ items = <<>> /\ index = 0 /\ Len(items) = 0 /\ yielded = <<>> /\ done = FALSE /\ seen = {}
      /\ cursor = 1 /\ ended = FALSE /\ caller = "none" /\ book \in Books
  BY DEF Init, Books
<1>3. TypeOK
  <2>1. items \in Seq(Item) /\ yielded \in Seq(Item)
    BY <1>2, EmptySeq
  <2>2. index \in 0..Len(items) /\ cursor \in 1..Pages
    BY <1>2, SomePages
  <2> QED
    BY <1>1, <1>2, <2>1, <2>2, Zenon DEF TypeOK, Books
<1>4. Walked(0)
  <2>1. items = Walk(book)[0] /\ cursor = Chain(book)[0 + 1]
    <3>1. Walk(book)[0] = <<>>
      BY WalkEquation
    <3>2. book \in Books
      BY <1>2
    <3>3. Chain(book)[1] = 1
      BY <3>2, ChainLinks
    <3>4. 0 + 1 = 1
      OBVIOUS
    <3> QED
      BY <1>2, <3>1, <3>3, <3>4
  <2>2. {Chain(book)[j] : j \in 2..(0 + 1)} = {}
    OBVIOUS
  <2>3. Cardinality(seen) = 0
    BY <1>2, FS_EmptySet
  <2> QED
    BY <1>2, <2>1, <2>2, <2>3, SomePages DEF Walked
<1>5. yielded = SubSeq(items, 1, index)
  BY <1>2, SubSeqEmpty
<1>6. 0 \in 0..(Pages + 1)
  BY SomePages
<1> QED
  BY <1>2, <1>3, <1>4, <1>5, <1>6 DEF IteratorInv

(* Steps that leave the iterator's own state alone.                        *)
LEMMA IteratorSame ==
  ASSUME IteratorInv, RequestTypeOK',
         UNCHANGED <<book, items, index, done, seen, cursor, yielded>>,
         caller' \in {"none", "app", "next"}, caller' = "next" => ~done,
         ended' = ended \/ (ended' = TRUE /\ done /\ index >= Len(items))
  PROVE  IteratorInv'
<1>1. TypeOK'
  BY DEF IteratorInv, TypeOK
<1>2. \A k : Walked(k) => Walked(k)'
  BY DEF Walked
<1>3. index \in 0..Len(items) /\ Len(items) \in Nat
  BY LenProperties DEF IteratorInv, TypeOK
<1>4. ended' => done' /\ index' = Len(items')
  <2>1. CASE ended' = ended
    BY <2>1, Zenon DEF IteratorInv
  <2>2. CASE done /\ index >= Len(items)
    <3>1. index = Len(items)
      BY <1>3, <2>2
    <3> QED
      BY <2>2, <3>1, Zenon
  <2> QED
    BY <2>1, <2>2
<1>5. \E k \in 0..(Pages + 1) : Walked(k)'
  BY <1>2 DEF IteratorInv
<1> QED
  BY <1>1, <1>4, <1>5 DEF IteratorInv

LEMMA NextItemOK ==
  ASSUME IteratorInv, RequestTypeOK', NextItem
  PROVE  IteratorInv'
<1>0. /\ index < Len(items) /\ yielded' = Append(yielded, items[index + 1])
      /\ index' = index + 1 /\ UNCHANGED <<book, caller, items, done, seen, cursor, ended>>
  BY Zenon DEF NextItem
<1>1. /\ items \in Seq(Item) /\ Len(items) \in Nat /\ index \in Nat /\ yielded \in Seq(Item)
      /\ index + 1 \in 1..Len(items) /\ index + 1 \in 0..Len(items) /\ (index + 1) - 1 = index
      /\ 1 \in 1..Len(items)
  BY <1>0, LenProperties DEF IteratorInv, TypeOK
<1> DEFINE n == index + 1
<1>2. n \in 1..Len(items) /\ n - 1 = index
  BY <1>1
<1> HIDE DEF n
<1>3. items[n] \in Item
  BY <1>1, <1>2, ElementOfSeq
<1>4. SubSeq(items, 1, n) = SubSeq(items, 1, n - 1) \o <<items[n]>>
  BY <1>1, <1>2, SubSeqRecursiveSecond
<1>5. Append(yielded, items[n]) = yielded \o <<items[n]>> /\ Append(yielded, items[n]) \in Seq(Item)
  BY <1>1, <1>3, AppendIsConcat, AppendProperties
<1>6. yielded = SubSeq(items, 1, index)
  BY DEF IteratorInv
<1>7. yielded' = SubSeq(items', 1, index') /\ yielded' \in Seq(Item)
  BY <1>0, <1>2, <1>4, <1>5, <1>6 DEF n
<1>8. TypeOK'
  BY <1>0, <1>1, <1>7 DEF IteratorInv, TypeOK
<1>9. \A k : Walked(k) => Walked(k)'
  BY <1>0 DEF Walked
<1>10. ~ended'
  BY <1>0, <1>1 DEF IteratorInv
<1>11. \E k \in 0..(Pages + 1) : Walked(k)'
  BY <1>9 DEF IteratorInv
<1> QED
  BY <1>0, <1>7, <1>8, <1>10, <1>11 DEF IteratorInv

(* A page that arrives is the next of the chain; a link that was not       *)
(* followed before leaves one page less to see.                            *)
LEMMA FetchReturnsOK ==
  ASSUME IteratorInv, RequestTypeOK', FetchReturns
  PROVE  IteratorInv'
<1> DEFINE C == Chain(book)
           W == Walk(book)
           l == book[cursor].next
           u == ItemsOf(book, cursor)
<1>0. /\ caller = "next" /\ caller' = "none" /\ UNCHANGED <<book, index, yielded, ended>>
      /\ items' = items \o [n \in 1..book[cursor].count |-> <<cursor, n>>]
      /\ \/ l \in {0} \cup seen /\ done' = TRUE /\ UNCHANGED <<seen, cursor>>
         \/ /\ l \notin {0} \cup seen
            /\ seen' = seen \cup {l} /\ cursor' = l /\ done' = done
  BY Zenon DEF FetchReturns, PageArrives
<1>1. /\ TypeOK /\ ~done /\ ~ended /\ yielded = SubSeq(items, 1, index)
      /\ done \in BOOLEAN /\ ended \in BOOLEAN
  BY <1>0, Zenon DEF IteratorInv, TypeOK
<1>2. PICK k \in 0..(Pages + 1) : Walked(k)
  BY Zenon DEF IteratorInv
<1>3. /\ items = W[k] /\ k <= Pages /\ cursor = C[k + 1]
      /\ seen = {C[j] : j \in 2..(k + 1)} /\ Cardinality(seen) = k
  BY <1>1, <1>2, Zenon DEF Walked
<1>4. /\ book \in Books /\ cursor \in 1..Pages /\ cursor \in 0..Pages /\ cursor # 0
      /\ l \in 0..Pages /\ k \in 0..Pages /\ k \in Nat /\ seen \in SUBSET (1..Pages)
      /\ items \in Seq(Item) /\ index \in 0..Len(items)
  <2> HIDE DEF C, W, l, u
  <2>1. /\ book \in Books /\ cursor \in 1..Pages /\ seen \in SUBSET (1..Pages)
        /\ items \in Seq(Item) /\ index \in 0..Len(items)
    BY <1>1, Zenon DEF TypeOK
  <2>2. cursor \in 0..Pages /\ cursor # 0 /\ k \in 0..Pages /\ k \in Nat
    BY <1>3, <2>1, SomePages
  <2>3. book[cursor].next \in 0..Pages
    BY <2>1 DEF Books
  <2> QED
    BY <2>1, <2>2, <2>3 DEF l
<1>5. /\ W[k + 1] = W[k] \o ItemsOf(book, C[k + 1])
      /\ C[k + 1] = cursor
      /\ \A n \in 1..Pages : C[n + 1] = Link(book, C, n + 1)
      /\ \A n \in 0..(Pages + 1) : W[n] \in Seq(Item)
  BY <1>3, <1>4, WalkEquation, ChainLinks, WalkTyped
<1>6. u \in Seq(Item) /\ u = [n \in 1..book[cursor].count |-> <<cursor, n>>]
  BY <1>4, ItemsTyped DEF ItemsOf
<1>7. C[k + 2] = Link(book, C, k + 2) \/ k + 1 = Pages + 1
  <2>1. k + 1 \in 1..Pages \/ k + 1 = Pages + 1
    BY <1>4, SomePages
  <2>2. (k + 1) + 1 = k + 2
    BY <1>4
  <2> QED
    BY <1>5, <2>1, <2>2
<1>8. Link(book, C, k + 2) = IF l \in {0} \cup seen THEN 0 ELSE l
  <2>1. k + 2 # 1 /\ (k + 2) - 1 = k + 1
    BY <1>4
  <2> HIDE DEF C
  <2>2. Link(book, C, k + 2) = IF C[k + 1] = 0 \/ book[C[k + 1]].next \in {C[j] : j \in 2..(k + 1)}
                               THEN 0 ELSE book[C[k + 1]].next
    BY <2>1 DEF Link
  <2> QED
    BY <1>3, <1>4, <2>2
<1> HIDE DEF C, W, l, u
<1>9. items' = W[k + 1] /\ items' = items \o u
  BY <1>0, <1>3, <1>5, <1>6 DEF u
<1>10. /\ items' \in Seq(Item) /\ Len(items) \in Nat /\ Len(items') \in Nat
       /\ Len(items) <= Len(items') /\ \A i \in 1..Len(items) : items'[i] = items[i]
  <2>1. items \o u \in Seq(Item) /\ Len(items) \in Nat /\ Len(u) \in Nat
    BY <1>4, <1>6, ConcatProperties, LenProperties
  <2>2. Len(items \o u) = Len(items) + Len(u)
    BY <1>4, <1>6, ConcatProperties
  <2>3. \A i \in 1..(Len(items) + Len(u)) :
          (items \o u)[i] = IF i <= Len(items) THEN items[i] ELSE u[i - Len(items)]
    BY <1>4, <1>6, ConcatProperties
  <2>4. \A i \in 1..Len(items) : i \in 1..(Len(items) + Len(u)) /\ i <= Len(items)
    BY <2>1
  <2>5. \A i \in 1..Len(items) : (items \o u)[i] = items[i]
    BY <2>3, <2>4
  <2>6. Len(items) <= Len(items \o u) /\ Len(items \o u) \in Nat
    BY <2>1, <2>2
  <2> QED
    BY <1>9, <2>1, <2>5, <2>6
<1>11. SubSeq(items', 1, index) = SubSeq(items, 1, index)
  BY <1>4, <1>10, SamePrefix
<1>12. index \in 0..Len(items')
  BY <1>4, <1>10
<1>13. /\ yielded' = SubSeq(items', 1, index') /\ ~ended' /\ caller' # "next"
  BY <1>0, <1>1, <1>11
<1>14. CASE l \in {0} \cup seen /\ done' = TRUE /\ UNCHANGED <<seen, cursor>>
  <2>1. TypeOK'
    BY <1>0, <1>1, <1>10, <1>12, <1>14 DEF TypeOK
  <2>2. k + 1 = Pages + 1 \/ C[(k + 1) + 1] = 0
    <3>1. (k + 1) + 1 = k + 2
      BY <1>4
    <3> QED
      BY <1>7, <1>8, <1>14, <3>1
  <2>3. Walked(k + 1)'
    <3>1. k + 1 \in Nat /\ k' = k
      BY <1>4
    <3> QED
      BY <1>0, <1>9, <1>14, <2>2 DEF Walked, C, W
  <2>4. k + 1 \in 0..(Pages + 1)
    BY <1>4, SomePages
  <2> QED
    BY <1>13, <2>1, <2>3, <2>4 DEF IteratorInv
<1>15. CASE l \notin {0} \cup seen /\ seen' = seen \cup {l} /\ cursor' = l /\ done' = done
  <2>1. l \in 1..Pages /\ l \notin seen /\ seen' \in SUBSET (1..Pages)
    BY <1>4, <1>15
  <2>2. TypeOK'
    BY <1>0, <1>1, <1>10, <1>12, <1>15, <2>1 DEF TypeOK
  <2>3. Cardinality(seen') = k + 1 /\ k + 1 <= Pages
    <3>1. IsFiniteSet(1..Pages) /\ Cardinality(1..Pages) = Pages
      BY FS_Interval, SomePages
    <3>2. IsFiniteSet(seen)
      BY <1>4, <3>1, FS_Subset
    <3>3. Cardinality(seen \cup {l}) = Cardinality(seen) + 1
      BY <2>1, <3>2, FS_AddElement
    <3>4. Cardinality(seen') <= Cardinality(1..Pages)
      BY <2>1, <3>1, FS_Subset
    <3> QED
      BY <1>3, <1>15, <3>1, <3>3, <3>4
  <2>4. C[k + 2] = l
    BY <1>4, <1>7, <1>8, <1>15, <2>3, SomePages
  <2>5. seen' = {C[j] : j \in 2..(k + 2)}
    <3>1. 2..(k + 2) = (2..(k + 1)) \cup {k + 2}
      BY <1>4
    <3>2. {C[j] : j \in 2..(k + 2)} = {C[j] : j \in 2..(k + 1)} \cup {C[k + 2]}
      BY <3>1
    <3> QED
      BY <1>3, <1>15, <2>4, <3>2
  <2>6. (k + 1) + 1 = k + 2 /\ k + 1 \in 0..(Pages + 1)
    BY <1>4, SomePages
  <2>7. Walked(k + 1)'
    BY <1>0, <1>1, <1>9, <1>15, <2>3, <2>4, <2>5, <2>6 DEF Walked, C, W
  <2> QED
    BY <1>13, <2>2, <2>6, <2>7 DEF IteratorInv
<1> QED
  BY <1>0, <1>14, <1>15

LEMMA IteratorStepOK == RequestInv /\ IteratorInv /\ [Next]_vars => IteratorInv'
<1> SUFFICES ASSUME RequestInv, IteratorInv, [Next]_vars PROVE IteratorInv'
  OBVIOUS
<1>0. RequestTypeOK'
  BY InvStep DEF RequestInv
<1>1. CASE NextItem
  BY <1>0, <1>1, NextItemOK
<1>2. CASE FetchReturns
  BY <1>0, <1>2, FetchReturnsOK
<1>3. CASE UNCHANGED <<book, iterator>>
  BY <1>0, <1>3, IteratorSame DEF iterator, IteratorInv, TypeOK
<1>4. CASE NextEnds
  BY <1>0, <1>4, IteratorSame DEF NextEnds, IteratorInv, TypeOK
<1>5. CASE NextFetches \/ FetchDies \/ AppRequest \/ AppReturns
  <2>1. /\ UNCHANGED <<book, items, index, done, seen, cursor, yielded>> /\ ended' = ended
        /\ caller' \in {"none", "app", "next"} /\ (caller' = "next" => ~done)
    BY <1>5 DEF NextFetches, FetchDies, AppRequest, AppReturns
  <2> QED
    BY <1>0, <2>1, IteratorSame
<1> QED
  BY <1>1, <1>2, <1>3, <1>4, <1>5, Zenon DEF Next, IteratorStep, vars

(* What the invariant says of the items handed out.                        *)
LEMMA WalkYielded == IteratorInv => WalkInv
<1> SUFFICES ASSUME IteratorInv PROVE WalkInv
  OBVIOUS
<1> DEFINE W == Walk(book)
           walk == W[Pages + 1]
<1>1. /\ TypeOK /\ book \in Books /\ items \in Seq(Item) /\ index \in 0..Len(items)
      /\ yielded = SubSeq(items, 1, index)
      /\ ended => done /\ index = Len(items)
  BY Zenon DEF IteratorInv, TypeOK, Books
<1>2. PICK k \in 0..(Pages + 1) : Walked(k)
  BY Zenon DEF IteratorInv
<1>3. items = W[k] /\ (done => k = Pages + 1 \/ Chain(book)[k + 1] = 0)
  BY <1>2, Zenon DEF Walked
<1>4. Len(items) <= Len(walk) /\ \A i \in 1..Len(items) : walk[i] = items[i]
  BY <1>1, <1>3, WalkPrefix
<1>5. walk \in Seq(Item)
  <2>1. Pages + 1 \in 0..(Pages + 1)
    BY SomePages
  <2> QED
    BY <1>1, <2>1, WalkTyped
<1>6. done => walk = items
  <2>1. k = Pages + 1 \/ k \in 0..Pages
    BY SomePages
  <2> QED
    BY <1>1, <1>3, <2>1, WalkStops
<1> HIDE DEF walk
<1>7. SubSeq(walk, 1, index) = SubSeq(items, 1, index) /\ Len(SubSeq(items, 1, index)) = index
  BY <1>1, <1>4, <1>5, SamePrefix
<1>8. Len(yielded) = index /\ yielded = SubSeq(walk, 1, Len(yielded))
  BY <1>1, <1>7
<1>9. Len(yielded) <= Len(walk)
  BY <1>1, <1>4, <1>5, <1>8, LenProperties
<1>10. ended => yielded = walk
  BY <1>1, <1>6, SubSeqFull
<1> QED
  BY <1>1, <1>8, <1>9, <1>10 DEF WalkInv, YieldsTheWalk, walk

(* For any book of any number of pages, links in a circle included: what   *)
(* the iterator has yielded is the beginning of the walk, and all of it    *)
(* when it is exhausted, whichever fetches die in between.                 *)
THEOREM WalkCorrect == Spec => []WalkInv
<1>1. Init => RequestInv /\ IteratorInv
  BY InitOK, IteratorInit DEF Init
<1>2. RequestInv /\ IteratorInv /\ [Next]_vars => (RequestInv /\ IteratorInv)'
  BY InvStep, IteratorStepOK
<1> QED
  BY <1>1, <1>2, WalkYielded, PTL DEF Spec

-----------------------------------------------------------------------------
(* Sets of numbers, and the entries of a sequence at the places of such a  *)
(* set.                                                                    *)
LEMMA ListOf ==
  ASSUME NEW S, NEW n \in Nat, NEW s, s = [i \in 1..n |-> s[i]], \A i \in 1..n : s[i] \in S
  PROVE  s \in Seq(S) /\ Len(s) = n /\ DOMAIN s = 1..n
OBVIOUS

(* A list is in its range, place by place.                                 *)
LEMMA ListRange ==
  ASSUME NEW s, IsList(s)
  PROVE  /\ Len(s) \in Nat /\ DOMAIN s = 1..Len(s) /\ s = [i \in 1..Len(s) |-> s[i]]
         /\ \A i \in DOMAIN s : s[i] \in Range(s)
BY DEF IsList, Range

\* A finite set of numbers that is not empty has a greatest and a least one.
LEMMA GreatestExists ==
  ASSUME NEW n \in Nat, NEW I \in SUBSET (1..n), I # {}
  PROVE  Max(I) \in I /\ \A i \in I : i <= Max(I)
<1> DEFINE T == {m \in Nat : \A J \in SUBSET (1..m) : J # {} => \E x \in J : \A y \in J : y <= x}
<1>1. 0 \in T
  <2>1. 1..0 = {}
    OBVIOUS
  <2> QED
    BY <2>1
<1>2. ASSUME NEW m \in T, m \in Nat PROVE m + 1 \in T
  <2>1. ASSUME NEW J \in SUBSET (1..(m + 1)), J # {} PROVE \E x \in J : \A y \in J : y <= x
    <3>1. CASE m + 1 \in J
      BY <3>1
    <3>2. CASE m + 1 \notin J
      <4>1. J \in SUBSET (1..m)
        BY <3>2
      <4> QED
        BY <2>1, <4>1
    <3> QED
      BY <3>1, <3>2
  <2> QED
    BY <2>1
<1> HIDE DEF T
<1>3. n \in T
  BY <1>1, <1>2, NumbersBelow
<1>4. \E x \in I : \A y \in I : y <= x
  BY <1>3 DEF T
<1>5. \E x \in I : \A y \in I : x >= y
  BY <1>4
<1> QED
  BY <1>5 DEF Max

(* A set of numbers that is not empty has a least one.                     *)
LEMMA LeastExists ==
  ASSUME NEW I \in SUBSET Nat, I # {}
  PROVE  Min(I) \in I /\ \A i \in I : Min(I) <= i
<1>1. PICK x \in I : \A y \in I : ~(<<y, x>> \in OpToRel(<, Nat))
  BY NatLessThanWellFounded, WFMin
<1>2. ASSUME NEW y \in I PROVE x <= y
  <2>1. x \in Nat /\ y \in Nat
    OBVIOUS
  <2>2. ~(y < x)
    BY <1>1, <2>1 DEF OpToRel
  <2> QED
    BY <2>1, <2>2
<1> QED
  BY <1>2 DEF Min

\* How many of the set are not above a number, and which one is the k-th.
Rank(I, i) == Cardinality({j \in I : j <= i})
Place(I, k) == CHOOSE i \in I : Rank(I, i) = k

(* The rank of a number in a set of places: from one to as many as there   *)
(* are, and no two the same.                                               *)
LEMMA RankGrows ==
  ASSUME NEW n \in Nat, NEW I \in SUBSET (1..n)
  PROVE  /\ IsFiniteSet(I) /\ Cardinality(I) \in Nat
         /\ \A i \in I : Rank(I, i) \in 1..Cardinality(I)
         /\ \A i, j \in I : i < j => Rank(I, i) < Rank(I, j)
         /\ \A i, j \in I : Rank(I, i) = Rank(I, j) => i = j
<1> DEFINE B(i) == {j \in I : j <= i}
<1>1. IsFiniteSet(I) /\ Cardinality(I) \in Nat
  <2>1. IsFiniteSet(1..n)
    BY FS_Interval
  <2> QED
    BY <2>1, FS_Subset, FS_CardinalityType
<1>2. \A i \in I : IsFiniteSet(B(i)) /\ Cardinality(B(i)) \in Nat /\ Cardinality(B(i)) <= Cardinality(I)
  <2>1. \A i \in I : B(i) \in SUBSET I
    OBVIOUS
  <2> HIDE DEF B
  <2> QED
    BY <1>1, <2>1, FS_Subset, FS_CardinalityType
<1>3. \A i \in I : Cardinality(B(i)) # 0
  <2>1. \A i \in I : i \in B(i)
    OBVIOUS
  <2> HIDE DEF B
  <2> QED
    BY <1>2, <2>1, FS_EmptySet
<1>4. ASSUME NEW i \in I, NEW j \in I, i < j PROVE Cardinality(B(i)) < Cardinality(B(j))
  <2>1. B(i) \in SUBSET B(j) /\ j \in B(j) /\ j \notin B(i)
    <3>1. \A x \in I : x \in Int
      OBVIOUS
    <3>2. \A x \in I : x <= i => x <= j
      BY <1>4, <3>1
    <3>3. ~(j <= i) /\ j <= j
      BY <1>4, <3>1
    <3> QED
      BY <3>2, <3>3
  <2> HIDE DEF B
  <2>2. Cardinality(B(i)) <= Cardinality(B(j)) /\ Cardinality(B(i)) # Cardinality(B(j))
    BY <1>2, <2>1, FS_Subset
  <2> QED
    BY <1>2, <2>2
<1>5. \A i \in I : Rank(I, i) = Cardinality(B(i))
  BY DEF Rank
<1> HIDE DEF B
<1>6. \A i, j \in I : i < j \/ j < i \/ i = j
  OBVIOUS
<1> QED
  BY <1>1, <1>2, <1>3, <1>4, <1>5, <1>6

(* Place and rank undo each other.                                         *)
LEMMA PlaceOf ==
  ASSUME NEW n \in Nat, NEW I \in SUBSET (1..n)
  PROVE  /\ \A k \in 1..Cardinality(I) : Place(I, k) \in I /\ Rank(I, Place(I, k)) = k
         /\ \A i \in I : Place(I, Rank(I, i)) = i
<1> DEFINE N == Cardinality(I)
           rank == [i \in I |-> Rank(I, i)]
<1>1. N \in Nat /\ IsFiniteSet(I) /\ IsFiniteSet(1..N) /\ Cardinality(1..N) = N
  <2>1. N \in Nat /\ IsFiniteSet(I)
    BY RankGrows
  <2> HIDE DEF N
  <2> QED
    BY <2>1, FS_Interval
<1>2. rank \in Injection(I, 1..N)
  BY RankGrows DEF Injection, IsInjective
<1>3. rank \in Surjection(I, 1..N)
  <2> HIDE DEF rank
  <2> QED
    BY <1>1, <1>2, FS_Injection
<1>4. \A k \in 1..N : \E i \in I : rank[i] = k
  BY <1>3 DEF Surjection
<1>5. \A k \in 1..N : \E i \in I : Rank(I, i) = k
  BY <1>4
<1>6. \A k \in 1..N : Place(I, k) \in I /\ Rank(I, Place(I, k)) = k
  BY <1>5 DEF Place
<1>7. \A i \in I : Place(I, Rank(I, i)) = i
  <2>1. ASSUME NEW i \in I PROVE Place(I, Rank(I, i)) = i
    <3>1. Rank(I, i) \in 1..N
      BY RankGrows
    <3>2. Place(I, Rank(I, i)) \in I /\ Rank(I, Place(I, Rank(I, i))) = Rank(I, i)
      BY <1>6, <3>1
    <3> QED
      BY <3>2, RankGrows
  <2> QED
    BY <2>1
<1> QED
  BY <1>6, <1>7

(* What is picked of a list are its entries at the places of the set, in   *)
(* their order.                                                            *)
LEMMA PickedEntries ==
  ASSUME NEW S, NEW s \in Seq(S), NEW I \in SUBSET DOMAIN s
  PROVE  /\ Cardinality(I) \in Nat
         /\ Picked(s, I) \in Seq(S) /\ Len(Picked(s, I)) = Cardinality(I)
         /\ DOMAIN Picked(s, I) = 1..Cardinality(I)
         /\ \A k \in 1..Cardinality(I) : Place(I, k) \in I /\ Picked(s, I)[k] = s[Place(I, k)]
         /\ \A i \in I : Rank(I, i) \in 1..Cardinality(I) /\ Picked(s, I)[Rank(I, i)] = s[i]
<1>1. Len(s) \in Nat /\ I \in SUBSET (1..Len(s)) /\ \A i \in I : s[i] \in S
  OBVIOUS
<1> DEFINE N == Cardinality(I)
           p == Picked(s, I)
<1>2. N \in Nat /\ \A i \in I : Rank(I, i) \in 1..N
  BY <1>1, RankGrows
<1>3. p = [k \in 1..N |-> s[Place(I, k)]]
  BY DEF Picked, Place, Rank
<1>4. \A k \in 1..N : Place(I, k) \in I
  BY <1>1, PlaceOf
<1>5. \A i \in I : Place(I, Rank(I, i)) = i
  BY <1>1, PlaceOf
<1> HIDE DEF p, N
<1>6. p = [k \in 1..N |-> p[k]] /\ \A k \in 1..N : p[k] = s[Place(I, k)] /\ p[k] \in S
  BY <1>1, <1>3, <1>4
<1>7. p \in Seq(S) /\ Len(p) = N /\ DOMAIN p = 1..N
  BY <1>2, <1>6, ListOf
<1> QED
  BY <1>2, <1>4, <1>5, <1>6, <1>7 DEF p, N

\* The entries at the places a..b are a part of the sequence.
LEMMA PickedPart ==
  ASSUME NEW S, NEW s \in Seq(S), NEW n \in 0..Len(s)
  PROVE  Picked(s, 1..n) = [k \in 1..n |-> s[k]] /\ Cardinality(1..n) = n
<1>1. n \in Nat /\ Len(s) \in Nat /\ 1..n \in SUBSET DOMAIN s /\ 1..n \in SUBSET (1..n)
  OBVIOUS
<1>2. Cardinality(1..n) = n
  BY <1>1, FS_Interval
<1>3. ASSUME NEW k \in 1..n PROVE Rank(1..n, k) = k
  <2>1. {j \in 1..n : j <= k} = 1..k
    BY <1>1
  <2>2. Cardinality(1..k) = k
    BY FS_Interval
  <2> QED
    BY <2>1, <2>2 DEF Rank
<1>4. \A k \in 1..n : Place(1..n, k) = k
  BY <1>1, <1>3, PlaceOf
<1>5. \A k \in 1..n : Picked(s, 1..n)[k] = s[k]
  <2> DEFINE I == 1..n
  <2>1. I \in SUBSET DOMAIN s
    BY <1>1
  <2>2. \A k \in I : Place(I, k) = k
    BY <1>4
  <2>3. Cardinality(I) = n
    BY <1>2
  <2>4. \A k \in 1..n : k \in I
    OBVIOUS
  <2> HIDE DEF I
  <2>5. \A k \in 1..Cardinality(I) : Picked(s, I)[k] = s[Place(I, k)]
    BY <2>1, PickedEntries
  <2>6. \A k \in 1..n : Picked(s, I)[k] = s[k]
    BY <2>2, <2>3, <2>4, <2>5
  <2> QED
    BY <2>6 DEF I
<1>6. Picked(s, 1..n) \in Seq(S) /\ DOMAIN Picked(s, 1..n) = 1..n
  BY <1>1, <1>2, PickedEntries
<1> QED
  BY <1>2, <1>5, <1>6

-----------------------------------------------------------------------------
(* Functions over 1..n that are defined from their values so far exist.    *)
Before(f, i) == [j \in 1..(i - 1) |-> f[j]]
Obeys(f, G, n) == Len(f) = n /\ \A i \in 1..n : f[i] = G[<<i, Before(f, i)>>]

(* The values before a place of a list.                                    *)
LEMMA BeforeIs ==
  ASSUME NEW S, NEW f \in Seq(S), NEW i \in 1..Len(f)
  PROVE  /\ Before(f, i) \in Seq(S) /\ DOMAIN Before(f, i) = 1..(i - 1)
         /\ \A j \in 1..(i - 1) : Before(f, i)[j] = f[j]
<1> DEFINE m == i - 1
           b == [j \in 1..m |-> f[j]]
<1>1. m \in Nat /\ Before(f, i) = b
  BY DEF Before
<1>2. \A j \in 1..m : j \in 1..Len(f)
  OBVIOUS
<1>3. \A j \in 1..m : f[j] \in S
  BY <1>2
<1> HIDE DEF m
<1>4. b = [j \in 1..m |-> b[j]] /\ \A j \in 1..m : b[j] = f[j]
  OBVIOUS
<1>5. \A j \in 1..m : b[j] \in S
  BY <1>3, <1>4
<1> HIDE DEF b
<1>6. b \in Seq(S) /\ DOMAIN b = 1..m
  BY <1>1, <1>4, <1>5, ListOf
<1> QED
  BY <1>1, <1>4, <1>6 DEF m

(* A function over 1..n whose values are given by the values before        *)
(* exists.                                                                 *)
LEMMA HistoryExists ==
  ASSUME NEW S, NEW G, G \in [Nat \X Seq(S) -> S], NEW n \in Nat
  PROVE  \E f \in Seq(S) : Obeys(f, G, n)
<1> DEFINE T == {m \in Nat : \E f \in Seq(S) : Obeys(f, G, m)}
<1>1. 0 \in T
  <2>1. <<>> \in Seq(S) /\ Obeys(<<>>, G, 0)
    BY DEF Obeys
  <2> QED
    BY <2>1
<1>2. ASSUME NEW m \in T, m \in Nat PROVE m + 1 \in T
  <2>1. PICK f \in Seq(S) : Len(f) = m /\ \A i \in 1..m : f[i] = G[<<i, Before(f, i)>>]
    BY DEF Obeys
  <2> DEFINE x == G[<<m + 1, f>>]
             g == Append(f, x)
  <2>2. x \in S
    <3>1. <<m + 1, f>> \in Nat \X Seq(S)
      OBVIOUS
    <3> QED
      BY <3>1
  <2> HIDE DEF x
  <2>3. /\ g \in Seq(S) /\ Len(g) = m + 1 /\ g[m + 1] = x
        /\ \A j \in 1..m : g[j] = f[j]
    BY <2>1, <2>2, PushType
  <2> HIDE DEF g
  <2>4. Before(g, m + 1) = f
    <3>1. f = [j \in 1..m |-> f[j]] /\ (m + 1) - 1 = m
      BY <2>1
    <3>2. Before(g, m + 1) = [j \in 1..m |-> g[j]]
      BY <3>1 DEF Before
    <3> QED
      BY <2>3, <3>1, <3>2
  <2>5. ASSUME NEW i \in 1..m PROVE Before(g, i) = Before(f, i)
    <3>1. \A j \in 1..(i - 1) : j \in 1..m
      OBVIOUS
    <3> QED
      BY <2>3, <3>1 DEF Before
  <2>6. ASSUME NEW i \in 1..(m + 1) PROVE g[i] = G[<<i, Before(g, i)>>]
    <3>1. CASE i = m + 1
      BY <2>3, <2>4, <3>1 DEF x
    <3>2. CASE i \in 1..m
      <4>1. f[i] = G[<<i, Before(f, i)>>]
        BY <2>1, <3>2
      <4> QED
        BY <2>3, <2>5, <3>2, <4>1
    <3> QED
      BY <3>1, <3>2
  <2>7. Obeys(g, G, m + 1)
    BY <2>3, <2>6 DEF Obeys
  <2> QED
    BY <2>3, <2>7
<1> HIDE DEF T
<1>3. n \in T
  BY <1>1, <1>2, NumbersBelow
<1> QED
  BY <1>3 DEF T

\* What is put together from sequences is a sequence of their entries.
LEMMA FlattenType ==
  ASSUME NEW S, NEW ss \in Seq(Seq(S))
  PROVE  FlattenSeq(ss) \in Seq(S)
<1> DEFINE n == Len(ss)
           Eq(f) == f = [i \in 1..n |-> IF i = 1 THEN ss[i] ELSE f[i - 1] \o ss[i]]
           F == CHOOSE f : Eq(f)
<1>1. n \in Nat /\ \A i \in 1..n : ss[i] \in Seq(S)
  OBVIOUS
<1>2. CASE n = 0
  <2>1. ss = <<>>
    BY <1>2
  <2>2. FlattenSeq(ss) = ss
    BY <1>2 DEF FlattenSeq
  <2>3. <<>> \in Seq(S)
    OBVIOUS
  <2> HIDE DEF n
  <2> QED
    BY <2>1, <2>2, <2>3
<1>3. CASE n # 0
  <2>1. FlattenSeq(ss) = F[n]
    BY <1>3 DEF FlattenSeq
  <2> DEFINE G == [p \in Nat \X Seq(Seq(S)) |->
                     IF p[1] = 1 THEN ss[1]
                     ELSE IF p[1] \in 1..n /\ p[1] - 1 \in DOMAIN p[2]
                          THEN p[2][p[1] - 1] \o ss[p[1]] ELSE <<>>]
  <2>2. G \in [Nat \X Seq(Seq(S)) -> Seq(S)]
    <3>1. ASSUME NEW p \in Nat \X Seq(Seq(S)) PROVE G[p] \in Seq(S)
      <4>1. CASE p[1] = 1
        BY <1>1, <1>3, <4>1
      <4>2. CASE p[1] # 1 /\ p[1] \in 1..n /\ p[1] - 1 \in DOMAIN p[2]
        <5>1. p[2][p[1] - 1] \in Seq(S) /\ ss[p[1]] \in Seq(S)
          BY <1>1, <4>2
        <5>2. p[2][p[1] - 1] \o ss[p[1]] \in Seq(S)
          BY <5>1, ConcatProperties
        <5> QED
          BY <4>2, <5>2
      <4>3. CASE p[1] # 1 /\ ~(p[1] \in 1..n /\ p[1] - 1 \in DOMAIN p[2])
        BY <4>3
      <4> QED
        BY <4>1, <4>2, <4>3
    <3> HIDE DEF n
    <3> QED
      BY <3>1
  <2>3. \E f : Eq(f)
    <3>0. \A i \in 1..n : \A h \in Seq(Seq(S)) :
             G[<<i, h>>] = IF i = 1 THEN ss[1] ELSE IF i - 1 \in DOMAIN h THEN h[i - 1] \o ss[i]
                           ELSE <<>>
      <4> HIDE DEF n
      <4>1. ASSUME NEW i \in 1..n, NEW h \in Seq(Seq(S))
            PROVE  G[<<i, h>>] = IF i = 1 THEN ss[1] ELSE IF i - 1 \in DOMAIN h
                                 THEN h[i - 1] \o ss[i] ELSE <<>>
        <5>1. <<i, h>> \in Nat \X Seq(Seq(S)) /\ <<i, h>>[1] = i /\ <<i, h>>[2] = h
          BY <1>1
        <5> QED
          BY <5>1
      <4> QED
        BY <4>1
    <3> HIDE DEF G
    <3>1. PICK f \in Seq(Seq(S)) : Len(f) = n /\ \A i \in 1..n : f[i] = G[<<i, Before(f, i)>>]
      <4> DEFINE Y == Seq(S)
      <4>1. G \in [Nat \X Seq(Y) -> Y] /\ n \in Nat
        BY <1>1, <2>2
      <4> HIDE DEF Y, n
      <4>2. \E f \in Seq(Y) : Obeys(f, G, n)
        BY <4>1, HistoryExists, Zenon
      <4> QED
        BY <4>2 DEF Y, Obeys
    <3>2. ASSUME NEW i \in 1..n PROVE f[i] = IF i = 1 THEN ss[i] ELSE f[i - 1] \o ss[i]
      <4>1. /\ Before(f, i) \in Seq(Seq(S)) /\ DOMAIN Before(f, i) = 1..(i - 1)
            /\ \A j \in 1..(i - 1) : Before(f, i)[j] = f[j]
        <5> DEFINE Y == Seq(S)
        <5>1. f \in Seq(Y) /\ i \in 1..Len(f)
          BY <3>1
        <5> HIDE DEF Y
        <5>2. /\ Before(f, i) \in Seq(Y) /\ DOMAIN Before(f, i) = 1..(i - 1)
              /\ \A j \in 1..(i - 1) : Before(f, i)[j] = f[j]
          BY <5>1, BeforeIs
        <5> QED
          BY <5>2 DEF Y
      <4>2. f[i] = G[<<i, Before(f, i)>>]
        BY <3>1
      <4>3. i # 1 => i - 1 \in 1..(i - 1)
        BY <1>1
      <4> QED
        BY <3>0, <4>1, <4>2, <4>3
    <3>3. f = [i \in 1..n |-> f[i]]
      BY <3>1
    <3>4. Eq(f)
      BY <3>2, <3>3
    <3> QED
      BY <3>4
  <2>4. Eq(F)
    BY <2>3
  <2>5. F[1] = ss[1] /\ \A i \in 1..n : i # 1 => F[i] = F[i - 1] \o ss[i]
    <3> HIDE DEF F, G, n
    <3>1. \A i \in 1..n : F[i] = IF i = 1 THEN ss[i] ELSE F[i - 1] \o ss[i]
      BY <2>4
    <3>2. 1 \in 1..n
      BY <1>1, <1>3
    <3> QED
      BY <3>1, <3>2
  <2> HIDE DEF F, Eq
  <2> DEFINE T == {m \in Nat : m + 1 \in 1..n => F[m + 1] \in Seq(S)}
  <2>6. 0 \in T
    BY <1>1, <2>5
  <2>7. ASSUME NEW m \in T, m \in Nat PROVE m + 1 \in T
    <3>1. ASSUME (m + 1) + 1 \in 1..n PROVE F[(m + 1) + 1] \in Seq(S)
      <4>1. m + 1 \in 1..n /\ ((m + 1) + 1) - 1 = m + 1 /\ (m + 1) + 1 # 1
        BY <1>1, <3>1
      <4>2. F[m + 1] \in Seq(S) /\ ss[(m + 1) + 1] \in Seq(S)
        BY <1>1, <3>1, <4>1
      <4>3. F[(m + 1) + 1] = F[m + 1] \o ss[(m + 1) + 1]
        BY <2>5, <3>1, <4>1
      <4> QED
        BY <4>2, <4>3, ConcatProperties
    <3> QED
      BY <3>1
  <2> HIDE DEF T
  <2>8. n - 1 \in T
    <3>1. n - 1 \in Nat
      BY <1>1, <1>3
    <3> QED
      BY <2>6, <2>7, <3>1, NumbersBelow
  <2>9. F[n] \in Seq(S)
    <3>1. n - 1 \in Nat /\ (n - 1) + 1 = n /\ n \in 1..n
      BY <1>1, <1>3
    <3> QED
      BY <2>8, <3>1 DEF T
  <2> QED
    BY <2>1, <2>9
<1> QED
  BY <1>2, <1>3

-----------------------------------------------------------------------------
(* What the assumptions on the documents say of the resources of one.      *)
Entries(d) == UNION {{<<spec, spec.paths[k]>> :
                        k \in {x \in DOMAIN spec.paths : IsResource(spec.paths[x])}} :
                     spec \in d.specs}

(* The resources of a specification are entries of its document.           *)
LEMMA ResourcesTyped ==
  ASSUME NEW d \in Documents, NEW spec \in d.specs
  PROVE  [j \in DOMAIN Resources(spec) |-> <<spec, Resources(spec)[j]>>] \in Seq(Entries(d))
<1> DEFINE I == {x \in DOMAIN spec.paths : IsResource(spec.paths[x])}
           rs == Resources(spec)
           S == Range(spec.paths)
<1>1. spec.paths \in Seq(S) /\ I \in SUBSET DOMAIN spec.paths
  BY DocumentShape DEF IsList
<1>2. rs = Picked(spec.paths, I)
  BY DEF Resources
<1> HIDE DEF rs, S
<1>3. /\ Cardinality(I) \in Nat /\ DOMAIN rs = 1..Cardinality(I)
      /\ \A k \in 1..Cardinality(I) : Place(I, k) \in I /\ rs[k] = spec.paths[Place(I, k)]
  <2> HIDE DEF I
  <2> QED
    BY <1>1, <1>2, PickedEntries
<1> DEFINE n == Cardinality(I)
           f == [j \in DOMAIN rs |-> <<spec, rs[j]>>]
<1>4. ASSUME NEW k \in 1..n PROVE <<spec, rs[k]>> \in Entries(d)
  <2>1. Place(I, k) \in I /\ rs[k] = spec.paths[Place(I, k)]
    BY <1>3
  <2> DEFINE x == Place(I, k)
  <2> HIDE DEF x
  <2>2. x \in I /\ rs[k] = spec.paths[x]
    BY <2>1 DEF x
  <2> QED
    BY <2>2 DEF Entries
<1> HIDE DEF I
<1>5. f = [j \in 1..n |-> f[j]] /\ \A j \in 1..n : f[j] \in Entries(d)
  BY <1>3, <1>4
<1> HIDE DEF f
<1>6. f \in Seq(Entries(d))
  BY <1>3, <1>5, ListOf
<1> QED
  BY <1>6 DEF f, rs

(* What discovery finds are specifications of the document.                *)
LEMMA SpecsTyped ==
  ASSUME NEW d \in Documents
  PROVE  DiscoverSpecs(d) \in Seq(d.specs)
<1> DEFINE Found(x) == \E s \in d.specs : s.dir = x /\ HasResource(s)
           I == {i \in DOMAIN SpecOrder : Found(SpecOrder[i])}
           has == Picked(SpecOrder, I)
           f == [i \in DOMAIN has |-> CHOOSE s \in d.specs : s.dir = has[i]]
<1>1. SpecOrder \in Seq(STRING) /\ I \in SUBSET DOMAIN SpecOrder
  BY DocumentShape
<1>2. DiscoverSpecs(d) = f
  BY DEF DiscoverSpecs
<1>3. /\ Cardinality(I) \in Nat /\ DOMAIN has = 1..Cardinality(I)
      /\ \A k \in 1..Cardinality(I) : Place(I, k) \in I /\ has[k] = SpecOrder[Place(I, k)]
  <2> HIDE DEF I
  <2> QED
    BY <1>1, PickedEntries
<1>4. \A k \in 1..Cardinality(I) : \E s \in d.specs : s.dir = has[k]
  <2>1. \A i \in I : \E s \in d.specs : s.dir = SpecOrder[i]
    OBVIOUS
  <2> HIDE DEF has, I
  <2> QED
    BY <1>3, <2>1
<1> HIDE DEF has, I
<1>5. f = [k \in 1..Cardinality(I) |-> f[k]] /\ \A k \in 1..Cardinality(I) : f[k] \in d.specs
  BY <1>3, <1>4
<1> HIDE DEF f
<1> QED
  BY <1>2, <1>3, <1>5, ListOf

(* What is to be generated are entries of the document.                    *)
LEMMA AllTyped ==
  ASSUME NEW d \in Documents
  PROVE  AllResources(d) \in Seq(Entries(d))
<1> DEFINE specs == DiscoverSpecs(d)
           Of(spec) == [j \in DOMAIN Resources(spec) |-> <<spec, Resources(spec)[j]>>]
           ss == [i \in DOMAIN specs |-> Of(specs[i])]
           n == Len(specs)
<1>1. n \in Nat /\ DOMAIN specs = 1..n /\ \A i \in 1..n : specs[i] \in d.specs
  BY SpecsTyped
<1>2. \A spec \in d.specs : Of(spec) \in Seq(Entries(d))
  BY ResourcesTyped
<1>3. AllResources(d) = FlattenSeq(ss)
  BY DEF AllResources
<1> HIDE DEF Of, specs, n
<1> DEFINE Y == Seq(Entries(d))
<1>4. ss = [i \in 1..n |-> ss[i]] /\ \A i \in 1..n : ss[i] \in Y
  BY <1>1, <1>2
<1> HIDE DEF ss, Y
<1>5. ss \in Seq(Y)
  BY <1>1, <1>4, ListOf
<1> QED
  BY <1>3, <1>5, FlattenType DEF Y

\* A resource that is generated, with its specification.
Input(spec, r) ==
  /\ spec.servers \in Seq(Seq(Segments)) /\ ServerPath(spec) \in Seq(Segments)
  /\ \A x \in DOMAIN spec.schemas : spec.schemas[x] \in Schemas
  /\ r.path \in Seq(Segments)
  /\ MarkupShape(r.markup)
  /\ \A id \in DOMAIN Ops(spec) :
       LET o == Ops(spec)[id]
       IN  /\ o.path \in Seq(Segments)
           /\ o.op.verb \in {"get", "post", "put", "patch", "delete"}
           /\ o.op.hasBody => o.op.verb \in {"post", "put", "patch"}
           /\ o.op.body \in Schemas
  /\ ResourceFits(spec, r)

(* An operation an id leads to is one of the paths of the document.        *)
LEMMA OpsTyped ==
  ASSUME NEW d \in Documents, NEW spec \in d.specs, NEW id \in DOMAIN Ops(spec)
  PROVE  /\ Ops(spec)[id].path \in Seq(Segments)
         /\ Ops(spec)[id].op.verb \in {"get", "post", "put", "patch", "delete"}
         /\ Ops(spec)[id].op.hasBody => Ops(spec)[id].op.verb \in {"post", "put", "patch"}
         /\ Ops(spec)[id].op.body \in Schemas
<1> DEFINE One(p) == [j \in DOMAIN p.ops |-> [op |-> p.ops[j], path |-> p.path]]
           ss == [i \in DOMAIN spec.paths |-> One(spec.paths[i])]
           each == FlattenSeq(ss)
           Fine(o) == /\ o.path \in Seq(Segments)
                      /\ o.op.verb \in {"get", "post", "put", "patch", "delete"}
                      /\ o.op.hasBody => o.op.verb \in {"post", "put", "patch"}
                      /\ o.op.body \in Schemas
           F == {o \in UNION {Range(One(spec.paths[i])) : i \in DOMAIN spec.paths} : Fine(o)}
<1>1. /\ Len(spec.paths) \in Nat /\ DOMAIN spec.paths = 1..Len(spec.paths)
      /\ \A i \in DOMAIN spec.paths :
           /\ IsList(spec.paths[i].ops)
           /\ \A j \in DOMAIN spec.paths[i].ops :
                Fine([op |-> spec.paths[i].ops[j], path |-> spec.paths[i].path])
  <2>1. IsList(spec.paths)
    BY DocumentShape
  <2>2. \A i \in DOMAIN spec.paths :
           /\ IsList(spec.paths[i].ops) /\ spec.paths[i].path \in Seq(Segments)
           /\ \A j \in DOMAIN spec.paths[i].ops :
                /\ spec.paths[i].ops[j].verb \in {"get", "post", "put", "patch", "delete"}
                /\ spec.paths[i].ops[j].hasBody =>
                     spec.paths[i].ops[j].verb \in {"post", "put", "patch"}
                /\ spec.paths[i].ops[j].body \in Schemas
    BY DocumentShape
  <2> QED
    BY <2>1, <2>2, ListRange
<1>2. ASSUME NEW i \in DOMAIN spec.paths PROVE One(spec.paths[i]) \in Seq(F)
  <2> DEFINE p == spec.paths[i]
             m == Len(p.ops)
             f == One(p)
  <2>1. m \in Nat /\ DOMAIN p.ops = 1..m
    BY <1>1, ListRange
  <2>2. ASSUME NEW j \in 1..m PROVE f[j] \in F
    <3>1. f[j] = [op |-> p.ops[j], path |-> p.path] /\ j \in DOMAIN f
      BY <2>1
    <3>2. f[j] \in Range(f)
      BY <3>1 DEF Range
    <3>3. Fine(f[j])
      <4>1. Fine([op |-> p.ops[j], path |-> p.path])
        BY <1>1, <2>1
      <4> HIDE DEF Fine, f, p
      <4> QED
        BY <3>1, <4>1
    <3> HIDE DEF Fine
    <3> QED
      BY <3>2, <3>3
  <2>3. f = [j \in 1..m |-> f[j]]
    BY <2>1
  <2> HIDE DEF f, m, F
  <2>4. f \in Seq(F)
    BY <2>1, <2>2, <2>3, ListOf
  <2> QED
    BY <2>4 DEF f
<1>3. each \in Seq(F)
  <2> HIDE DEF F, One
  <2> DEFINE Y == Seq(F)
             n == Len(spec.paths)
  <2>1. ss = [i \in 1..n |-> ss[i]] /\ \A i \in 1..n : ss[i] \in Y
    BY <1>1, <1>2
  <2>2. n \in Nat
    BY <1>1
  <2> HIDE DEF ss, Y, n
  <2>3. ss \in Seq(Y)
    BY <2>1, <2>2, ListOf
  <2> QED
    BY <2>3, FlattenType DEF Y
<1> DEFINE J == {i \in DOMAIN each : each[i].op.id = id}
<1>4. id \in {each[i].op.id : i \in DOMAIN each} /\ Ops(spec)[id] = each[Max(J)]
  BY DEF Ops
<1> HIDE DEF each
<1>5. J \in SUBSET (1..Len(each)) /\ Len(each) \in Nat /\ J # {}
  BY <1>3, <1>4
<1>6. Max(J) \in J
  <2> HIDE DEF J
  <2> QED
    BY <1>5, GreatestExists
<1>7. Ops(spec)[id] \in F
  <2> HIDE DEF F
  <2>1. Max(J) \in DOMAIN each
    BY <1>6
  <2> HIDE DEF J
  <2> QED
    BY <1>3, <1>4, <2>1, ElementOfSeq
<1> QED
  BY <1>7

(* Every resource that is generated has what the assumptions say of it.    *)
LEMMA InputOf ==
  ASSUME NEW d \in Documents, NEW i \in DOMAIN AllResources(d)
  PROVE  Input(AllResources(d)[i][1], AllResources(d)[i][2])
<1> DEFINE e == AllResources(d)[i]
           spec == e[1]
           r == e[2]
<1>1. e \in Entries(d)
  BY AllTyped
<1>2. PICK s \in d.specs : \E k \in {x \in DOMAIN s.paths : IsResource(s.paths[x])} :
         e = <<s, s.paths[k]>>
  BY <1>1 DEF Entries
<1>3. PICK k \in DOMAIN s.paths : IsResource(s.paths[k]) /\ e = <<s, s.paths[k]>>
  BY <1>2
<1>4. spec = s /\ r = s.paths[k] /\ HasResource(s)
  <2> HIDE DEF e
  <2>1. spec = s /\ r = s.paths[k]
    BY <1>3
  <2> QED
    BY <1>3, <2>1 DEF HasResource, IsResource
<1>5. s.servers \in Seq(Seq(Segments)) /\ s.servers # <<>>
  BY <1>4, DocumentShape
<1>6. ServerPath(s) \in Seq(Segments)
  BY <1>5 DEF ServerPath
<1>7. /\ \A x \in DOMAIN s.schemas : s.schemas[x] \in Schemas
      /\ s.paths[k].path \in Seq(Segments) /\ MarkupShape(s.paths[k].markup)
  BY DocumentShape
<1>8. ResourceFits(AllResources(d)[i][1], AllResources(d)[i][2])
  BY DocumentsFit
<1>9. ResourceFits(spec, r)
  BY <1>8
<1> HIDE DEF e
<1>10. Input(spec, r)
  BY <1>4, <1>5, <1>6, <1>7, <1>9, OpsTyped DEF Input
<1> QED
  BY <1>10 DEF e

-----------------------------------------------------------------------------
(* The fields of bodies and commands.                                      *)
Table(defs) == \A x \in DOMAIN defs : defs[x] \in Schemas
Properties == {p \in STRING \X Schemas : p[1] # "request_options"}
Fields == {f \in STRING \X Schemas \X BOOLEAN : f[1] # "request_options"}

(* No property of a schema is called request_options.                      *)
LEMMA PropsTyped ==
  ASSUME NEW sch \in Schemas
  PROVE  sch.props \in Seq(Properties)
<1>1. sch.props \in Seq(STRING \X Schemas) /\ "request_options" \notin Keys(sch.props)
  BY SchemasClosed
<1> DEFINE s == sch.props
<1>2. \A i \in 1..Len(s) : s[i] \in STRING \X Schemas /\ s[i][1] # "request_options"
  BY <1>1 DEF Keys
<1>3. \A i \in 1..Len(s) : s[i] \in Properties
  BY <1>2 DEF Properties
<1>4. Len(s) \in Nat /\ s = [i \in 1..Len(s) |-> s[i]]
  BY <1>1
<1> HIDE DEF s
<1>5. s \in Seq(Properties)
  BY <1>3, <1>4, ListOf
<1> QED
  BY <1>5 DEF s

(* Following one reference leads from a schema to a schema.                *)
LEMMA FollowTyped ==
  ASSUME NEW defs, Table(defs), NEW sch \in Schemas
  PROVE  Follow(defs, sch) \in Schemas
<1>1. Lookup(defs, sch.ref) \in Schemas
  BY SchemasClosed DEF Lookup, Table
<1>2. Len(sch.allOf) = 1 => sch.allOf[1] \in Schemas
  BY SchemasClosed
<1> QED
  BY <1>1, <1>2 DEF Follow, IsWrapper

(* Following references as often as the bound allows stays in the schemas. *)
LEMMA FollowedTyped ==
  ASSUME NEW defs, Table(defs), NEW sch \in Schemas
  PROVE  Followed(defs, sch)[Depth] \in Schemas
<1> DEFINE Eq(f) == f = [n \in 0..Depth |-> IF n = 0 THEN sch ELSE Follow(defs, f[n - 1])]
           F == CHOOSE f : Eq(f)
           G == [p \in Nat \X Seq(Schemas) |->
                   IF p[1] - 1 \in DOMAIN p[2] THEN Follow(defs, p[2][p[1] - 1]) ELSE sch]
           m == Depth + 1
<1>1. Followed(defs, sch) = F
  BY DEF Followed
<1>2. Depth \in Nat /\ m \in Nat
  BY DepthIsNumber
<1>3. G \in [Nat \X Seq(Schemas) -> Schemas]
  <2>1. ASSUME NEW p \in Nat \X Seq(Schemas) PROVE G[p] \in Schemas
    <3>1. p[1] - 1 \in DOMAIN p[2] => p[2][p[1] - 1] \in Schemas
      OBVIOUS
    <3> QED
      BY <3>1, FollowTyped
  <2> QED
    BY <2>1
<1>4. \A h \in Seq(Schemas) : \A i \in Nat :
         G[<<i, h>>] = IF i - 1 \in DOMAIN h THEN Follow(defs, h[i - 1]) ELSE sch
  <2>1. ASSUME NEW h \in Seq(Schemas), NEW i \in Nat
        PROVE  G[<<i, h>>] = IF i - 1 \in DOMAIN h THEN Follow(defs, h[i - 1]) ELSE sch
    <3>1. <<i, h>> \in Nat \X Seq(Schemas) /\ <<i, h>>[1] = i /\ <<i, h>>[2] = h
      OBVIOUS
    <3> QED
      BY <3>1
  <2> QED
    BY <2>1
<1> HIDE DEF G, m
<1>5. \E f \in Seq(Schemas) : Obeys(f, G, m)
  BY <1>2, <1>3, HistoryExists, Zenon
<1>6. PICK f \in Seq(Schemas) : Len(f) = m /\ \A i \in 1..m : f[i] = G[<<i, Before(f, i)>>]
  BY <1>5 DEF Obeys
<1>7. ASSUME NEW i \in 1..m
      PROVE  f[i] = IF i = 1 THEN sch ELSE Follow(defs, f[i - 1])
  <2>1. /\ Before(f, i) \in Seq(Schemas) /\ DOMAIN Before(f, i) = 1..(i - 1)
        /\ \A j \in 1..(i - 1) : Before(f, i)[j] = f[j]
    <3>1. i \in 1..Len(f)
      BY <1>6
    <3> QED
      BY <1>6, <3>1, BeforeIs
  <2>2. f[i] = G[<<i, Before(f, i)>>] /\ i \in Nat
    BY <1>6
  <2>3. (i # 1 => i - 1 \in 1..(i - 1)) /\ (i = 1 => i - 1 \notin 1..(i - 1))
    BY <1>2
  <2> QED
    BY <1>4, <2>1, <2>2, <2>3
<1>8. \E g : Eq(g)
  <2> DEFINE g == [n \in 0..Depth |-> f[n + 1]]
  <2>1. \A n \in 0..Depth : n + 1 \in 1..m /\ (n + 1) - 1 = n /\ (n = 0 <=> n + 1 = 1)
                            /\ (n # 0 => n - 1 \in 0..Depth /\ (n - 1) + 1 = n)
    BY <1>2 DEF m
  <2>2. \A n \in 0..Depth : f[n + 1] = IF n = 0 THEN sch ELSE Follow(defs, f[n])
    BY <1>7, <2>1
  <2>3. \A n \in 0..Depth : n # 0 => g[n - 1] = f[n]
    BY <2>1
  <2>4. \A n \in 0..Depth : g[n] = IF n = 0 THEN sch ELSE Follow(defs, g[n - 1])
    BY <2>2, <2>3
  <2>5. g = [n \in 0..Depth |-> g[n]]
    OBVIOUS
  <2> HIDE DEF g
  <2>6. Eq(g)
    BY <2>4, <2>5
  <2> QED
    BY <2>6
<1>9. Eq(F)
  BY <1>8
<1> HIDE DEF F
<1>10. F[0] = sch /\ \A n \in 1..Depth : F[n] = Follow(defs, F[n - 1])
  <2>1. \A n \in 0..Depth : F[n] = IF n = 0 THEN sch ELSE Follow(defs, F[n - 1])
    BY <1>9
  <2> QED
    BY <1>2, <2>1
<1> DEFINE T == {n \in Nat : n <= Depth => F[n] \in Schemas}
<1>11. 0 \in T
  BY <1>10
<1>12. ASSUME NEW n \in T, n \in Nat PROVE n + 1 \in T
  <2>1. ASSUME n + 1 <= Depth PROVE F[n + 1] \in Schemas
    <3>1. n <= Depth /\ n + 1 \in 1..Depth /\ (n + 1) - 1 = n
      BY <1>2, <2>1
    <3>2. F[n] \in Schemas /\ F[n + 1] = Follow(defs, F[n])
      BY <1>10, <3>1
    <3> QED
      BY <3>2, FollowTyped
  <2> QED
    BY <2>1
<1> HIDE DEF T
<1>13. Depth \in T
  BY <1>2, <1>11, <1>12, NumbersBelow
<1> QED
  BY <1>1, <1>2, <1>13 DEF T

(* A schema is resolved to a schema.                                       *)
LEMMA ResolveTyped ==
  ASSUME NEW defs, Table(defs), NEW sch \in Schemas
  PROVE  Resolve(defs, sch) \in Schemas
BY FollowedTyped, SchemasClosed DEF Resolve

(* Keeping the first of each name keeps entries of the list.               *)
LEMMA FirstOfEachTyped ==
  ASSUME NEW S, NEW props \in Seq(S)
  PROVE  FirstOfEach(props) \in Seq(S)
<1> DEFINE I == {i \in DOMAIN props : \A j \in 1 .. i - 1 : props[j][1] # props[i][1]}
<1>1. I \in SUBSET DOMAIN props /\ FirstOfEach(props) = Picked(props, I)
  BY DEF FirstOfEach
<1> HIDE DEF I
<1> QED
  BY <1>1, PickedEntries

(* Ordering the required fields to the front keeps the fields.             *)
LEMMA OrderedTyped ==
  ASSUME NEW S, NEW fields \in Seq(S)
  PROVE  OrderedFields(fields) \in Seq(S)
<1> DEFINE I == {i \in DOMAIN fields : fields[i][3]}
           J == {i \in DOMAIN fields : ~fields[i][3]}
<1>1. /\ I \in SUBSET DOMAIN fields /\ J \in SUBSET DOMAIN fields
      /\ OrderedFields(fields) = Picked(fields, I) \o Picked(fields, J)
  BY DEF OrderedFields
<1> HIDE DEF I, J
<1>2. Picked(fields, I) \in Seq(S) /\ Picked(fields, J) \in Seq(S)
  BY <1>1, PickedEntries
<1> QED
  BY <1>1, <1>2, ConcatProperties

\* Properties of several schemas together, the required ones known.
LEMMA RequiredTyped ==
  ASSUME NEW parts \in Seq(Schemas), NEW req
  PROVE  WithRequired(FirstOfEach(FlattenSeq([i \in DOMAIN parts |-> parts[i].props])), req)
           \in Seq({f \in Fields : f[3] => f[1] \in req})
<1> DEFINE ss == [i \in DOMAIN parts |-> parts[i].props]
           n == Len(parts)
           Y == Seq(Properties)
<1>1. n \in Nat /\ ss = [i \in 1..n |-> ss[i]] /\ \A i \in 1..n : parts[i] \in Schemas
  OBVIOUS
<1>2. \A i \in 1..n : ss[i] \in Y
  BY <1>1, PropsTyped
<1> HIDE DEF ss, Y, n
<1>3. ss \in Seq(Y)
  BY <1>1, <1>2, ListOf
<1> DEFINE props == FirstOfEach(FlattenSeq(ss))
           F == {f \in Fields : f[3] => f[1] \in req}
           w == WithRequired(props, req)
<1>4. props \in Seq(Properties)
  BY <1>3, FlattenType, FirstOfEachTyped DEF Y
<1> HIDE DEF props
<1>5. w = [i \in 1..Len(props) |-> <<props[i][1], props[i][2], props[i][1] \in req>>]
  BY <1>4 DEF WithRequired
<1>6. ASSUME NEW i \in 1..Len(props) PROVE w[i] \in F
  <2>1. props[i] \in Properties
    BY <1>4
  <2>2. props[i][1] \in STRING /\ props[i][2] \in Schemas /\ props[i][1] # "request_options"
    BY <2>1 DEF Properties
  <2> DEFINE x == props[i][1]
             y == props[i][2]
             b == x \in req
  <2>3. w[i] = <<x, y, b>> /\ b \in BOOLEAN /\ (b => x \in req)
    BY <1>5
  <2> HIDE DEF w, x, y, b
  <2>4. /\ <<x, y, b>> \in STRING \X Schemas \X BOOLEAN
        /\ <<x, y, b>>[1] = x /\ <<x, y, b>>[3] = b
    BY <2>2, <2>3 DEF x, y
  <2> QED
    BY <2>2, <2>3, <2>4 DEF Fields, x
<1>7. Len(props) \in Nat /\ w = [i \in 1..Len(props) |-> w[i]]
  BY <1>4, <1>5
<1> HIDE DEF w, F
<1>8. w \in Seq(F)
  BY <1>6, <1>7, ListOf
<1> QED
  BY <1>8 DEF w, F, props, ss

(* The fields of a body are fields, none of them request_options.          *)
LEMMA BodyFieldsTyped ==
  ASSUME NEW defs, Table(defs), NEW body \in Schemas
  PROVE  ObjectBodyFields(defs, body) \in Seq(Fields)
<1> DEFINE whole == Resolve(defs, body)
           more == [i \in DOMAIN whole.allOf |-> Resolve(defs, whole.allOf[i])]
           parts == <<whole>> \o more
           req == UNION {parts[i].req : i \in DOMAIN parts}
           F == {f \in Fields : f[3] => f[1] \in req}
<1>1. whole \in Schemas
  BY ResolveTyped
<1> HIDE DEF whole
<1>2. whole.allOf \in Seq(Schemas)
  BY <1>1, SchemasClosed
<1>3. more \in Seq(Schemas)
  <2> DEFINE n == Len(whole.allOf)
  <2>1. n \in Nat /\ more = [i \in 1..n |-> more[i]]
    BY <1>2
  <2>2. \A i \in 1..n : more[i] \in Schemas
    BY <1>2, ResolveTyped
  <2> HIDE DEF more, n
  <2> QED
    BY <2>1, <2>2, ListOf
<1> HIDE DEF more
<1>4. parts \in Seq(Schemas)
  BY <1>1, <1>3
<1>5. ObjectBodyFields(defs, body)
        = WithRequired(FirstOfEach(FlattenSeq([i \in DOMAIN parts |-> parts[i].props])), req)
  BY DEF ObjectBodyFields, whole, more
<1> HIDE DEF parts, req
<1>6. ObjectBodyFields(defs, body) \in Seq(F)
  BY <1>4, <1>5, RequiredTyped
<1>7. F \subseteq Fields
  OBVIOUS
<1> HIDE DEF F
<1> QED
  BY <1>6, <1>7

\* What a command requires, every variant of it requires.
Shapes(defs, command) ==
  IF "params" \in Keys(Resolve(defs, command).props) THEN CommandVariants(defs, command)
  ELSE <<Plain>>

(* A field a command calls required is required in all its shapes.         *)
LEMMA CommandFieldsTyped ==
  ASSUME NEW defs, Table(defs), NEW command \in Schemas
  PROVE  /\ CommandParamFields(defs, command) \in Seq(Fields)
         /\ CommandParamFields(defs, command)
              \in Seq({f \in Fields : f[3] => \A i \in DOMAIN Shapes(defs, command) :
                                                f[1] \in Shapes(defs, command)[i].req})
<1> DEFINE whole == Resolve(defs, command)
           vs == CommandVariants(defs, command)
           Q == {f \in Fields : f[3] => \A i \in DOMAIN Shapes(defs, command) :
                                          f[1] \in Shapes(defs, command)[i].req}
           fs == CommandParamFields(defs, command)
<1>1. whole \in Schemas
  BY ResolveTyped
<1>2. CASE "params" \notin Keys(whole.props)
  <2>1. fs = <<>>
    BY <1>2 DEF CommandParamFields
  <2> HIDE DEF Q, fs
  <2> QED
    BY <2>1 DEF Q, fs
<1>3. CASE "params" \in Keys(whole.props)
  <2> DEFINE ps == Resolve(defs, At(whole.props, "params"))
             union == IF ps.anyOf # <<>> THEN ps.anyOf ELSE ps.oneOf
  <2>1. At(whole.props, "params") \in Schemas
    <3>1. whole.props \in Seq(STRING \X Schemas)
      BY <1>1, SchemasClosed
    <3>2. \E i \in DOMAIN whole.props : whole.props[i][1] = "params"
      BY <1>3 DEF Keys
    <3> HIDE DEF whole
    <3> QED
      BY <3>1, <3>2 DEF At
  <2>2. ps \in Schemas
    BY <2>1, ResolveTyped
  <2> HIDE DEF ps
  <2>3. union \in Seq(Schemas)
    BY <2>2, SchemasClosed
  <2>4. vs = IF union = <<>> THEN <<ps>> ELSE [i \in DOMAIN union |-> Resolve(defs, union[i])]
    BY DEF CommandVariants, ps
  <2> HIDE DEF union
  <2>5. vs \in Seq(Schemas)
    <3>1. CASE union = <<>>
      BY <2>2, <2>4, <3>1
    <3>2. CASE union # <<>>
      <4> DEFINE n == Len(union)
                 f == [i \in DOMAIN union |-> Resolve(defs, union[i])]
      <4>1. n \in Nat /\ f = [i \in 1..n |-> f[i]]
        BY <2>3
      <4>2. \A i \in 1..n : f[i] \in Schemas
        BY <2>3, ResolveTyped
      <4>3. vs = f
        BY <2>4, <3>2
      <4> HIDE DEF f, n, vs
      <4> QED
        BY <4>1, <4>2, <4>3, ListOf
    <3> QED
      BY <3>1, <3>2
  <2> DEFINE req == {f \in vs[1].req : \A i \in DOMAIN vs : f \in vs[i].req}
             F == {f \in Fields : f[3] => f[1] \in req}
  <2>6. fs = WithRequired(FirstOfEach(FlattenSeq([i \in DOMAIN vs |-> vs[i].props])), req)
    BY <1>3 DEF CommandParamFields
  <2>7. Shapes(defs, command) = vs
    BY <1>3 DEF Shapes
  <2> HIDE DEF vs, fs
  <2>8. F \subseteq Q
    BY <2>7
  <2>9. fs \in Seq(F)
    <3> HIDE DEF req
    <3> QED
      BY <2>5, <2>6, RequiredTyped
  <2>10. F \subseteq Fields
    OBVIOUS
  <2> HIDE DEF F, Q
  <2>11. fs \in Seq(Fields) /\ fs \in Seq(Q)
    BY <2>8, <2>9, <2>10
  <2> QED
    BY <2>11 DEF fs, Q
<1> QED
  BY <1>2, <1>3

-----------------------------------------------------------------------------
(* The records of a method: positional ones, keyword ones, and a tail.     *)
LEMMA Joined ==
  ASSUME NEW S, NEW a \in Seq(S), NEW b \in Seq(S), NEW c \in Seq(S)
  PROVE  /\ a \o b \o c \in Seq(S) /\ Len(a \o b \o c) = Len(a) + Len(b) + Len(c)
         /\ \A i \in 1..Len(a) : (a \o b \o c)[i] = a[i]
         /\ \A i \in 1..Len(b) : (a \o b \o c)[Len(a) + i] = b[i]
         /\ \A i \in 1..Len(c) : (a \o b \o c)[Len(a) + Len(b) + i] = c[i]
<1> DEFINE ab == a \o b
<1>1. Len(a) \in Nat /\ Len(b) \in Nat /\ Len(c) \in Nat
  OBVIOUS
<1>2. /\ ab \in Seq(S) /\ Len(ab) = Len(a) + Len(b)
      /\ \A i \in 1..(Len(a) + Len(b)) : ab[i] = IF i <= Len(a) THEN a[i] ELSE b[i - Len(a)]
  BY ConcatProperties
<1> HIDE DEF ab
<1>3. /\ ab \o c \in Seq(S) /\ Len(ab \o c) = Len(ab) + Len(c)
      /\ \A i \in 1..(Len(ab) + Len(c)) : (ab \o c)[i] = IF i <= Len(ab) THEN ab[i] ELSE c[i - Len(ab)]
  <2>1. ab \in Seq(S) /\ c \in Seq(S)
    BY <1>2

  <2> QED
    BY ONLY <2>1, ConcatProperties
<1> DEFINE abc == ab \o c
<1>4. /\ abc \in Seq(S) /\ Len(abc) = Len(a) + Len(b) + Len(c)
      /\ \A i \in 1..(Len(a) + Len(b) + Len(c)) :
           abc[i] = IF i <= Len(a) + Len(b) THEN ab[i] ELSE c[i - (Len(a) + Len(b))]
  BY <1>2, <1>3
<1> HIDE DEF abc
<1> DEFINE p == Len(a)
           q == Len(b)
           t == Len(c)
<1>5. p \in Nat /\ q \in Nat /\ t \in Nat
  BY <1>1
<1>6. /\ \A i \in 1..(p + q) : ab[i] = IF i <= p THEN a[i] ELSE b[i - p]
      /\ \A i \in 1..(p + q + t) : abc[i] = IF i <= p + q THEN ab[i] ELSE c[i - (p + q)]
  BY <1>2, <1>4
<1> HIDE DEF p, q, t
<1>7. \A i \in 1..p : abc[i] = a[i]
  BY <1>5, <1>6
<1>8. \A i \in 1..q : abc[p + i] = b[i]
  <2>1. ASSUME NEW i \in 1..q PROVE abc[p + i] = b[i]
    <3>1. /\ p + i \in 1..(p + q + t) /\ p + i \in 1..(p + q) /\ p + i <= p + q /\ ~(p + i <= p)
          /\ (p + i) - p = i
      BY <1>5
    <3> QED
      BY <1>6, <3>1
  <2> QED
    BY <2>1
<1>9. \A i \in 1..t : abc[p + q + i] = c[i]
  <2>1. ASSUME NEW i \in 1..t PROVE abc[p + q + i] = c[i]
    <3>1. p + q + i \in 1..(p + q + t) /\ ~(p + q + i <= p + q) /\ (p + q + i) - (p + q) = i
      BY <1>5
    <3> QED
      BY <1>6, <3>1
  <2> QED
    BY <2>1
<1> QED
  BY <1>4, <1>7, <1>8, <1>9 DEF abc, ab, p, q, t

(* request_options goes in front of the tail, behind everything else, and  *)
(* the positional records stay.                                            *)
LEMMA RegisterAligned ==
  ASSUME NEW S, Options \in S,
         NEW pos \in Seq(S), NEW key \in Seq(S), NEW tail \in Seq(S),
         \A i \in DOMAIN pos : pos[i].kind = "positional",
         \A i \in DOMAIN key : key[i].kind = "keyword" /\ key[i].name # "request_options",
         \A i \in DOMAIN tail : tail[i].kind = "var_keyword"
  PROVE  /\ InOrder(Register(pos \o key \o tail))
         /\ SlotNames(Register(pos \o key \o tail)) = [i \in 1..Len(pos) |-> pos[i].name]
         /\ \A i \in DOMAIN Register(pos \o key \o tail) :
              Register(pos \o key \o tail)[i] \in Range(pos) \cup Range(key) \cup Range(tail) \cup {Options}
<1> DEFINE p == Len(pos)
           q == Len(key)
           t == Len(tail)
           rec == pos \o key \o tail
           kept == {i \in DOMAIN rec : rec[i].kind # "var_keyword"}
           at == IF kept = {} THEN 0 ELSE Max(kept)
           new == Register(rec)
<1>1. /\ p \in Nat /\ q \in Nat /\ t \in Nat
      /\ DOMAIN pos = 1..p /\ DOMAIN key = 1..q /\ DOMAIN tail = 1..t
  OBVIOUS
<1>2. /\ rec \in Seq(S) /\ Len(rec) = p + q + t
      /\ \A i \in 1..p : rec[i] = pos[i]
      /\ \A i \in 1..q : rec[p + i] = key[i]
      /\ \A i \in 1..t : rec[p + q + i] = tail[i]
  BY Joined
<1>k. /\ \A i \in 1..p : pos[i].kind = "positional" /\ pos[i].kind # "var_keyword"
      /\ \A i \in 1..q : /\ key[i].kind = "keyword" /\ key[i].kind # "var_keyword"
                         /\ key[i].name # "request_options"
      /\ \A i \in 1..t : tail[i].kind = "var_keyword"
  BY <1>1
<1>3. new = SubSeq(rec, 1, at) \o <<Options>> \o SubSeq(rec, at + 1, Len(rec))
  BY DEF Register
<1> HIDE DEF p, q, t, rec
<1>4. kept = 1..(p + q)
  <2>1. DOMAIN rec = 1..(p + q + t)
    BY <1>2
  <2>2. ASSUME NEW i \in 1..(p + q) PROVE i \in kept
    <3>1. CASE i <= p
      <4>1. i \in 1..p /\ i \in 1..(p + q + t)
        BY <1>1, <3>1
      <4>2. rec[i].kind # "var_keyword"
        BY <1>2, <1>k, <4>1
      <4> QED
        BY <2>1, <4>1, <4>2
    <3>2. CASE i > p
      <4>1. i - p \in 1..q /\ p + (i - p) = i /\ i \in 1..(p + q + t)
        BY <1>1, <3>2
      <4>2. rec[p + (i - p)] = key[i - p] /\ key[i - p].kind # "var_keyword"
        BY <1>2, <1>k, <4>1
      <4> QED
        BY <2>1, <4>1, <4>2
    <3> QED
      BY <1>1, <3>1, <3>2
  <2>3. ASSUME NEW i \in kept PROVE i \in 1..(p + q)
    <3>1. SUFFICES ASSUME i > p + q PROVE FALSE
      BY <1>1, <2>1
    <3>2. i - (p + q) \in 1..t /\ p + q + (i - (p + q)) = i
      BY <1>1, <2>1, <3>1
    <3> QED
      BY <1>1, <1>2, <3>2
  <2> QED
    BY <2>2, <2>3
<1>5. at = p + q
  <2>1. CASE p + q = 0
    BY <1>1, <1>4, <2>1
  <2>2. CASE p + q # 0
    <3>0. p + q \in 1..(p + q) /\ p + q \in Nat
      BY <1>1, <2>2
    <3>1. p + q \in kept /\ p + q \in Nat /\ kept \in SUBSET (1..(p + q)) /\ kept # {}
      <4> HIDE DEF kept
      <4> QED
        BY <1>4, <3>0
    <3>2. Max(kept) \in kept /\ \A i \in kept : i <= Max(kept)
      <4> HIDE DEF kept
      <4> QED
        BY <3>1, GreatestExists
    <3>3. Max(kept) \in 1..(p + q) /\ p + q <= Max(kept)
      BY <1>4, <3>1, <3>2
    <3> QED
      BY <1>1, <1>4, <3>1, <3>3
  <2> QED
    BY <2>1, <2>2
<1> HIDE DEF at, kept, new
<1> DEFINE front == SubSeq(rec, 1, p + q)
           back == SubSeq(rec, (p + q) + 1, p + q + t)
           n == p + q
<1>n. n \in Nat /\ Len(rec) = n + t /\ \A i \in 1..(n + t) : rec[i] \in S
  BY <1>1, <1>2
<1>6. front \in Seq(S) /\ Len(front) = n /\ \A i \in 1..n : front[i] = rec[i]
  <2> HIDE DEF n
  <2>1. \A i \in 1..n : rec[i] \in S
    BY <1>1, <1>n
  <2>2. /\ SubSeq(rec, 1, n) \in Seq(S)
        /\ Len(SubSeq(rec, 1, n)) = IF 1 <= n THEN n - 1 + 1 ELSE 0
        /\ \A i \in 1..(n - 1 + 1) : SubSeq(rec, 1, n)[i] = rec[1 + i - 1]
    BY <1>n, <2>1, SubSeqProperties
  <2>3. Len(SubSeq(rec, 1, n)) = n /\ n - 1 + 1 = n /\ \A i \in 1..n : 1 + i - 1 = i
    BY <1>n, <2>2
  <2> QED
    BY <2>2, <2>3 DEF n
<1>7. back \in Seq(S) /\ Len(back) = t /\ \A i \in 1..t : back[i] = rec[n + i]
  <2> DEFINE m == n + 1
             l == n + t
             bk == SubSeq(rec, m, l)
  <2>1. bk = back
    OBVIOUS
  <2> HIDE DEF n
  <2>2. m \in Int /\ l \in Int /\ l - m + 1 = t /\ (m <= l <=> 1 <= t)
        /\ \A i \in 1..t : m + i - 1 = n + i
    BY <1>1, <1>n
  <2>3. \A i \in m..l : rec[i] \in S
    BY <1>1, <1>n
  <2> HIDE DEF m, l
  <2>4. /\ bk \in Seq(S) /\ Len(bk) = IF m <= l THEN l - m + 1 ELSE 0
        /\ \A i \in 1..(l - m + 1) : bk[i] = rec[m + i - 1]
    BY <2>2, <2>3, SubSeqProperties
  <2> HIDE DEF bk, back
  <2>5. Len(bk) = t /\ \A i \in 1..t : bk[i] = rec[n + i]
    BY <1>1, <2>2, <2>4
  <2> QED
    BY <2>1, <2>4, <2>5
<1>8. new = front \o <<Options>> \o back
  BY <1>2, <1>3, <1>5
<1> HIDE DEF front, back
<1>9. /\ new \in Seq(S) /\ Len(new) = n + 1 + t
      /\ \A i \in 1..n : new[i] = rec[i]
      /\ new[n + 1] = Options
      /\ \A i \in 1..t : new[n + 1 + i] = tail[i]
  <2> DEFINE mid == <<Options>>
  <2>1. mid \in Seq(S) /\ Len(mid) = 1 /\ mid[1] = Options
    OBVIOUS
  <2> HIDE DEF mid, n
  <2>2. /\ front \o mid \o back \in Seq(S) /\ Len(front \o mid \o back) = Len(front) + Len(mid) + Len(back)
        /\ \A i \in 1..Len(front) : (front \o mid \o back)[i] = front[i]
        /\ \A i \in 1..Len(mid) : (front \o mid \o back)[Len(front) + i] = mid[i]
        /\ \A i \in 1..Len(back) : (front \o mid \o back)[Len(front) + Len(mid) + i] = back[i]
    <3>1. front \in Seq(S) /\ mid \in Seq(S) /\ back \in Seq(S)
      BY <1>6, <1>7, <2>1
    <3> QED
      BY ONLY <3>1, Joined
  <2>3. /\ new \in Seq(S) /\ Len(new) = n + 1 + t
        /\ \A i \in 1..n : new[i] = front[i]
        /\ \A i \in 1..1 : new[n + i] = mid[i]
        /\ \A i \in 1..t : new[n + 1 + i] = back[i]
    BY <1>6, <1>7, <1>8, <2>1, <2>2 DEF mid
  <2>4. \A i \in 1..t : back[i] = tail[i]
    BY <1>2, <1>7 DEF n
  <2>5. 1 \in 1..1
    OBVIOUS
  <2> QED
    BY <1>6, <2>1, <2>3, <2>4, <2>5
<1> HIDE DEF n
<1>dom. DOMAIN new = 1..(n + 1 + t)
  BY <1>9
<1>10. n = p + q
  BY DEF n
<1>11. ASSUME NEW i \in DOMAIN new
       PROVE  \/ i \in 1..p /\ new[i] = pos[i] /\ new[i].kind = "positional"
              \/ i \in (p + 1)..n /\ i - p \in 1..q /\ new[i] = key[i - p]
                 /\ new[i].kind = "keyword" /\ new[i].name # "request_options"
              \/ i = n + 1 /\ new[i] = Options
              \/ i \in (n + 2)..(n + 1 + t) /\ i - (n + 1) \in 1..t /\ new[i] = tail[i - (n + 1)]
                 /\ new[i].kind = "var_keyword"
  <2>1. CASE i \in 1..p
    <3>1. i \in 1..n
      BY <1>1, <1>10, <2>1
    <3> QED
      BY <1>2, <1>k, <1>9, <2>1, <3>1
  <2>2. CASE i \in (p + 1)..n
    <3>1. i - p \in 1..q /\ p + (i - p) = i /\ i \in 1..n
      BY <1>1, <1>10, <2>2
    <3>2. rec[p + (i - p)] = key[i - p]
      BY <1>2, <3>1
    <3>3. new[i] = key[i - p]
      BY <1>9, <3>1, <3>2
    <3> QED
      BY <1>k, <2>2, <3>1, <3>3
  <2>3. CASE i = n + 1
    BY <1>9, <2>3
  <2>4. CASE i \in (n + 2)..(n + 1 + t)
    <3>1. i - (n + 1) \in 1..t /\ n + 1 + (i - (n + 1)) = i
      BY <1>1, <1>n, <2>4
    <3>2. new[n + 1 + (i - (n + 1))] = tail[i - (n + 1)]
      BY <1>9, <3>1
    <3> QED
      BY <1>k, <2>4, <3>1, <3>2
  <2>5. i \in 1..p \/ i \in (p + 1)..n \/ i = n + 1 \/ i \in (n + 2)..(n + 1 + t)
    <3>1. i \in 1..(n + 1 + t)
      BY <1>dom
    <3>2. n \in Nat /\ p \in Nat /\ t \in Nat /\ i \in Int /\ 1 <= i /\ i <= n + 1 + t
      BY <1>1, <1>n, <3>1
    <3>3. CASE i <= p
      BY <3>2, <3>3
    <3>4. CASE i > p /\ i <= n
      BY <3>2, <3>4
    <3>5. CASE i > n
      BY <3>2, <3>5
    <3> QED
      BY <3>2, <3>3, <3>4, <3>5
  <2> QED
    BY <2>1, <2>2, <2>3, <2>4, <2>5, Zenon
<1>12. /\ Options.kind = "keyword" /\ Options.name = "request_options"
       /\ "positional" # "keyword" /\ "keyword" # "var_keyword" /\ "positional" # "var_keyword"
  BY DEF Options, Rec
<1>13. {i \in DOMAIN new : new[i] = Options} = {n + 1}
  <2>1. n + 1 \in DOMAIN new /\ new[n + 1] = Options
    BY <1>1, <1>n, <1>9, <1>dom
  <2>2. ASSUME NEW i \in DOMAIN new, new[i] = Options PROVE i = n + 1
    BY <1>11, <1>12, <2>2
  <2> QED
    BY <2>1, <2>2
<1>14. InOrder(new)
  <2> DEFINE where == {i \in DOMAIN new : new[i] = Options}
  <2>1. where = {n + 1}
    BY <1>13
  <2> HIDE DEF where
  <2>2. Cardinality(where) = 1
    BY <2>1, FS_Singleton
  <2>3. Max(where) = n + 1
    BY <1>n, <2>1 DEF Max
  <2>4. \A i \in DOMAIN new : i > n + 1 <=> new[i].kind = "var_keyword"
    <3>1. ASSUME NEW i \in DOMAIN new PROVE i > n + 1 <=> new[i].kind = "var_keyword"
      <4>1. i \in Int /\ (i \in 1..p => ~(i > n + 1)) /\ (i \in (p + 1)..n => ~(i > n + 1))
            /\ (i \in (n + 2)..(n + 1 + t) => i > n + 1)
        BY <1>1, <1>n, <1>10, <1>dom
      <4>2. i = n + 1 => ~(i > n + 1)
        BY <1>n
      <4> QED
        BY <1>11, <1>12, <4>1, <4>2
    <3> QED
      BY <3>1
  <2> QED
    BY <2>2, <2>3, <2>4 DEF InOrder, where
<1>15. {i \in DOMAIN new : new[i].kind = "positional"} = 1..p
  <2>1. \A i \in 1..p : i \in DOMAIN new /\ i \in 1..n
    BY <1>1, <1>n, <1>10, <1>dom
  <2>2. \A i \in 1..p : new[i].kind = "positional"
    BY <1>2, <1>k, <1>9, <2>1
  <2>3. ASSUME NEW i \in DOMAIN new, new[i].kind = "positional" PROVE i \in 1..p
    BY <1>11, <1>12, <2>3
  <2> QED
    BY <2>1, <2>2, <2>3
<1>16. SlotNames(new) = [i \in 1..p |-> pos[i].name]
  <2> DEFINE I == {i \in DOMAIN new : new[i].kind = "positional"}
             its == Picked(new, I)
  <2>1. p \in 0..Len(new) /\ I = 1..p
    BY <1>1, <1>9, <1>10, <1>15
  <2>2. Picked(new, 1..p) = [k \in 1..p |-> new[k]]
    BY <1>9, <2>1, PickedPart
  <2>3. its = [k \in 1..p |-> pos[k]]
    <3>1. \A k \in 1..p : new[k] = pos[k]
      <4>1. \A i \in 1..p : i \in 1..n
        BY <1>1, <1>10
      <4> QED
        BY <1>2, <1>9, <4>1
    <3> QED
      BY <2>1, <2>2, <3>1
  <2>4. SlotNames(new) = [i \in DOMAIN its |-> its[i].name]
    BY DEF SlotNames
  <2> HIDE DEF its
  <2> QED
    BY <2>3, <2>4
<1>17. \A i \in DOMAIN new : new[i] \in Range(pos) \cup Range(key) \cup Range(tail) \cup {Options}
  BY <1>1, <1>11 DEF Range
<1> QED
  BY <1>14, <1>16, <1>17 DEF new, rec, p

-----------------------------------------------------------------------------
(* Paths and the names of their arguments.                                 *)
LEMMA ImageFinite ==
  ASSUME NEW h, NEW n \in Nat
  PROVE  /\ IsFiniteSet({h[j] : j \in 1..n}) /\ Cardinality({h[j] : j \in 1..n}) \in Nat
         /\ Cardinality({h[j] : j \in 1..n}) <= n
<1> DEFINE U == {h[j] : j \in 1..n}
           f == [j \in 1..n |-> h[j]]
<1>1. f \in Surjection(1..n, U)
  BY DEF Surjection
<1>2. IsFiniteSet(1..n) /\ Cardinality(1..n) = n
  BY FS_Interval
<1> HIDE DEF f, U
<1>3. IsFiniteSet(U) /\ Cardinality(U) <= Cardinality(1..n)
  BY <1>1, <1>2, FS_Surjection
<1>4. Cardinality(U) \in Nat
  BY <1>3, FS_CardinalityType
<1> QED
  BY <1>2, <1>3, <1>4 DEF U

\* The name that is taken is one with a number of suffixes.
LEMMA UnusedSuffixed ==
  ASSUME NEW name, NEW suffix, NEW used, Cardinality(used) \in Nat
  PROVE  Unused(name, suffix, used) \in {Suffixed(name, suffix, k) : k \in Nat \cup {Min({})}}
<1> DEFINE W == {n \in 0..Cardinality(used) : Suffixed(name, suffix, n) \notin used}
<1>1. Min(W) \in Nat \cup {Min({})}
  <2>1. CASE W = {}
    <3> HIDE DEF W
    <3> QED
      BY <2>1
  <2>2. CASE W # {}
    <3>1. W \in SUBSET Nat
      OBVIOUS
    <3> HIDE DEF W
    <3> QED
      BY <2>2, <3>1, LeastExists
  <2> QED
    BY <2>1, <2>2
<1>2. Unused(name, suffix, used) = Suffixed(name, suffix, Min(W))
  BY DEF Unused
<1> HIDE DEF W
<1> QED
  BY <1>1, <1>2

Params(segs) == Picked(segs, {k \in DOMAIN segs : IsPar(segs[k])})

(* The parameters of a path are segments of it.                            *)
LEMMA ParamsTyped ==
  ASSUME NEW segs \in Seq(Segments)
  PROVE  /\ Params(segs) \in Seq(Segments)
         /\ Len(Params(segs)) = Cardinality({k \in DOMAIN segs : IsPar(segs[k])})
         /\ Len(Params(segs)) \in Nat /\ DOMAIN Params(segs) = 1..Len(Params(segs))
<1> DEFINE I == {k \in DOMAIN segs : IsPar(segs[k])}
<1>1. I \in SUBSET DOMAIN segs /\ Params(segs) = Picked(segs, I)
  BY DEF Params
<1> HIDE DEF I
<1>2. Picked(segs, I) \in Seq(Segments) /\ Len(Picked(segs, I)) = Cardinality(I)
  BY <1>1, PickedEntries
<1> DEFINE p == Picked(segs, I)
<1> HIDE DEF p
<1>3. p \in Seq(Segments) => Len(p) \in Nat /\ DOMAIN p = 1..Len(p)
  OBVIOUS
<1> QED
  BY <1>1, <1>2, <1>3 DEF p, I

(* Each name is one that none before it has, as far as there is one.       *)
FreeInTurn(f, names, suffix, n) ==
  /\ f = [i \in 1..n |-> f[i]]
  /\ \A i \in 1..n : f[i] = Unused(names[i], suffix, {f[j] : j \in 1..(i - 1)})

LEMMA InTurnIs ==
  ASSUME NEW n \in Nat, NEW names, DOMAIN names = 1..n, NEW suffix
  PROVE  FreeInTurn(InTurn(names, suffix), names, suffix, n)
<1> DEFINE Val(i, h) == Unused(names[i], suffix, {h[j] : j \in 1..(i - 1)})
           Eq(f) == f = [i \in DOMAIN names |-> Unused(names[i], suffix, {f[j] : j \in 1..(i - 1)})]
           Names(i) == {Suffixed(names[i], suffix, k) : k \in Nat \cup {Min({})}}
           S == (UNION {Names(i) : i \in DOMAIN names}) \cup {Unset}
           G == [p \in Nat \X Seq(S) |-> IF p[1] \in DOMAIN names THEN Val(p[1], p[2]) ELSE Unset]
<1>1. n \in Nat /\ DOMAIN names = 1..n
  OBVIOUS
<1>2. InTurn(names, suffix) = CHOOSE f : Eq(f)
  BY DEF InTurn
<1>3. ASSUME NEW i \in 1..n, NEW h PROVE Val(i, h) \in S
  <2> DEFINE U == {h[j] : j \in 1..(i - 1)}
  <2>1. i - 1 \in Nat
    BY <1>1
  <2>2. Cardinality(U) \in Nat
    BY <2>1, ImageFinite
  <2> HIDE DEF U, Names
  <2>3. Unused(names[i], suffix, U) \in Names(i)
    BY <2>2, UnusedSuffixed DEF Names
  <2>4. Val(i, h) \in Names(i)
    BY <2>3 DEF U
  <2>5. i \in DOMAIN names
    BY <1>1
  <2> HIDE DEF Val, G
  <2> QED
    BY <2>4, <2>5
<1>4. G \in [Nat \X Seq(S) -> S]
  <2> HIDE DEF Val
  <2>1. Unset \in S
    OBVIOUS
  <2> HIDE DEF S
  <2>2. \A p \in Nat \X Seq(S) : p[1] \in DOMAIN names => Val(p[1], p[2]) \in S
    <3>1. \A i \in DOMAIN names : \A h : Val(i, h) \in S
      BY <1>1, <1>3
    <3> QED
      BY <3>1
  <2> QED
    BY <2>1, <2>2
<1>5. \A i \in 1..n : \A h \in Seq(S) : G[<<i, h>>] = Val(i, h)
  <2> HIDE DEF Val, S
  <2>1. ASSUME NEW i \in 1..n, NEW h \in Seq(S) PROVE G[<<i, h>>] = Val(i, h)
    <3>1. <<i, h>> \in Nat \X Seq(S) /\ <<i, h>>[1] = i /\ <<i, h>>[2] = h /\ i \in DOMAIN names
      BY <1>1
    <3> QED
      BY <3>1
  <2> QED
    BY <2>1, Zenon
<1> HIDE DEF G, S
<1>6. \E f \in Seq(S) : Obeys(f, G, n)
  BY <1>1, <1>4, HistoryExists, Zenon
<1>7. PICK f \in Seq(S) : Len(f) = n /\ \A i \in 1..n : f[i] = G[<<i, Before(f, i)>>]
  BY <1>6 DEF Obeys
<1>8. ASSUME NEW i \in 1..n PROVE f[i] = Val(i, f)
  <2>1. /\ Before(f, i) \in Seq(S) /\ \A j \in 1..(i - 1) : Before(f, i)[j] = f[j]
    <3> DEFINE b == Before(f, i)
    <3> HIDE DEF Val
    <3>1. f \in Seq(S) /\ Len(f) = n
      BY <1>7
    <3>2. \A j \in 1..n : f[j] \in S
      BY <3>1
    <3>3. i - 1 \in Nat /\ \A j \in 1..(i - 1) : j \in 1..n
      BY <1>1
    <3>4. b = [j \in 1..(i - 1) |-> f[j]]
      BY DEF Before
    <3> HIDE DEF b
    <3>5. \A j \in 1..(i - 1) : b[j] = f[j] /\ b[j] \in S
      BY <3>2, <3>3, <3>4
    <3>6. b = [j \in 1..(i - 1) |-> b[j]]
      BY <3>4, <3>5
    <3>7. b \in Seq(S)
      BY ONLY <3>3, <3>5, <3>6, ListOf
    <3> QED
      BY <3>5, <3>7 DEF b
  <2>2. f[i] = Val(i, Before(f, i))
    <3> HIDE DEF Val
    <3> QED
      BY <1>5, <1>7, <2>1
  <2>3. {Before(f, i)[j] : j \in 1..(i - 1)} = {f[j] : j \in 1..(i - 1)}
    BY <2>1
  <2> QED
    BY <2>2, <2>3
<1>9. \E f1 : Eq(f1)
  <2>1. f = [i \in DOMAIN names |-> f[i]]
    BY <1>1, <1>7
  <2>2. f = [i \in DOMAIN names |-> Val(i, f)]
    BY <1>1, <1>8, <2>1
  <2> QED
    BY <2>2
<1> DEFINE g == CHOOSE f1 : Eq(f1)
<1>10. Eq(g)
  BY <1>9
<1>12. InTurn(names, suffix) = g
  BY <1>2
<1> HIDE DEF g
<1>11. /\ g = [i \in 1..n |-> g[i]]
       /\ \A i \in 1..n : g[i] = Unused(names[i], suffix, {g[j] : j \in 1..(i - 1)})
  BY <1>1, <1>10
<1> QED
  BY <1>11, <1>12 DEF FreeInTurn

(* The arguments of a path are the names of its parameters, in turn.       *)
LEMMA ArgNamesIs ==
  ASSUME NEW segs \in Seq(Segments)
  PROVE  /\ ArgNames(segs) = [i \in 1..Len(Params(segs)) |-> ArgNames(segs)[i]]
         /\ ArgNames(segs) = InTurn([i \in 1..Len(Params(segs)) |-> ArgFor(Params(segs)[i])], "2")
<1> DEFINE n == Len(Params(segs))
           names == [i \in 1..n |-> ArgFor(Params(segs)[i])]
<1>1. n \in Nat /\ DOMAIN Params(segs) = 1..n
  BY ParamsTyped
<1>2. ArgNames(segs) = InTurn(names, "2")
  BY <1>1 DEF ArgNames, Params
<1>3. DOMAIN names = 1..n
  OBVIOUS
<1> HIDE DEF names
<1>4. InTurn(names, "2") = [i \in 1..n |-> InTurn(names, "2")[i]]
  <2>1. FreeInTurn(InTurn(names, "2"), names, "2", n)
    BY <1>1, <1>3, InTurnIs
  <2> QED
    BY <2>1 DEF FreeInTurn
<1> QED
  BY <1>2, <1>4 DEF names

(* A part of a list.                                                       *)
LEMMA SegmentsPart ==
  ASSUME NEW S, NEW s \in Seq(S), NEW a \in 1..(Len(s) + 1), NEW b \in 0..Len(s)
  PROVE  /\ SubSeq(s, a, b) \in Seq(S)
         /\ Len(SubSeq(s, a, b)) = IF a <= b THEN b - a + 1 ELSE 0
         /\ \A i \in 1..(b - a + 1) : SubSeq(s, a, b)[i] = s[a + i - 1]
<1>1. a \in Int /\ b \in Int /\ \A i \in a..b : s[i] \in S
  OBVIOUS
<1> QED
  BY <1>1, SubSeqProperties

\* The collection is a path, and without parameters.
LEMMA CollectionTyped ==
  ASSUME NEW spec, NEW r, Input(spec, r)
  PROVE  /\ CollectionSegment(r.path, r.markup) \in Seq(Segments)
         /\ \A i \in DOMAIN CollectionSegment(r.path, r.markup) :
              ~IsPar(CollectionSegment(r.path, r.markup)[i])
<1> DEFINE pars == {i \in DOMAIN r.path : IsPar(r.path[i])}
           c == CollectionSegment(r.path, r.markup)
<1>1. r.path \in Seq(Segments) /\ r.markup.collection \in Seq(Segments)
  BY DEF Input, MarkupShape
<1>2. CASE r.markup.hasCollection
  <2>1. c = r.markup.collection
    BY <1>2 DEF CollectionSegment
  <2>2. \A i \in DOMAIN r.markup.collection : ~IsPar(r.markup.collection[i])
    BY <1>2 DEF Input, ResourceFits
  <2> QED
    BY <1>1, <2>1, <2>2
<1>3. CASE ~r.markup.hasCollection /\ pars = {}
  <2>1. c = r.path
    BY <1>3 DEF CollectionSegment
  <2> QED
    BY <1>1, <1>3, <2>1
<1>4. CASE ~r.markup.hasCollection /\ pars # {}
  <2> DEFINE m == Min(pars) - 1
  <2>1. c = SubSeq(r.path, 1, m)
    BY <1>4 DEF CollectionSegment
  <2>2. Min(pars) \in pars /\ \A i \in pars : Min(pars) <= i
    <3>1. pars \in SUBSET Nat /\ pars # {}
      BY <1>1, <1>4
    <3> HIDE DEF pars
    <3> QED
      BY <3>1, LeastExists
  <2>3. m \in 0..Len(r.path) /\ Len(r.path) \in Nat
    BY <1>1, <2>2
  <2>4. \A i \in 1..m : i \in DOMAIN r.path /\ ~IsPar(r.path[i])
    <3>1. Min(pars) \in Int /\ DOMAIN r.path = 1..Len(r.path)
      BY <1>1, <2>2
    <3>2. ASSUME NEW i \in 1..m PROVE i \in DOMAIN r.path /\ i \notin pars
      <4> HIDE DEF pars
      <4> QED
        BY <2>2, <2>3, <3>1
    <3> QED
      BY <3>2
  <2> HIDE DEF m, c
  <2>5. /\ c \in Seq(Segments) /\ Len(c) = IF 1 <= m THEN m - 1 + 1 ELSE 0
        /\ \A i \in 1..(m - 1 + 1) : c[i] = r.path[1 + i - 1]
    <3>1. 1 \in 1..(Len(r.path) + 1)
      BY <2>3
    <3> QED
      BY <1>1, <2>1, <2>3, <3>1, SegmentsPart
  <2>6. DOMAIN c = 1..m /\ \A i \in 1..m : c[i] = r.path[i]
    BY <2>3, <2>5
  <2> QED
    BY <2>4, <2>5, <2>6 DEF c
<1> QED
  BY <1>2, <1>3, <1>4

(* There is no parameter in the base path of a resource.                   *)
LEMMA BaseTyped ==
  ASSUME NEW spec, NEW r, Input(spec, r)
  PROVE  /\ BasePath(spec, r) \in Seq(Segments)
         /\ \A i \in DOMAIN BasePath(spec, r) : ~IsPar(BasePath(spec, r)[i])
<1> DEFINE s == ServerPath(spec)
           c == CollectionSegment(r.path, r.markup)
<1>1. s \in Seq(Segments) /\ \A i \in DOMAIN s : ~IsPar(s[i])
  BY DEF Input, ResourceFits
<1>2. c \in Seq(Segments) /\ \A i \in DOMAIN c : ~IsPar(c[i])
  BY CollectionTyped
<1>3. BasePath(spec, r) = s \o c
  BY DEF BasePath
<1> HIDE DEF s, c
<1>4. /\ s \o c \in Seq(Segments) /\ Len(s \o c) = Len(s) + Len(c)
      /\ \A i \in 1..(Len(s) + Len(c)) : (s \o c)[i] = IF i <= Len(s) THEN s[i] ELSE c[i - Len(s)]
  BY <1>1, <1>2, ConcatProperties
<1>5. \A i \in 1..(Len(s) + Len(c)) : ~IsPar((s \o c)[i])
  BY <1>1, <1>2, <1>4
<1>6. DOMAIN (s \o c) = 1..(Len(s) + Len(c))
  BY <1>4
<1> QED
  BY <1>3, <1>4, <1>5, <1>6

(* What follows the base path are segments.                                *)
LEMMA TailTyped ==
  ASSUME NEW spec, NEW r, Input(spec, r), NEW p \in Seq(Segments)
  PROVE  RelativeTail(spec, r, p).segs \in Seq(Segments)
<1> DEFINE full == BasePath(spec, r)
           absp == ServerPath(spec) \o p
<1>1. full \in Seq(Segments)
  BY BaseTyped
<1>2. absp \in Seq(Segments)
  <2>1. ServerPath(spec) \in Seq(Segments)
    BY DEF Input
  <2> QED
    BY <2>1, ConcatProperties
<1>3. CASE CollectionSegment(r.path, r.markup) # <<>> /\ IsPrefix(full, absp)
  <2>1. RelativeTail(spec, r, p).segs = SubSeq(absp, Len(full) + 1, Len(absp))
    BY <1>3 DEF RelativeTail
  <2> HIDE DEF full, absp
  <2>2. Len(full) + 1 \in 1..(Len(absp) + 1) /\ Len(absp) \in 0..Len(absp)
    BY <1>1, <1>2, <1>3 DEF IsPrefix
  <2> QED
    BY <1>2, <2>1, <2>2, SegmentsPart
<1>4. CASE ~(CollectionSegment(r.path, r.markup) # <<>> /\ IsPrefix(full, absp))
  <2>1. RelativeTail(spec, r, p).segs = absp
    BY <1>4 DEF RelativeTail
  <2> QED
    BY <1>2, <2>1
<1> QED
  BY <1>3, <1>4

-----------------------------------------------------------------------------
(* The records of what is emitted fit the sub they are emitted with.       *)
LEMMA IsListOf ==
  ASSUME NEW n \in Nat, NEW s, s = [i \in 1..n |-> s[i]]
  PROVE  IsList(s) /\ Len(s) = n /\ DOMAIN s = 1..n
<1>1. \A i \in 1..n : s[i] \in Range(s)
  BY DEF Range
<1> QED
  BY <1>1, ListOf DEF IsList

(* A list of something is a list of anything that holds it.                *)
LEMMA WiderList ==
  ASSUME NEW s, IsList(s), NEW S, Range(s) \subseteq S
  PROVE  s \in Seq(S)
<1>1. /\ Len(s) \in Nat /\ s = [i \in 1..Len(s) |-> s[i]]
      /\ \A i \in 1..Len(s) : s[i] \in S
  BY ListRange
<1> QED
  BY <1>1, ListOf

\* The records of a sub come in three parts.
Kinds(pos, key, tail) ==
  /\ IsList(pos) /\ \A i \in DOMAIN pos : pos[i].kind = "positional"
  /\ IsList(key) /\ \A i \in DOMAIN key : key[i].kind = "keyword" /\ key[i].name # "request_options"
  /\ IsList(tail) /\ \A i \in DOMAIN tail : tail[i].kind = "var_keyword"
Parts(pos, key, tail) == pos \o key \o tail

(* RegisterAligned, for lists of whatever they hold.                       *)
LEMMA RegisterLists ==
  ASSUME NEW pos, NEW key, NEW tail, Kinds(pos, key, tail)
  PROVE  /\ InOrder(Register(Parts(pos, key, tail)))
         /\ SlotNames(Register(Parts(pos, key, tail))) = [i \in 1..Len(pos) |-> pos[i].name]
         /\ \A i \in DOMAIN Register(Parts(pos, key, tail)) :
              Register(Parts(pos, key, tail))[i]
                \in Range(pos) \cup Range(key) \cup Range(tail) \cup {Options}
<1> DEFINE S == Range(pos) \cup Range(key) \cup Range(tail) \cup {Options}
<1>1. Options \in S /\ Range(pos) \subseteq S /\ Range(key) \subseteq S /\ Range(tail) \subseteq S
  OBVIOUS
<1> HIDE DEF S
<1>2. pos \in Seq(S) /\ key \in Seq(S) /\ tail \in Seq(S)
  BY <1>1, WiderList DEF Kinds
<1>3. /\ \A i \in DOMAIN pos : pos[i].kind = "positional"
      /\ \A i \in DOMAIN key : key[i].kind = "keyword" /\ key[i].name # "request_options"
      /\ \A i \in DOMAIN tail : tail[i].kind = "var_keyword"
  BY DEF Kinds
<1> QED
  BY <1>1, <1>2, <1>3, RegisterAligned DEF Parts

Fitting(made) == InOrder(made.records) /\ SlotNames(made.records) = made.sub.slots

(* A method whose slots are its positional records, in their order, fits   *)
(* its records.                                                            *)
LEMMA FitsWith ==
  ASSUME NEW pos, NEW key, NEW tail, Kinds(pos, key, tail), NEW made,
         made.records = Register(Parts(pos, key, tail)),
         made.sub.slots = [i \in 1..Len(pos) |-> pos[i].name]
  PROVE  Fitting(made)
BY RegisterLists DEF Fitting

(* A list and one more entry.                                              *)
LEMMA AppendList ==
  ASSUME NEW a, IsList(a), NEW x
  PROVE  /\ IsList(Append(a, x)) /\ Len(Append(a, x)) = Len(a) + 1
         /\ \A i \in 1..Len(a) : Append(a, x)[i] = a[i]
         /\ Append(a, x)[Len(a) + 1] = x
<1> DEFINE S == Range(a) \cup {x}
           b == Append(a, x)
<1>1. x \in S /\ Range(a) \subseteq S
  OBVIOUS
<1> HIDE DEF S
<1>2. a \in Seq(S)
  BY <1>1, WiderList
<1>3. /\ b \in Seq(S) /\ Len(b) = Len(a) + 1 /\ Len(a) \in Nat
      /\ \A i \in 1..Len(a) : b[i] = a[i]
      /\ b[Len(a) + 1] = x
  BY <1>1, <1>2, PushType
<1> HIDE DEF b
<1>4. Len(b) \in Nat /\ b = [i \in 1..Len(b) |-> b[i]]
  BY <1>3
<1>5. IsList(b)
  BY <1>4, IsListOf
<1> QED
  BY <1>3, <1>5 DEF b

None == <<>>
(* The list of nothing and the list of one.                                *)
LEMMA EmptyList ==
  /\ IsList(None) /\ DOMAIN None = {}
  /\ \A x : IsList(<<x>>) /\ DOMAIN <<x>> = {1} /\ <<x>>[1] = x
<1>1. <<>> \in Seq(Range(<<>>)) /\ DOMAIN (<<>>) = {}
  OBVIOUS
<1>2. \A x : <<x>> \in Seq({x}) /\ Range(<<x>>) = {x} /\ DOMAIN <<x>> = {1} /\ <<x>>[1] = x
  BY DEF Range
<1> QED
  BY <1>1, <1>2 DEF IsList, None

(* Positional records, with and without one in the tail.                   *)
LEMMA Ended ==
  ASSUME NEW a, IsList(a), NEW x
  PROVE  a = Parts(a, None, None) /\ Append(a, x) = Parts(a, None, <<x>>)
<1> DEFINE S == Range(a) \cup {x}
<1>1. x \in S /\ Range(a) \subseteq S
  OBVIOUS
<1> HIDE DEF S
<1>2. a \in Seq(S)
  BY <1>1, WiderList
<1>3. a \o <<>> = a
  BY <1>2, ConcatEmptySeq
<1>4. Append(a, x) = a \o <<x>>
  BY <1>1, <1>2, AppendIsConcat
<1> QED
  BY <1>3, <1>4 DEF Parts, None

\* Two keyword records after the fields, the second one the tail.
LEMMA EndedTwice ==
  ASSUME NEW a, IsList(a), NEW f, IsList(f), NEW x, NEW y
  PROVE  a \o f \o <<x, y>> = Parts(a, Append(f, x), <<y>>)
<1> DEFINE S == Range(a) \cup Range(f) \cup {x, y}
<1>1. x \in S /\ y \in S /\ Range(a) \subseteq S /\ Range(f) \subseteq S
  OBVIOUS
<1> HIDE DEF S
<1>2. a \in Seq(S)
  BY <1>1, WiderList
<1>3. f \in Seq(S)
  BY <1>1, WiderList
<1> DEFINE u == <<x>>
           v == <<y>>
<1>4. u \in Seq(S) /\ v \in Seq(S)
  BY <1>1
<1>9. u \o v = <<x, y>>
  <2>1. u \o v \in Seq(S) /\ Len(u \o v) = 2 /\ (u \o v)[1] = x /\ (u \o v)[2] = y
    <3>1. /\ u \o v \in Seq(S) /\ Len(u \o v) = Len(u) + Len(v)
          /\ \A i \in 1..(Len(u) + Len(v)) : (u \o v)[i] = IF i <= Len(u) THEN u[i] ELSE v[i - Len(u)]
      <4> HIDE DEF u, v
      <4> QED
        BY <1>4, ConcatProperties
    <3>2. Len(u) = 1 /\ Len(v) = 1 /\ u[1] = x /\ v[1] = y
      OBVIOUS
    <3> DEFINE uv == u \o v
    <3> HIDE DEF uv, u, v
    <3>3. uv \in Seq(S) /\ Len(uv) = 2 /\ \A i \in 1..2 : uv[i] = IF i <= 1 THEN u[i] ELSE v[i - 1]
      BY <3>1, <3>2 DEF uv
    <3>4. uv[1] = x /\ uv[2] = y
      BY <3>2, <3>3
    <3> QED
      BY <3>3, <3>4 DEF uv
  <2> DEFINE uv == u \o v
             xy == <<x, y>>
  <2>2. xy \in Seq(S) /\ Len(xy) = 2 /\ xy[1] = x /\ xy[2] = y
    BY <1>1
  <2> HIDE DEF uv, xy
  <2>3. \A i \in 1..2 : i = 1 \/ i = 2
    OBVIOUS
  <2>4. uv = [i \in 1..2 |-> uv[i]] /\ xy = [i \in 1..2 |-> xy[i]]
    BY <2>1, <2>2 DEF uv
  <2>5. uv = xy
    BY <2>1, <2>2, <2>3, <2>4 DEF uv
  <2> QED
    BY <2>5 DEF uv, xy
<1>5. Append(f, x) = f \o u
  BY <1>1, <1>3, AppendIsConcat
<1> HIDE DEF u, v
<1>6. a \o f \in Seq(S)
  BY <1>2, <1>3, ConcatProperties
<1>7. (a \o f) \o (u \o v) = ((a \o f) \o u) \o v
  <2> DEFINE w == a \o f
  <2>1. w \in Seq(S)
    BY <1>6
  <2> HIDE DEF w
  <2>2. w \o (u \o v) = (w \o u) \o v
    BY <1>4, <2>1, ConcatAssociative
  <2> QED
    BY <2>2 DEF w
<1>8. (a \o f) \o u = a \o (f \o u)
  BY <1>2, <1>3, <1>4, ConcatAssociative
<1> QED
  BY <1>5, <1>7, <1>8, <1>9 DEF Parts, v

(* The records of ids are positional and have their names.                 *)
LEMMA IdsFit ==
  ASSUME NEW n \in Nat, NEW ids, ids = [i \in 1..n |-> ids[i]]
  PROVE  /\ IsList(Ids(ids)) /\ Len(Ids(ids)) = n /\ DOMAIN Ids(ids) = 1..n
         /\ \A i \in 1..n : Ids(ids)[i].kind = "positional" /\ Ids(ids)[i].name = ids[i]
<1> DEFINE p == Ids(ids)
<1>1. p = [i \in 1..n |-> Rec(ids[i], "positional", "string", TRUE)]
  BY DEF Ids
<1> HIDE DEF p
<1>2. p = [i \in 1..n |-> p[i]]
  BY <1>1
<1>3. IsList(p) /\ Len(p) = n /\ DOMAIN p = 1..n
  BY <1>2, IsListOf
<1>4. \A i \in 1..n : p[i].kind = "positional" /\ p[i].name = ids[i]
  BY <1>1 DEF Rec
<1> QED
  BY <1>3, <1>4 DEF p

(* The records of fields are keywords and have their names.                *)
LEMMA FieldsFit ==
  ASSUME NEW defs, NEW fields \in Seq(Fields)
  PROVE  /\ IsList(FieldRecords(defs, fields))
         /\ DOMAIN FieldRecords(defs, fields) = DOMAIN fields
         /\ \A i \in DOMAIN fields :
              /\ FieldRecords(defs, fields)[i].kind = "keyword"
              /\ FieldRecords(defs, fields)[i].name = fields[i][1]
              /\ FieldRecords(defs, fields)[i].name # "request_options"
              /\ FieldRecords(defs, fields)[i].required = fields[i][3]
<1> DEFINE f == FieldRecords(defs, fields)
           n == Len(fields)
<1>1. n \in Nat /\ DOMAIN fields = 1..n /\ \A i \in 1..n : fields[i] \in Fields
  OBVIOUS
<1>2. f = [i \in DOMAIN fields |-> Rec(fields[i][1], "keyword",
             CanonicalType(defs, fields[i][2], fields[i][3]), fields[i][3])]
  BY DEF FieldRecords
<1> HIDE DEF f, n
<1>3. f = [i \in 1..n |-> f[i]]
  BY <1>1, <1>2
<1>4. IsList(f) /\ DOMAIN f = 1..n
  BY <1>1, <1>3, IsListOf
<1>5. \A i \in 1..n : fields[i][1] # "request_options"
  BY <1>1 DEF Fields
<1>6. \A i \in 1..n : f[i].kind = "keyword" /\ f[i].name = fields[i][1] /\ f[i].required = fields[i][3]
  BY <1>1, <1>2 DEF Rec
<1> QED
  BY <1>1, <1>4, <1>5, <1>6 DEF f

\* The keyword records: fields and what takes the rest.
LEMMA KeysFit ==
  ASSUME NEW defs, NEW fields \in Seq(Fields)
  PROVE  LET key == Append(FieldRecords(defs, fields), Extras) IN
         /\ IsList(key)
         /\ \A i \in DOMAIN key :
              /\ key[i].kind = "keyword" /\ key[i].name # "request_options"
              /\ key[i].required => \E k \in DOMAIN fields : fields[k][3] /\ key[i].name = fields[k][1]
<1> DEFINE f == FieldRecords(defs, fields)
           key == Append(f, Extras)
<1>1. /\ IsList(f) /\ DOMAIN f = DOMAIN fields
      /\ \A i \in DOMAIN fields :
           /\ f[i].kind = "keyword" /\ f[i].name = fields[i][1]
           /\ f[i].name # "request_options" /\ f[i].required = fields[i][3]
  BY FieldsFit
<1> HIDE DEF f
<1>2. /\ IsList(key) /\ Len(key) = Len(f) + 1
      /\ \A i \in 1..Len(f) : key[i] = f[i]
      /\ key[Len(f) + 1] = Extras
  BY <1>1, AppendList
<1>3. Extras.kind = "keyword" /\ Extras.name # "request_options" /\ Extras.required = FALSE
  BY DEF Extras, Rec
<1> HIDE DEF key
<1>4. DOMAIN key = 1..Len(key) /\ Len(f) \in Nat /\ DOMAIN f = 1..Len(f)
  BY <1>1, <1>2, ListRange
<1>5. ASSUME NEW i \in DOMAIN key
      PROVE  \/ i \in DOMAIN fields /\ key[i] = f[i]
             \/ key[i] = Extras
  BY <1>1, <1>2, <1>4
<1>6. ASSUME NEW i \in DOMAIN key
      PROVE  /\ key[i].kind = "keyword" /\ key[i].name # "request_options"
             /\ key[i].required => \E k \in DOMAIN fields : fields[k][3] /\ key[i].name = fields[k][1]
  <2>1. CASE i \in DOMAIN fields /\ key[i] = f[i]
    BY <1>1, <2>1
  <2>2. CASE key[i] = Extras
    BY <1>3, <2>2
  <2> QED
    BY <1>5, <2>1, <2>2
<1> QED
  BY <1>2, <1>6 DEF key, f

(* A declared method that is emitted fits its records, whatever its verb   *)
(* and its body.                                                           *)
LEMMA MethodFits ==
  ASSUME NEW spec, NEW r, Input(spec, r), NEW op, NEW p \in Seq(Segments),
         op.verb \in {"get", "post", "put", "patch", "delete"}, op.body \in Schemas
  PROVE  Fitting(EmitMethod(spec, r, op, p))
<1> DEFINE where == MethodCallPath(spec, r, p)
           segs == RelativeTail(spec, r, p).segs
           names == where.ids
           n == Len(Params(segs))
           ids == Ids(names)
           defs == spec.schemas
           writes == op.verb \in {"post", "put", "patch"}
           Made(form, slots, records) ==
             [sub |-> Sub(form, op.verb, where, slots), records |-> Register(records)]
           made == EmitMethod(spec, r, op, p)
<1>1. segs \in Seq(Segments)
  BY TailTyped
<1>2. names = ArgNames(segs)
  BY DEF MethodCallPath
<1>3. n \in Nat /\ names = [i \in 1..n |-> names[i]]
  <2> HIDE DEF segs, names
  <2> QED
    BY <1>1, <1>2, ParamsTyped, ArgNamesIs
<1> HIDE DEF n, names
<1>4. /\ IsList(ids) /\ Len(ids) = n /\ DOMAIN ids = 1..n
      /\ \A i \in 1..n : ids[i].kind = "positional" /\ ids[i].name = names[i]
  BY <1>3, IdsFit
<1> HIDE DEF ids
<1>5. names = [i \in 1..Len(ids) |-> ids[i].name]
  BY <1>3, <1>4
<1>6. ASSUME NEW form, NEW slots, NEW records, made = Made(form, slots, records),
             NEW pos, NEW key, NEW tail, Kinds(pos, key, tail), records = Parts(pos, key, tail),
             slots = [i \in 1..Len(pos) |-> pos[i].name]
      PROVE  Fitting(made)
  <2> HIDE DEF made, where
  <2>1. made.records = Register(records) /\ made.sub.slots = slots
    BY <1>6 DEF Sub
  <2> QED
    BY <1>6, <2>1, FitsWith
<1>7. \A x : Slurpy(x).kind = "var_keyword"
  BY DEF Slurpy, Rec
<1>8. IsList(ids)
  BY <1>4
<1>9. Kinds(ids, None, None) /\ \A x : Kinds(ids, None, <<Slurpy(x)>>)
  BY <1>4, <1>7, EmptyList DEF Kinds
<1>10. ids = Parts(ids, None, None) /\ \A x : Append(ids, x) = Parts(ids, None, <<x>>)
  BY <1>8, Ended
<1>11. CASE writes /\ op.hasBody /\ IsObjectBody(defs, op.body)
  <2> DEFINE fields == OrderedFields(ObjectBodyFields(defs, op.body))
             f == FieldRecords(defs, fields)
             key == Append(f, Extras)
             tail == <<Slurpy("kwargs")>>
             records == BodyFieldRecords(defs, ObjectBodyFields(defs, op.body), ids)
  <2>1. fields \in Seq(Fields)
    <3>1. Table(defs)
      BY DEF Input, Table
    <3> QED
      BY <3>1, BodyFieldsTyped, OrderedTyped
  <2>2. made = Made("named", names, records)
    BY <1>11 DEF EmitMethod, ids, names
  <2> HIDE DEF fields
  <2>3. /\ IsList(key)
        /\ \A i \in DOMAIN key : key[i].kind = "keyword" /\ key[i].name # "request_options"
    BY <2>1, KeysFit
  <2>4. IsList(f)
    BY <2>1, FieldsFit
  <2>5. records = ids \o f \o <<Extras, Slurpy("kwargs")>>
    BY DEF BodyFieldRecords, fields
  <2> HIDE DEF f, records, made, Made
  <2>6. records = Parts(ids, key, tail)
    BY <1>8, <2>4, <2>5, EndedTwice
  <2>7. Kinds(ids, key, tail)
    <3> HIDE DEF key
    <3> QED
      BY <1>4, <1>7, <2>3, EmptyList DEF Kinds
  <2> HIDE DEF key, tail
  <2> QED
    BY <1>5, <1>6, <2>2, <2>6, <2>7 DEF made
<1>12. CASE writes /\ op.hasBody /\ ~IsObjectBody(defs, op.body)
  <2> DEFINE x == Rec("body", "positional", "dict<string,any>", TRUE)
             records == Append(ids, x)
             slots == Append(names, "body")
  <2>1. made = Made("single", slots, records)
    BY <1>12 DEF EmitMethod, ids, names
  <2>2. x.kind = "positional" /\ x.name = "body"
    BY DEF Rec
  <2> HIDE DEF x
  <2>3. /\ IsList(records) /\ Len(records) = n + 1
        /\ \A i \in 1..n : records[i] = ids[i]
        /\ records[n + 1] = x
    BY <1>4, <1>8, AppendList
  <2>4. IsList(names) /\ Len(names) = n
    BY <1>3, IsListOf
  <2>5. IsList(names)
    BY <2>4
  <2>6. /\ IsList(slots) /\ Len(slots) = n + 1
        /\ \A i \in 1..n : slots[i] = names[i]
        /\ slots[n + 1] = "body"
    BY <2>4, <2>5, AppendList
  <2> HIDE DEF records, slots
  <2>7. DOMAIN records = 1..(n + 1)
    BY <2>3, ListRange
  <2>8. \A i \in 1..(n + 1) : records[i].kind = "positional" /\ records[i].name = slots[i]
    <3>1. \A i \in 1..(n + 1) : i \in 1..n \/ i = n + 1
      BY <1>3
    <3> QED
      BY <1>4, <2>2, <2>3, <2>6, <3>1
  <2>9. slots = [i \in 1..Len(records) |-> records[i].name]
    BY <2>3, <2>6, <2>8, ListRange
  <2>10. IsList(records)
    BY <2>3
  <2>11. records = Parts(records, None, None)
    BY <2>10, Ended
  <2>12. Kinds(records, None, None)
    BY <2>7, <2>8, <2>10, EmptyList DEF Kinds
  <2> HIDE DEF made, Made
  <2> QED
    BY <1>6, <2>1, <2>9, <2>11, <2>12 DEF made
<1>13. CASE op.verb = "get"
  <2> DEFINE records == Append(ids, Slurpy("params"))
             tail == <<Slurpy("params")>>
  <2>1. made = Made("query", names, records)
    BY <1>13 DEF EmitMethod, ids, names
  <2>2. records = Parts(ids, None, tail) /\ Kinds(ids, None, tail)
    BY <1>9, <1>10
  <2> HIDE DEF made, Made, records, tail
  <2> QED
    BY <1>5, <1>6, <2>1, <2>2 DEF made
<1>14. CASE writes /\ ~op.hasBody
  <2>1. made = Made("bare", names, ids)
    BY <1>14 DEF EmitMethod, ids, names
  <2> HIDE DEF made, Made
  <2> QED
    BY <1>5, <1>6, <1>9, <1>10, <2>1 DEF made
<1>15. CASE op.verb = "delete"
  <2>1. made = Made("plain", names, ids)
    BY <1>15 DEF EmitMethod, ids, names
  <2> HIDE DEF made, Made
  <2> QED
    BY <1>5, <1>6, <1>9, <1>10, <2>1 DEF made
<1> QED
  BY <1>11, <1>12, <1>13, <1>14, <1>15

(* Two lists, one behind the other.                                        *)
LEMMA ConcatLists ==
  ASSUME NEW a, IsList(a), NEW b, IsList(b)
  PROVE  /\ IsList(a \o b) /\ Len(a \o b) = Len(a) + Len(b)
         /\ DOMAIN (a \o b) = 1..(Len(a) + Len(b))
         /\ \A i \in 1..Len(a) : (a \o b)[i] = a[i]
         /\ \A i \in 1..Len(b) : (a \o b)[Len(a) + i] = b[i]
<1> DEFINE S == Range(a) \cup Range(b)
           c == a \o b
<1>1. Range(a) \subseteq S /\ Range(b) \subseteq S
  OBVIOUS
<1> HIDE DEF S
<1>2. a \in Seq(S) /\ b \in Seq(S)
  BY <1>1, WiderList
<1>3. a \in Seq(S)
  BY <1>2
<1>4. /\ c \in Seq(S) /\ Len(c) = Len(a) + Len(b)
      /\ \A i \in 1..(Len(a) + Len(b)) : c[i] = IF i <= Len(a) THEN a[i] ELSE b[i - Len(a)]
  BY <1>2, <1>3, ConcatProperties
<1> HIDE DEF c
<1>5. Len(a) \in Nat /\ Len(b) \in Nat
  BY <1>2
<1>6. c = [i \in 1..(Len(a) + Len(b)) |-> c[i]]
  BY <1>4
<1>7. IsList(c) /\ DOMAIN c = 1..(Len(a) + Len(b))
  BY <1>5, <1>6, IsListOf
<1> DEFINE p == Len(a)
           q == Len(b)
<1>8. p \in Nat /\ q \in Nat /\ \A i \in 1..(p + q) : c[i] = IF i <= p THEN a[i] ELSE b[i - p]
  BY <1>4, <1>5
<1> HIDE DEF p, q
<1>9. \A i \in 1..p : c[i] = a[i]
  BY <1>8
<1>10. ASSUME NEW i \in 1..q PROVE c[p + i] = b[i]
  <2>1. p + i \in 1..(p + q) /\ ~(p + i <= p) /\ (p + i) - p = i
    BY <1>8
  <2> QED
    BY <1>8, <2>1
<1> QED
  BY <1>4, <1>7, <1>9, <1>10 DEF c, p, q

(* A table by name has an entry for each name, the entry of some pair of   *)
(* that name.                                                              *)
LEMMA ByNameIs ==
  ASSUME NEW pairs, IsList(pairs)
  PROVE  /\ DOMAIN ByName(pairs) = {pairs[i][1] : i \in DOMAIN pairs}
         /\ \A i \in DOMAIN pairs : \E k \in DOMAIN pairs :
              pairs[k][1] = pairs[i][1] /\ ByName(pairs)[pairs[i][1]] = pairs[k][2]
<1>1. DOMAIN ByName(pairs) = {pairs[i][1] : i \in DOMAIN pairs}
  BY DEF ByName
<1>2. ASSUME NEW i \in DOMAIN pairs
      PROVE  \E k \in DOMAIN pairs :
               pairs[k][1] = pairs[i][1] /\ ByName(pairs)[pairs[i][1]] = pairs[k][2]
  <2> DEFINE n == pairs[i][1]
             I == {x \in DOMAIN pairs : pairs[x][1] = n}
  <2>1. ByName(pairs)[n] = pairs[Max(I)][2]
    BY DEF ByName
  <2>2. I \in SUBSET (1..Len(pairs)) /\ Len(pairs) \in Nat /\ I # {}
    BY ListRange
  <2> HIDE DEF I
  <2>3. Max(I) \in I
    BY <2>2, GreatestExists
  <2>4. Max(I) \in DOMAIN pairs /\ pairs[Max(I)][1] = n
    BY <2>3 DEF I
  <2> QED
    BY <2>1, <2>4
<1> QED
  BY <1>1, <1>2

(* A set method fits its records: the arguments stand in the same order in *)
(* both.                                                                   *)
LEMMA SetFits ==
  ASSUME NEW spec, NEW r, NEW sm, ArgsFit(sm), sm.args \in Seq(STRING \X STRING \X BOOLEAN)
  PROVE  /\ Fitting(EmitSetMethod(spec, r, sm))
         /\ EmitSetMethod(spec, r, sm).sub.slots
              = <<"resource_id">> \o [i \in DOMAIN sm.args |-> sm.args[i][1]]
<1> DEFINE args == sm.args
           n == Len(args)
           made == EmitSetMethod(spec, r, sm)
           type(a) == CanonicalType(spec.schemas,
                        IF a[2] \in Keys(UpdateFieldSchemas(spec, r))
                        THEN At(UpdateFieldSchemas(spec, r), a[2]) ELSE Plain, a[3])
           rid == Rec("resource_id", "positional", "string", TRUE)
           recs == [i \in DOMAIN args |-> Rec(args[i][1], "positional", type(args[i]), args[i][3])]
           names == [i \in DOMAIN args |-> args[i][1]]
           pos == <<rid>> \o recs
           slots == <<"resource_id">> \o names
           x == Slurpy("extra")
<1>1. SetArgs(sm) = args
  BY DEF ArgsFit
<1>2. made.records = Register(pos \o <<x>>) /\ made.sub.slots = slots
  <2>1. made.records = Register(pos \o <<x>>)
    BY DEF EmitSetMethod
  <2>2. made.sub.slots = slots
    BY <1>1 DEF EmitSetMethod, Sub
  <2> QED
    BY <2>1, <2>2
<1>3. n \in Nat /\ DOMAIN args = 1..n
  OBVIOUS
<1>4. /\ recs = [i \in 1..n |-> recs[i]] /\ names = [i \in 1..n |-> names[i]]
      /\ \A i \in 1..n : recs[i].kind = "positional" /\ recs[i].name = names[i]
  BY <1>3 DEF Rec
<1>5. rid.kind = "positional" /\ rid.name = "resource_id" /\ x.kind = "var_keyword"
  BY DEF Rec, Slurpy
<1> DEFINE one == <<rid>>
           two == <<"resource_id">>
<1>6. /\ IsList(one) /\ Len(one) = 1 /\ one[1] = rid
      /\ IsList(two) /\ Len(two) = 1 /\ two[1] = "resource_id"
  BY EmptyList
<1> HIDE DEF one, two, recs, names, n, args, made, rid, x
<1>7. IsList(recs) /\ Len(recs) = n /\ IsList(names) /\ Len(names) = n
  BY <1>3, <1>4, IsListOf
<1>lists. IsList(one) /\ IsList(recs) /\ IsList(two) /\ IsList(names)
  BY <1>6, <1>7
<1>8. /\ IsList(one \o recs) /\ Len(one \o recs) = 1 + n /\ DOMAIN (one \o recs) = 1..(1 + n)
      /\ (one \o recs)[1] = one[1]
      /\ \A i \in 1..n : (one \o recs)[1 + i] = recs[i]
  <2>1. /\ IsList(one \o recs) /\ Len(one \o recs) = Len(one) + Len(recs)
        /\ DOMAIN (one \o recs) = 1..(Len(one) + Len(recs))
        /\ \A i \in 1..Len(one) : (one \o recs)[i] = one[i]
        /\ \A i \in 1..Len(recs) : (one \o recs)[Len(one) + i] = recs[i]
    BY ONLY <1>lists, ConcatLists
  <2> DEFINE c == one \o recs
  <2> HIDE DEF c
  <2>2. /\ IsList(c) /\ Len(c) = Len(one) + Len(recs) /\ DOMAIN c = 1..(Len(one) + Len(recs))
        /\ \A i \in 1..Len(one) : c[i] = one[i]
        /\ \A i \in 1..Len(recs) : c[Len(one) + i] = recs[i]
    BY <2>1 DEF c
  <2>3. 1 \in 1..1
    OBVIOUS
  <2>4. /\ IsList(c) /\ Len(c) = 1 + n /\ DOMAIN c = 1..(1 + n)
        /\ c[1] = one[1] /\ \A i \in 1..n : c[1 + i] = recs[i]
    BY <1>6, <1>7, <2>2, <2>3
  <2> QED
    BY <2>4 DEF c
<1>9. /\ IsList(two \o names) /\ Len(two \o names) = 1 + n /\ DOMAIN (two \o names) = 1..(1 + n)
      /\ (two \o names)[1] = two[1]
      /\ \A i \in 1..n : (two \o names)[1 + i] = names[i]
  <2>1. /\ IsList(two \o names) /\ Len(two \o names) = Len(two) + Len(names)
        /\ DOMAIN (two \o names) = 1..(Len(two) + Len(names))
        /\ \A i \in 1..Len(two) : (two \o names)[i] = two[i]
        /\ \A i \in 1..Len(names) : (two \o names)[Len(two) + i] = names[i]
    BY ONLY <1>lists, ConcatLists
  <2> DEFINE c == two \o names
  <2> HIDE DEF c
  <2>2. /\ IsList(c) /\ Len(c) = Len(two) + Len(names) /\ DOMAIN c = 1..(Len(two) + Len(names))
        /\ \A i \in 1..Len(two) : c[i] = two[i]
        /\ \A i \in 1..Len(names) : c[Len(two) + i] = names[i]
    BY <2>1 DEF c
  <2>3. 1 \in 1..1
    OBVIOUS
  <2>4. /\ IsList(c) /\ Len(c) = 1 + n /\ DOMAIN c = 1..(1 + n)
        /\ c[1] = two[1] /\ \A i \in 1..n : c[1 + i] = names[i]
    BY <1>6, <1>7, <2>2, <2>3
  <2> QED
    BY <2>4 DEF c
<1>10. pos = one \o recs /\ slots = two \o names
  BY DEF one, two
<1> HIDE DEF pos, slots
<1>11. ASSUME NEW i \in 1..(1 + n) PROVE pos[i].kind = "positional" /\ pos[i].name = slots[i]
  <2>1. CASE i = 1
    <3>1. pos[1] = rid /\ slots[1] = "resource_id"
      BY <1>6, <1>8, <1>9, <1>10
    <3> QED
      BY <1>5, <2>1, <3>1
  <2>2. CASE i # 1
    <3>1. i - 1 \in 1..n /\ 1 + (i - 1) = i
      BY <1>3, <2>2
    <3>2. pos[1 + (i - 1)] = recs[i - 1] /\ slots[1 + (i - 1)] = names[i - 1]
      BY <1>8, <1>9, <1>10, <3>1
    <3> QED
      BY <1>4, <3>1, <3>2
  <2> QED
    BY <2>1, <2>2
<1>12. IsList(pos) /\ Len(pos) = 1 + n /\ DOMAIN pos = 1..(1 + n)
  BY <1>8, <1>10
<1>13. slots = [i \in 1..Len(pos) |-> pos[i].name]
  <2>1. slots = [i \in 1..Len(slots) |-> slots[i]] /\ Len(slots) = 1 + n
    BY <1>9, <1>10, ListRange
  <2> QED
    BY <1>11, <1>12, <2>1
<1>14. Kinds(pos, None, <<x>>)
  BY <1>5, <1>11, <1>12, EmptyList DEF Kinds
<1>15. pos \o <<x>> = Parts(pos, None, <<x>>)
  <2> DEFINE S == Range(pos)
  <2>1. pos \in Seq(S)
    BY <1>12 DEF IsList
  <2> HIDE DEF S
  <2>2. pos \o <<>> = pos
    BY <2>1, ConcatEmptySeq
  <2> QED
    BY <2>2 DEF Parts, None
<1>16. Fitting(made)
  <2>1. made.records = Register(Parts(pos, None, <<x>>))
    BY <1>2, <1>15, Zenon
  <2>2. made.sub.slots = [i \in 1..Len(pos) |-> pos[i].name]
    BY <1>2, <1>13, Zenon
  <2> QED
    BY <1>14, <2>1, <2>2, FitsWith
<1> QED
  BY <1>2, <1>16 DEF made, slots, two, names, args

(* A command fits its records, and what they require, every shape of it    *)
(* requires.                                                               *)
LEMMA CommandFits ==
  ASSUME NEW spec, Table(spec.schemas), NEW entry
  PROVE  LET made == EmitCommand(spec, entry)
             command == Lookup(spec.schemas, entry[2])
         IN  /\ Fitting(made)
             /\ \A i \in DOMAIN made.records :
                  made.records[i].required /\ made.records[i].kind = "keyword" =>
                    \A k \in DOMAIN Shapes(spec.schemas, command) :
                      made.records[i].name \in Shapes(spec.schemas, command)[k].req
<1> DEFINE defs == spec.schemas
           made == EmitCommand(spec, entry)
           command == Lookup(defs, entry[2])
           Req(name) == \A k \in DOMAIN Shapes(defs, command) : name \in Shapes(defs, command)[k].req
           names == IF CommandHasId(defs, command) THEN <<"call_id">> ELSE <<>>
           n == Len(names)
           ids == Ids(names)
           fields == OrderedFields(CommandParamFields(defs, command))
           f == FieldRecords(defs, fields)
           key == Append(f, Extras)
<1>1. made.records = Register(ids \o f \o <<Extras>>) /\ made.sub.slots = names
  BY DEF EmitCommand, Sub
<1>2. n \in Nat /\ names = [i \in 1..n |-> names[i]]
  OBVIOUS
<1>3. command \in Schemas
  BY SchemasClosed DEF Table, Lookup
<1> HIDE DEF command
<1> DEFINE Q == {g \in Fields : g[3] => Req(g[1])}
<1>4. CommandParamFields(defs, command) \in Seq(Fields) /\ CommandParamFields(defs, command) \in Seq(Q)
  BY <1>3, CommandFieldsTyped
<1> HIDE DEF Q
<1>5. fields \in Seq(Fields) /\ fields \in Seq(Q)
  BY <1>4, OrderedTyped
<1> HIDE DEF names, n, ids, fields, made
<1>6. /\ IsList(ids) /\ Len(ids) = n /\ DOMAIN ids = 1..n
      /\ \A i \in 1..n : ids[i].kind = "positional" /\ ids[i].name = names[i]
  BY <1>2, IdsFit DEF ids
<1>7. /\ IsList(key)
      /\ \A i \in DOMAIN key :
           /\ key[i].kind = "keyword" /\ key[i].name # "request_options"
           /\ key[i].required => \E k \in DOMAIN fields : fields[k][3] /\ key[i].name = fields[k][1]
  BY <1>5, KeysFit
<1>8. IsList(f)
  BY <1>5, FieldsFit
<1>9. ids \o f \o <<Extras>> = Parts(ids, key, None)
  <2> DEFINE S == Range(ids) \cup Range(f) \cup {Extras}
             u == <<Extras>>
  <2>1. Range(ids) \subseteq S /\ Range(f) \subseteq S /\ Extras \in S
    OBVIOUS
  <2>2. u \in Seq(S)
    BY <2>1
  <2> HIDE DEF S, f
  <2>3. ids \in Seq(S)
    BY <1>6, <2>1, WiderList
  <2>4. f \in Seq(S)
    BY <1>8, <2>1, WiderList
  <2>5. key = f \o u
    BY <2>1, <2>4, AppendIsConcat
  <2> HIDE DEF u, key
  <2>6. (ids \o f) \o u = ids \o (f \o u)
    BY <2>2, <2>3, <2>4, ConcatAssociative
  <2>7. f \o u \in Seq(S)
    BY <2>2, <2>4, ConcatProperties
  <2>8. key \in Seq(S)
    BY <2>5, <2>7
  <2>9. ids \o key \in Seq(S)
    BY <2>3, <2>8, ConcatProperties
  <2> DEFINE w == ids \o key
  <2>10. w \in Seq(S)
    BY <2>9
  <2> HIDE DEF w
  <2>11. w \o <<>> = w
    BY <2>10, ConcatEmptySeq
  <2> QED
    BY <2>5, <2>6, <2>11 DEF Parts, None, w, u
<1> HIDE DEF f
<1>10. Kinds(ids, key, None)
  <2> HIDE DEF key
  <2> QED
    BY <1>6, <1>7, EmptyList DEF Kinds
<1>11. names = [i \in 1..Len(ids) |-> ids[i].name]
  BY <1>2, <1>6
<1> HIDE DEF key
<1>made. made.records = Register(Parts(ids, key, None))
  BY <1>1, <1>9, Zenon
<1>12. Fitting(made)
  <2>1. made.sub.slots = [i \in 1..Len(ids) |-> ids[i].name]
    BY <1>1, <1>11, Zenon
  <2> QED
    BY <1>10, <1>made, <2>1, FitsWith
<1>13. ASSUME NEW i \in DOMAIN made.records,
              made.records[i].required, made.records[i].kind = "keyword"
       PROVE  Req(made.records[i].name)
  <2> DEFINE x == made.records[i]
  <2>1. x \in Range(ids) \cup Range(key) \cup Range(None) \cup {Options}
    <3> DEFINE rs == Register(Parts(ids, key, None))
    <3>1. \A j \in DOMAIN rs : rs[j] \in Range(ids) \cup Range(key) \cup Range(None) \cup {Options}
      BY <1>10, RegisterLists
    <3> HIDE DEF rs
    <3>2. made.records = rs
      BY <1>made DEF rs
    <3> QED
      BY <3>1, <3>2
  <2>2. Options.required = FALSE
    BY DEF Options, Rec
  <2> HIDE DEF x
  <2>3. x \notin Range(ids) /\ x \notin Range(None) /\ x # Options
    <3>1. x.required /\ x.kind = "keyword"
      BY <1>13 DEF x
    <3>2. x \notin Range(ids)
      BY <1>6, <3>1 DEF Range
    <3>3. x \notin Range(None)
      BY EmptyList DEF Range
    <3> QED
      BY <2>2, <3>1, <3>2, <3>3
  <2>4. PICK j \in DOMAIN key : x = key[j]
    BY <2>1, <2>3 DEF Range
  <2>5. x.required
    BY <1>13 DEF x
  <2>6. PICK k \in DOMAIN fields : fields[k][3] /\ x.name = fields[k][1]
    BY <1>7, <2>4, <2>5
  <2>7. fields[k] \in Q
    BY <1>5, <2>6
  <2> DEFINE g == fields[k]
  <2> HIDE DEF g, Req
  <2>8. g \in Q /\ g[3] /\ x.name = g[1]
    BY <2>6, <2>7 DEF g
  <2>9. Req(x.name)
    BY <2>8 DEF Q
  <2> QED
    BY <2>9 DEF x
<1> QED
  BY <1>12, <1>13 DEF made, command

-----------------------------------------------------------------------------
(* What is made of a resource: for each declared method that is emitted,   *)
(* each set method and each command, under its name.                       *)
LEMMA ProvidesSame ==
  ASSUME NEW base, NEW u, NEW v
  PROVE  DOMAIN Provides(base, u) = DOMAIN Provides(base, v)
<1>1. DOMAIN CrudSubs(u) = DOMAIN CrudSubs(v)
  BY DEF CrudSubs
<1>2. DOMAIN FabricSubs(u) = DOMAIN CrudSubs(u) \cup {"list_addresses"}
  BY DEF FabricSubs, Over
<1>3. DOMAIN FabricSubs(v) = DOMAIN CrudSubs(v) \cup {"list_addresses"}
  BY DEF FabricSubs, Over
<1> QED
  BY <1>1, <1>2, <1>3 DEF Provides

\* The emitted method k of a resource, and its set method k.
MethodOf(spec, r, k) == EmitMethod(spec, r, Ops(spec)[r.markup.methods[k][2]].op,
                                            Ops(spec)[r.markup.methods[k][2]].path)
MethodIsMade(spec, r, made, k) ==
  /\ IsEmitted(spec, r, r.markup.methods[k]) /\ r.markup.methods[k][2] \in DOMAIN Ops(spec)
  /\ r.markup.methods[k][1] \in DOMAIN made
  /\ made[r.markup.methods[k][1]] = MethodOf(spec, r, k)
SetIsMade(spec, r, made, k) ==
  /\ r.markup.sets[k].name \in DOMAIN made
  /\ made[r.markup.sets[k].name] = EmitSetMethod(spec, r, r.markup.sets[k])
CommandIsMade(spec, r, made, k) ==
  /\ CommandName(r.markup.mapping[k][1]) \in DOMAIN made
  /\ made[CommandName(r.markup.mapping[k][1])] = EmitCommand(spec, r.markup.mapping[k])

CommandNames(r) == {CommandName(r.markup.mapping[k][1]) : k \in DOMAIN r.markup.mapping}

(* Of a command dispatch, each command is made, and nothing else.          *)
LEMMA DispatchMade ==
  ASSUME NEW spec, NEW r, Input(spec, r), r.markup.kind = "command-dispatch"
  PROVE  LET made == EmitResource(spec, r).made
         IN  /\ DOMAIN made = CommandNames(r)
             /\ \A k \in DOMAIN r.markup.mapping : CommandIsMade(spec, r, made, k)
             /\ EmitResource(spec, r).base = "BaseResource" /\ EmitResource(spec, r).update = Unset
<1> DEFINE map == r.markup.mapping
           n == Len(map)
           pairs == [i \in DOMAIN map |-> <<CommandName(map[i][1]), EmitCommand(spec, map[i])>>]
           made == EmitResource(spec, r).made
<1>1. made = ByName(pairs) /\ EmitResource(spec, r).base = "BaseResource"
      /\ EmitResource(spec, r).update = Unset
  BY DEF EmitResource, EmitCommandDispatch
<1>2. map \in Seq(STRING \X STRING)
  BY DEF Input, MarkupShape
<1>3. \A i, j \in DOMAIN map : CommandName(map[i][1]) = CommandName(map[j][1]) => i = j
  BY DEF Input, ResourceFits, NamesApart
<1>4. n \in Nat /\ DOMAIN map = 1..n
  BY <1>2
<1>5. /\ DOMAIN pairs = DOMAIN map
      /\ \A i \in DOMAIN map : pairs[i][1] = CommandName(map[i][1])
                               /\ pairs[i][2] = EmitCommand(spec, map[i])
  OBVIOUS
<1>6. pairs = [i \in 1..n |-> pairs[i]]
  BY <1>4
<1> HIDE DEF pairs, made, map, n
<1>7. IsList(pairs)
  BY <1>4, <1>6, IsListOf
<1>8. /\ DOMAIN made = {pairs[i][1] : i \in DOMAIN pairs}
      /\ \A i \in DOMAIN pairs : \E k \in DOMAIN pairs :
           pairs[k][1] = pairs[i][1] /\ made[pairs[i][1]] = pairs[k][2]
  BY <1>1, <1>7, ByNameIs
<1>9. ASSUME NEW k \in DOMAIN map PROVE CommandIsMade(spec, r, made, k)
  <2>1. PICK j \in DOMAIN pairs : pairs[j][1] = pairs[k][1] /\ made[pairs[k][1]] = pairs[j][2]
    BY <1>5, <1>8
  <2>2. j = k
    BY <1>3, <1>5, <2>1
  <2> QED
    BY <1>5, <1>8, <2>1, <2>2 DEF CommandIsMade, map
<1>10. DOMAIN made = CommandNames(r)
  BY <1>5, <1>8 DEF CommandNames, map
<1> QED
  BY <1>1, <1>9, <1>10 DEF made, map

(* Of any other resource, each set method is made and each declared method *)
(* the base does not provide.                                              *)
LEMMA ResourceMade ==
  ASSUME NEW spec, NEW r, Input(spec, r), MarkupIsSound(spec, r), r.markup.kind # "command-dispatch"
  PROVE  LET made == EmitResource(spec, r).made
             m == r.markup
         IN  /\ \A x \in DOMAIN made :
                  \/ \E k \in DOMAIN m.methods : x = m.methods[k][1] /\ MethodIsMade(spec, r, made, k)
                  \/ \E k \in DOMAIN m.sets : x = m.sets[k].name /\ SetIsMade(spec, r, made, k)
             /\ \A k \in DOMAIN m.methods :
                  \/ MethodIsMade(spec, r, made, k)
                  \/ /\ ~IsEmitted(spec, r, m.methods[k]) /\ m.methods[k][1] \notin DOMAIN made
                     /\ m.methods[k][1] \in DOMAIN Provides(m.base, m.update)
             /\ \A k \in DOMAIN m.sets : SetIsMade(spec, r, made, k)
             /\ EmitResource(spec, r).base = m.base /\ EmitResource(spec, r).update = m.update
             /\ EmitResource(spec, r).path = BasePath(spec, r)
<1> DEFINE ms == r.markup.methods
           sets == r.markup.sets
           made == EmitResource(spec, r).made
           I == {i \in DOMAIN ms : IsEmitted(spec, r, ms[i])}
           own == EmittedMethods(spec, r)
           M(w) == <<w[1], EmitMethod(spec, r, Ops(spec)[w[2]].op, Ops(spec)[w[2]].path)>>
           a == [i \in DOMAIN own |-> M(own[i])]
           b == [i \in DOMAIN sets |-> <<sets[i].name, EmitSetMethod(spec, r, sets[i])>>]
           pairs == a \o b
           p == Cardinality(I)
           q == Len(sets)
<1>1. /\ made = ByName(pairs)
      /\ EmitResource(spec, r).base = r.markup.base /\ EmitResource(spec, r).update = r.markup.update
      /\ EmitResource(spec, r).path = BasePath(spec, r)
  BY DEF EmitResource
<1>2. ms \in Seq(STRING \X STRING) /\ IsList(sets)
  BY DEF Input, MarkupShape
<1>3. /\ \A i, j \in DOMAIN ms : ms[i][1] = ms[j][1] => i = j
      /\ \A i, j \in DOMAIN sets : sets[i].name = sets[j].name => i = j
      /\ \A i \in DOMAIN ms, j \in DOMAIN sets : ms[i][1] # sets[j].name
  BY DEF Input, ResourceFits, NamesApart
<1>4. /\ p \in Nat /\ DOMAIN own = 1..p
      /\ \A k \in 1..p : Place(I, k) \in I /\ own[k] = ms[Place(I, k)]
      /\ \A i \in I : Rank(I, i) \in 1..p /\ own[Rank(I, i)] = ms[i]
  <2>1. own = Picked(ms, I) /\ I \in SUBSET DOMAIN ms
    BY DEF EmittedMethods
  <2> DEFINE Y == STRING \X STRING
  <2>2. ms \in Seq(Y)
    BY <1>2
  <2> HIDE DEF I, ms, own, p, Y
  <2>3. /\ p \in Nat /\ DOMAIN Picked(ms, I) = 1..p
        /\ \A k \in 1..p : Place(I, k) \in I /\ Picked(ms, I)[k] = ms[Place(I, k)]
        /\ \A i \in I : Rank(I, i) \in 1..p /\ Picked(ms, I)[Rank(I, i)] = ms[i]
    BY <2>1, <2>2, PickedEntries DEF p
  <2> QED
    BY <2>1, <2>3
<1>5. \A i \in I : ms[i][2] \in DOMAIN Ops(spec)
  <2>1. \A i \in DOMAIN ms : ms[i][2] \in DOMAIN Ops(spec)
          \/ (ms[i][1] # "list_addresses" /\ ms[i][1] \in DOMAIN Provides(r.markup.base, "put"))
    BY DEF MarkupIsSound
  <2> QED
    BY <2>1 DEF IsEmitted
<1>6. \A i \in DOMAIN ms : i \notin I => ms[i][1] \in DOMAIN Provides(r.markup.base, r.markup.update)
  BY ProvidesSame DEF IsEmitted
<1>7. q \in Nat /\ DOMAIN sets = 1..q
  BY <1>2, ListRange
<1>8. /\ a = [i \in 1..p |-> a[i]] /\ b = [i \in 1..q |-> b[i]]
      /\ \A i \in 1..p : a[i] = M(own[i])
      /\ \A i \in 1..q : b[i] = <<sets[i].name, EmitSetMethod(spec, r, sets[i])>>
  BY <1>4, <1>7
<1>9. \A i \in 1..q : b[i][1] = sets[i].name /\ b[i][2] = EmitSetMethod(spec, r, sets[i])
  BY <1>8
<1>10. \A k \in DOMAIN ms : M(ms[k])[1] = ms[k][1] /\ M(ms[k])[2] = MethodOf(spec, r, k)
  BY DEF MethodOf
<1> HIDE DEF made, own, a, b, M, p, q
<1>11. IsList(a) /\ Len(a) = p /\ IsList(b) /\ Len(b) = q
  BY <1>4, <1>7, <1>8, IsListOf
<1>12. IsList(a) /\ IsList(b)
  BY <1>11
<1>13. /\ IsList(pairs) /\ DOMAIN pairs = 1..(p + q)
       /\ \A i \in 1..p : pairs[i] = a[i]
       /\ \A i \in 1..q : pairs[p + i] = b[i]
  <2>1. /\ IsList(pairs) /\ DOMAIN pairs = 1..(Len(a) + Len(b))
        /\ \A i \in 1..Len(a) : pairs[i] = a[i]
        /\ \A i \in 1..Len(b) : pairs[Len(a) + i] = b[i]
    BY <1>12, ConcatLists
  <2> HIDE DEF pairs
  <2> QED
    BY <1>11, <2>1
<1> HIDE DEF pairs, I, ms, sets
<1>14. ASSUME NEW i \in DOMAIN pairs
       PROVE  \/ \E k \in I : k \in DOMAIN ms /\ pairs[i][1] = ms[k][1] /\ pairs[i][2] = MethodOf(spec, r, k)
              \/ \E k \in DOMAIN sets : pairs[i][1] = sets[k].name /\ pairs[i][2] = EmitSetMethod(spec, r, sets[k])
  <2>1. CASE i \in 1..p
    <3> DEFINE k == Place(I, i)
    <3>1. k \in I /\ own[i] = ms[k]
      BY <1>4, <2>1
    <3> HIDE DEF k
    <3>2. k \in DOMAIN ms
      BY <3>1 DEF I
    <3>3. pairs[i] = M(ms[k])
      BY <1>8, <1>13, <2>1, <3>1
    <3> QED
      BY <1>10, <3>1, <3>2, <3>3
  <2>2. CASE i \notin 1..p
    <3>1. i - p \in 1..q /\ p + (i - p) = i
      BY <1>4, <1>7, <1>13, <2>2
    <3>2. pairs[i] = b[i - p]
      BY <1>13, <3>1
    <3> QED
      BY <1>7, <1>9, <3>1, <3>2
  <2> QED
    BY <2>1, <2>2
<1>15. ASSUME NEW k \in I
       PROVE  k \in DOMAIN ms /\ \E i \in DOMAIN pairs : pairs[i][1] = ms[k][1]
  <2>1. k \in DOMAIN ms
    BY DEF I
  <2> DEFINE i == Rank(I, k)
  <2>2. i \in 1..p /\ own[i] = ms[k]
    BY <1>4
  <2> HIDE DEF i
  <2>3. pairs[i] = M(ms[k])
    BY <1>8, <1>13, <2>2
  <2>4. i \in DOMAIN pairs
    BY <1>4, <1>7, <1>13, <2>2
  <2> QED
    BY <1>10, <2>1, <2>3, <2>4
<1>16. ASSUME NEW k \in DOMAIN sets PROVE \E i \in DOMAIN pairs : pairs[i][1] = sets[k].name
  <2>1. p + k \in DOMAIN pairs /\ pairs[p + k] = b[k]
    BY <1>4, <1>7, <1>13
  <2> QED
    BY <1>7, <1>9, <2>1
<1>17. /\ DOMAIN made = {pairs[i][1] : i \in DOMAIN pairs}
       /\ \A i \in DOMAIN pairs : \E k \in DOMAIN pairs :
            pairs[k][1] = pairs[i][1] /\ made[pairs[i][1]] = pairs[k][2]
  <2>1. IsList(pairs)
    BY <1>13
  <2> QED
    BY <1>1, <2>1, ByNameIs
<1>18. \A x \in DOMAIN made :
          \/ \E k \in I : k \in DOMAIN ms /\ x = ms[k][1] /\ made[x] = MethodOf(spec, r, k)
          \/ \E k \in DOMAIN sets : x = sets[k].name /\ made[x] = EmitSetMethod(spec, r, sets[k])
  <2>1. ASSUME NEW x \in DOMAIN made
        PROVE  \E i \in DOMAIN pairs : pairs[i][1] = x /\ made[x] = pairs[i][2]
    BY <1>17
  <2> QED
    BY <1>14, <2>1
<1>19. ASSUME NEW k \in I
       PROVE  ms[k][1] \in DOMAIN made /\ made[ms[k][1]] = MethodOf(spec, r, k)
  <2>1. k \in DOMAIN ms /\ ms[k][1] \in DOMAIN made
    BY <1>15, <1>17
  <2> QED
    BY <1>3, <1>18, <2>1
<1>20. ASSUME NEW k \in DOMAIN sets
       PROVE  sets[k].name \in DOMAIN made /\ made[sets[k].name] = EmitSetMethod(spec, r, sets[k])
  <2>1. sets[k].name \in DOMAIN made
    BY <1>16, <1>17
  <2> QED
    BY <1>3, <1>18, <2>1
<1>21. ASSUME NEW k \in DOMAIN ms, k \notin I PROVE ms[k][1] \notin DOMAIN made
  BY <1>3, <1>18, <1>21
<1>22. \A k \in DOMAIN ms : k \in I <=> IsEmitted(spec, r, ms[k])
  BY DEF I
<1>23. \A k \in I : k \in DOMAIN ms => MethodIsMade(spec, r, made, k)
  BY <1>5, <1>19, <1>22 DEF MethodIsMade, ms
<1>24. \A k \in DOMAIN sets : SetIsMade(spec, r, made, k)
  BY <1>20 DEF SetIsMade, sets
<1>25. \A x \in DOMAIN made :
          \/ \E k \in DOMAIN ms : x = ms[k][1] /\ MethodIsMade(spec, r, made, k)
          \/ \E k \in DOMAIN sets : x = sets[k].name /\ SetIsMade(spec, r, made, k)
  BY <1>18, <1>23, <1>24
<1>26. \A k \in DOMAIN ms :
          \/ MethodIsMade(spec, r, made, k)
          \/ /\ ~IsEmitted(spec, r, ms[k]) /\ ms[k][1] \notin DOMAIN made
             /\ ms[k][1] \in DOMAIN Provides(r.markup.base, r.markup.update)
  BY <1>6, <1>21, <1>22, <1>23
<1> QED
  BY <1>1, <1>24, <1>25, <1>26 DEF made, ms, sets

(* Everything made for a resource fits the records made with it.           *)
LEMMA MadeFits ==
  ASSUME NEW d \in Documents, NEW i \in DOMAIN AllResources(d),
         MarkupIsSound(AllResources(d)[i][1], AllResources(d)[i][2]),
         NEW x \in DOMAIN EmitResource(AllResources(d)[i][1], AllResources(d)[i][2]).made
  PROVE  Fitting(EmitResource(AllResources(d)[i][1], AllResources(d)[i][2]).made[x])
<1> DEFINE spec == AllResources(d)[i][1]
           r == AllResources(d)[i][2]
           made == EmitResource(spec, r).made
<1>1. Input(spec, r)
  BY InputOf
<1>2. x \in DOMAIN made /\ MarkupIsSound(spec, r)
  OBVIOUS
<1> HIDE DEF spec, r
<1>3. CASE r.markup.kind = "command-dispatch"
  <2>1. PICK k \in DOMAIN r.markup.mapping : x = CommandName(r.markup.mapping[k][1])
    <3>1. DOMAIN made = CommandNames(r)
      BY <1>1, <1>3, DispatchMade
    <3> HIDE DEF made
    <3> QED
      BY <1>2, <3>1 DEF CommandNames
  <2>2. CommandIsMade(spec, r, made, k)
    BY <1>1, <1>3, DispatchMade
  <2>3. made[x] = EmitCommand(spec, r.markup.mapping[k])
    BY <2>1, <2>2 DEF CommandIsMade
  <2>4. Table(spec.schemas)
    BY <1>1 DEF Input, Table
  <2>5. Fitting(EmitCommand(spec, r.markup.mapping[k]))
    BY <2>4, CommandFits
  <2> QED
    BY <2>3, <2>5 DEF spec, r
<1>4. CASE r.markup.kind # "command-dispatch"
  <2>1. \/ \E k \in DOMAIN r.markup.methods : x = r.markup.methods[k][1] /\ MethodIsMade(spec, r, made, k)
        \/ \E k \in DOMAIN r.markup.sets : x = r.markup.sets[k].name /\ SetIsMade(spec, r, made, k)
    BY <1>1, <1>2, <1>4, ResourceMade
  <2>2. ASSUME NEW k \in DOMAIN r.markup.methods, x = r.markup.methods[k][1],
               MethodIsMade(spec, r, made, k)
        PROVE  Fitting(made[x])
    <3> DEFINE o == Ops(spec)[r.markup.methods[k][2]]
    <3>1. made[x] = EmitMethod(spec, r, o.op, o.path) /\ r.markup.methods[k][2] \in DOMAIN Ops(spec)
      BY <2>2 DEF MethodIsMade, MethodOf
    <3>2. /\ o.path \in Seq(Segments) /\ o.op.verb \in {"get", "post", "put", "patch", "delete"}
          /\ o.op.body \in Schemas
      BY <1>1, <3>1 DEF Input
    <3> HIDE DEF o, made
    <3>3. Fitting(EmitMethod(spec, r, o.op, o.path))
      BY <1>1, <3>2, MethodFits
    <3> QED
      BY <3>1, <3>3
  <2>3. ASSUME NEW k \in DOMAIN r.markup.sets, x = r.markup.sets[k].name,
               SetIsMade(spec, r, made, k)
        PROVE  Fitting(made[x])
    <3> DEFINE sm == r.markup.sets[k]
    <3>1. made[x] = EmitSetMethod(spec, r, sm)
      BY <2>3 DEF SetIsMade
    <3>2. ArgsFit(sm) /\ sm.args \in Seq(STRING \X STRING \X BOOLEAN)
      BY <1>1 DEF Input, ResourceFits, MarkupShape
    <3> HIDE DEF sm, made
    <3> QED
      BY <3>1, <3>2, SetFits
  <2> QED
    BY <2>1, <2>2, <2>3 DEF spec, r
<1> QED
  BY <1>3, <1>4

-----------------------------------------------------------------------------
(* The steps of the build keep what BuildInv says.                         *)
NameAt(d, i) == AllResources(d)[i][2].markup.name
MadeAt(d, i) == EmitResource(AllResources(d)[i][1], AllResources(d)[i][2]).made
ClassAt(d, i) == ClassOf(AllResources(d)[i][1], AllResources(d)[i][2])
SoundAt(d, i) == MarkupIsSound(AllResources(d)[i][1], AllResources(d)[i][2])
KeysAt(d, i) == {<<NameAt(d, i), m>> : m \in DOMAIN MadeAt(d, i)}

\* Generated(n), of given values.
Progress(d, left, made, side, n) ==
  /\ Len(left) = Len(AllResources(d)) - n
  /\ \A k \in 1 .. Len(left) : left[k] = AllResources(d)[n + k]
  /\ DOMAIN made = {NameAt(d, i) : i \in 1 .. n}
  /\ \A i \in 1 .. n : SoundAt(d, i) /\ made[NameAt(d, i)] = ClassAt(d, i)
  /\ DOMAIN side = UNION {KeysAt(d, i) : i \in 1 .. n}
  /\ \A i \in 1 .. n : \A m \in DOMAIN MadeAt(d, i) :
       side[<<NameAt(d, i), m>>] = MadeAt(d, i)[m].records

(* Generated, with its variables as arguments.                             *)
LEMMA ProgressIs ==
  ASSUME NEW n
  PROVE  Generated(n) <=> Progress(docs, todo, classes, sidecar, n)
BY DEF Generated, Progress, NameAt, MadeAt, ClassAt, SoundAt, KeysAt

(* One table over another.                                                 *)
LEMMA OverIs ==
  ASSUME NEW f, NEW g
  PROVE  /\ DOMAIN Over(f, g) = DOMAIN f \cup DOMAIN g
         /\ \A x \in DOMAIN f : Over(f, g)[x] = f[x]
         /\ \A x \in DOMAIN g : x \notin DOMAIN f => Over(f, g)[x] = g[x]
BY DEF Over

(* Before the first resource nothing is generated.                         *)
LEMMA ProgressStarts ==
  ASSUME NEW d \in Documents
  PROVE  Progress(d, AllResources(d), <<>>, <<>>, 0)
<1> DEFINE all == AllResources(d)
<1>1. Len(all) \in Nat
  BY AllTyped
<1> HIDE DEF all
<1>2. Len(all) = Len(all) - 0 /\ \A k \in 1..Len(all) : all[k] = all[0 + k]
  BY <1>1
<1>3. 1..0 = {} /\ DOMAIN (<<>>) = {}
  OBVIOUS
<1> QED
  BY <1>2, <1>3 DEF Progress, all

(* Emitting the next resource: one more is generated, and what was there   *)
(* stays.                                                                  *)
LEMMA ProgressGoesOn ==
  ASSUME NEW d \in Documents, NEW left \in Seq(Range(AllResources(d))), left # <<>>,
         NEW made, NEW side, NEW n \in 0 .. Len(AllResources(d)),
         Progress(d, left, made, side, n), MarkupIsSound(left[1][1], left[1][2])
  PROVE  /\ n + 1 \in 0 .. Len(AllResources(d))
         /\ Tail(left) \in Seq(Range(AllResources(d)))
         /\ Progress(d, Tail(left),
              Over(Only(left[1][2].markup.name, ClassOf(left[1][1], left[1][2])), made),
              Over([k \in {<<left[1][2].markup.name, m>> :
                             m \in DOMAIN EmitResource(left[1][1], left[1][2]).made} |->
                      EmitResource(left[1][1], left[1][2]).made[k[2]].records], side),
              n + 1)
<1> DEFINE all == AllResources(d)
           S == Range(all)
           name == NameAt(d, n + 1)
           new == MadeAt(d, n + 1)
           cl == Over(Only(name, ClassAt(d, n + 1)), made)
           recs == [k \in {<<name, m>> : m \in DOMAIN new} |-> new[k[2]].records]
           sc == Over(recs, side)
           t == Tail(left)
<1>1. Len(all) \in Nat /\ DOMAIN all = 1..Len(all)
  BY AllTyped
<1>2. left \in Seq(S) /\ left # <<>>
  OBVIOUS
<1> HIDE DEF S
<1>3. /\ t \in Seq(S) /\ Len(left) \in Nat \ {0} /\ Len(t) = Len(left) - 1
      /\ \A k \in 1..(Len(left) - 1) : t[k] = left[k + 1]
  BY <1>2, TakeType
<1>4. /\ Len(left) = Len(all) - n /\ \A k \in 1..Len(left) : left[k] = all[n + k]
      /\ DOMAIN made = {NameAt(d, i) : i \in 1..n}
      /\ \A i \in 1..n : SoundAt(d, i) /\ made[NameAt(d, i)] = ClassAt(d, i)
      /\ DOMAIN side = UNION {KeysAt(d, i) : i \in 1..n}
      /\ \A i \in 1..n : \A m \in DOMAIN MadeAt(d, i) :
           side[<<NameAt(d, i), m>>] = MadeAt(d, i)[m].records
  BY DEF Progress
<1>5. \A i, j \in DOMAIN all : NameAt(d, i) = NameAt(d, j) => i = j
  BY DocumentsFit DEF NameAt
<1> HIDE DEF all, t
<1>6. n \in Nat /\ n + 1 \in 1..Len(all) /\ n + 1 \in 0..Len(all) /\ left[1] = all[n + 1]
  <2>1. n \in 0..Len(all)
    BY DEF all
  <2>2. ASSUME NEW a \in Nat, NEW l \in Nat \ {0}, NEW k \in 0..a, l = a - k
        PROVE  k \in Nat /\ k + 1 \in 1..a /\ k + 1 \in 0..a
    BY <2>2
  <2>4. Len(left) = Len(all) - n
    BY <1>4
  <2>5. n \in Nat /\ n + 1 \in 1..Len(all) /\ n + 1 \in 0..Len(all)
    BY <1>1, <1>3, <2>1, <2>2, <2>4
  <2>3. 1 \in 1..Len(left)
    BY <1>3
  <2> QED
    BY <1>4, <2>3, <2>5
<1>7. /\ left[1][2].markup.name = name /\ ClassOf(left[1][1], left[1][2]) = ClassAt(d, n + 1)
      /\ EmitResource(left[1][1], left[1][2]).made = new /\ SoundAt(d, n + 1)
  BY <1>6 DEF NameAt, ClassAt, MadeAt, SoundAt, all
<1>8. \A i \in 1..n : i \in DOMAIN all /\ n + 1 \in DOMAIN all /\ i # n + 1
  BY <1>1, <1>6
<1>9. \A i \in 1..n : NameAt(d, i) # name
  BY <1>5, <1>8
<1>10. \A i \in 1..(n + 1) : i \in 1..n \/ i = n + 1
  BY <1>6
<1>11. \A i \in 1..n : i \in 1..(n + 1)
  BY <1>6
<1>12. n + 1 \in 1..(n + 1)
  BY <1>6
<1>13. Len(t) = Len(all) - (n + 1) /\ \A k \in 1..Len(t) : t[k] = all[(n + 1) + k]
  <2>1. Len(t) = Len(all) - (n + 1)
    <3>1. ASSUME NEW a \in Nat, NEW k \in Nat PROVE (a - k) - 1 = a - (k + 1)
      OBVIOUS
    <3>2. Len(left) = Len(all) - n /\ Len(t) = Len(left) - 1
      BY <1>3, <1>4
    <3> QED
      BY <1>1, <1>6, <3>1, <3>2
  <2>2. ASSUME NEW k \in 1..Len(t) PROVE t[k] = all[(n + 1) + k]
    <3>1. k \in 1..(Len(left) - 1) /\ k + 1 \in 1..Len(left) /\ n + (k + 1) = (n + 1) + k
      BY <1>3, <1>6
    <3> QED
      BY <1>3, <1>4, <3>1
  <2> QED
    BY <2>1, <2>2
<1> HIDE DEF name, new
<1>14. /\ DOMAIN cl = {name} \cup DOMAIN made /\ cl[name] = ClassAt(d, n + 1)
       /\ \A x \in DOMAIN made : x # name => cl[x] = made[x]
  <2> DEFINE f == Only(name, ClassAt(d, n + 1))
  <2>1. DOMAIN f = {name} /\ f[name] = ClassAt(d, n + 1)
    BY DEF Only
  <2> HIDE DEF f
  <2>2. /\ DOMAIN Over(f, made) = DOMAIN f \cup DOMAIN made
        /\ \A x \in DOMAIN f : Over(f, made)[x] = f[x]
        /\ \A x \in DOMAIN made : x \notin DOMAIN f => Over(f, made)[x] = made[x]
    BY OverIs
  <2>3. cl = Over(f, made)
    BY DEF f
  <2> HIDE DEF cl
  <2> QED
    BY <2>1, <2>2, <2>3
<1>15. DOMAIN cl = {NameAt(d, i) : i \in 1..(n + 1)}
  BY <1>4, <1>10, <1>11, <1>12, <1>14 DEF name
<1>16. \A i \in 1..(n + 1) : SoundAt(d, i) /\ cl[NameAt(d, i)] = ClassAt(d, i)
  <2>1. \A i \in 1..n : NameAt(d, i) \in DOMAIN made /\ NameAt(d, i) # name
    BY <1>4, <1>9
  <2>2. \A i \in 1..n : cl[NameAt(d, i)] = ClassAt(d, i)
    BY <1>4, <1>14, <2>1
  <2>3. cl[NameAt(d, n + 1)] = ClassAt(d, n + 1)
    BY <1>14 DEF name
  <2> QED
    BY <1>4, <1>7, <1>10, <2>2, <2>3
<1> HIDE DEF cl
<1>17. /\ DOMAIN recs = KeysAt(d, n + 1)
       /\ \A m \in DOMAIN new : recs[<<name, m>>] = new[m].records
  <2>1. DOMAIN recs = KeysAt(d, n + 1)
    BY DEF KeysAt, name, new
  <2>2. ASSUME NEW m \in DOMAIN new PROVE recs[<<name, m>>] = new[m].records
    <3>1. <<name, m>> \in {<<name, x>> : x \in DOMAIN new} /\ <<name, m>>[2] = m
      OBVIOUS
    <3> QED
      BY <3>1
  <2> QED
    BY <2>1, <2>2
<1> HIDE DEF recs
<1>18. /\ DOMAIN sc = DOMAIN recs \cup DOMAIN side
       /\ \A x \in DOMAIN recs : sc[x] = recs[x]
       /\ \A x \in DOMAIN side : x \notin DOMAIN recs => sc[x] = side[x]
  BY OverIs
<1> HIDE DEF sc
<1>19. DOMAIN sc = UNION {KeysAt(d, i) : i \in 1..(n + 1)}
  <2>1. DOMAIN sc = KeysAt(d, n + 1) \cup UNION {KeysAt(d, i) : i \in 1..n}
    BY <1>4, <1>17, <1>18
  <2> QED
    BY <1>10, <1>11, <1>12, <2>1
<1>20. ASSUME NEW i \in 1..(n + 1), NEW m \in DOMAIN MadeAt(d, i)
       PROVE  sc[<<NameAt(d, i), m>>] = MadeAt(d, i)[m].records
  <2> DEFINE k == <<NameAt(d, i), m>>
  <2>1. k \in KeysAt(d, i) /\ k[1] = NameAt(d, i)
    BY DEF KeysAt
  <2>2. CASE i = n + 1
    BY <1>17, <1>18, <2>1, <2>2 DEF name, new
  <2>3. CASE i \in 1..n
    <3>1. \A x \in KeysAt(d, n + 1) : x[1] = name
      BY DEF KeysAt, name
    <3>2. k \notin DOMAIN recs
      BY <1>9, <1>17, <2>1, <2>3, <3>1
    <3>3. k \in DOMAIN side
      BY <1>4, <2>1, <2>3
    <3>4. side[k] = MadeAt(d, i)[m].records
      BY <1>4, <2>3
    <3> HIDE DEF k
    <3>5. sc[k] = side[k]
      BY <1>18, <3>2, <3>3
    <3> QED
      BY <3>4, <3>5 DEF k
  <2> QED
    BY <1>10, <2>2, <2>3
<1>21. Progress(d, t, cl, sc, n + 1)
  BY <1>13, <1>15, <1>16, <1>19, <1>20 DEF Progress, all
<1> QED
  BY <1>3, <1>6, <1>7, <1>21 DEF all, S, t, cl, sc, recs

(* BuildInv holds when the build starts.                                   *)
LEMMA BuildStarts == BuildInit => BuildInv
<1> SUFFICES ASSUME BuildInit PROVE BuildInv
  OBVIOUS
<1>1. todo \in Seq(Range(AllResources(docs)))
  BY DEF BuildInit
<1> QED
  BY <1>1 DEF BuildInit, BuildInv

(* Each step of the build keeps BuildInv.                                  *)
LEMMA BuildGoesOn == BuildInv /\ [BuildNext]_buildVars => BuildInv'
<1> SUFFICES ASSUME BuildInv, [BuildNext]_buildVars PROVE BuildInv'
  OBVIOUS
<1>1. docs \in Documents /\ todo \in Seq(Range(AllResources(docs)))
  BY DEF BuildInv
<1>2. CASE LoadBases
  <2>1. stage = "bases" /\ stage' \in {"discover", "stopped"}
    BY <1>2 DEF LoadBases, Step
  <2>2. docs' = docs /\ todo' = todo /\ classes' = classes /\ sidecar' = sidecar
    BY <1>2 DEF LoadBases
  <2>3. classes = <<>> /\ sidecar = <<>>
    BY <2>1 DEF BuildInv
  <2>4. todo' \in Seq(Range(AllResources(docs')))
    BY <1>1, <2>2
  <2> QED
    BY <1>1, <2>1, <2>2, <2>3, <2>4 DEF BuildInv
<1>3. CASE Discover
  <2> DEFINE sound == Unordered(docs) = {}
               /\ \A i \in DOMAIN DiscoverSpecs(docs) : ~TrailingSlash(DiscoverSpecs(docs)[i])
  <2>1. /\ stage = "discover" /\ stage' = (IF sound THEN "resources" ELSE "stopped")
        /\ todo' = (IF sound THEN AllResources(docs) ELSE todo)
        /\ docs' = docs /\ classes' = classes /\ sidecar' = sidecar
    BY <1>3 DEF Discover, Step
  <2> HIDE DEF sound
  <2>2. classes = <<>> /\ sidecar = <<>>
    BY <2>1 DEF BuildInv
  <2>3. AllResources(docs) \in Seq(Range(AllResources(docs)))
    <3>1. AllResources(docs) \in Seq(Entries(docs))
      BY <1>1, AllTyped
    <3> DEFINE all == AllResources(docs)
    <3>2. Len(all) \in Nat /\ all = [i \in 1..Len(all) |-> all[i]]
      BY <3>1
    <3> HIDE DEF all
    <3>3. IsList(all)
      BY <3>2, IsListOf
    <3> QED
      BY <3>3 DEF IsList, all
  <2>4. CASE sound
    <3>1. stage' = "resources" /\ todo' = AllResources(docs) /\ classes' = <<>> /\ sidecar' = <<>>
      BY <2>1, <2>2, <2>4
    <3>2. Progress(docs', todo', classes', sidecar', 0)
      BY <1>1, <2>1, <3>1, ProgressStarts
    <3>3. Generated(0)'
      BY <3>2 DEF Generated, Progress, NameAt, MadeAt, ClassAt, SoundAt, KeysAt
    <3>4. 0 \in 0..Len(AllResources(docs'))
      <4>1. Len(AllResources(docs)) \in Nat
        BY <2>3
      <4> QED
        BY <2>1, <4>1
    <3>5. todo' \in Seq(Range(AllResources(docs')))
      BY <2>1, <2>3, <3>1
    <3> QED
      BY <1>1, <2>1, <3>1, <3>3, <3>4, <3>5 DEF BuildInv
  <2>5. CASE ~sound
    <3>1. stage' = "stopped" /\ todo' = todo
      BY <2>1, <2>5
    <3>2. todo' \in Seq(Range(AllResources(docs')))
      BY <1>1, <2>1, <3>1
    <3> QED
      BY <1>1, <2>1, <3>1, <3>2 DEF BuildInv
  <2> QED
    BY <2>4, <2>5
<1>4. CASE EmitOne
  <2> DEFINE spec == todo[1][1]
             r == todo[1][2]
             sound == MarkupIsSound(spec, r)
  <2>1. /\ todo # <<>> /\ stage = "resources" /\ docs' = docs
        /\ stage' = IF sound THEN "resources" ELSE "stopped"
        /\ sound =>
             /\ classes' = Over(Only(r.markup.name, ClassOf(spec, r)), classes)
             /\ sidecar' = Over([k \in {<<r.markup.name, m>> : m \in DOMAIN EmitResource(spec, r).made} |->
                                   EmitResource(spec, r).made[k[2]].records], sidecar)
             /\ todo' = Tail(todo)
        /\ ~sound => todo' = todo
    BY <1>4 DEF EmitOne, Step
  <2>2. PICK n \in 0 .. Len(AllResources(docs)) : Generated(n)
    BY <2>1 DEF BuildInv
  <2>3. Progress(docs, todo, classes, sidecar, n)
    BY <2>2, ProgressIs
  <2>4. CASE sound
    <3>1. /\ n + 1 \in 0 .. Len(AllResources(docs)) /\ Tail(todo) \in Seq(Range(AllResources(docs)))
          /\ Progress(docs, Tail(todo),
               Over(Only(r.markup.name, ClassOf(spec, r)), classes),
               Over([k \in {<<r.markup.name, m>> : m \in DOMAIN EmitResource(spec, r).made} |->
                       EmitResource(spec, r).made[k[2]].records], sidecar), n + 1)
      BY <1>1, <2>1, <2>3, <2>4, ProgressGoesOn
    <3>2. Progress(docs', todo', classes', sidecar', n + 1)
      BY <2>1, <2>4, <3>1
    <3>3. Generated(n + 1)'
      BY <3>2 DEF Generated, Progress, NameAt, MadeAt, ClassAt, SoundAt, KeysAt
    <3>4. stage' = "resources" /\ todo' \in Seq(Range(AllResources(docs')))
          /\ n + 1 \in 0 .. Len(AllResources(docs'))
      BY <2>1, <2>4, <3>1
    <3> QED
      BY <1>1, <2>1, <3>3, <3>4 DEF BuildInv
  <2>5. CASE ~sound
    <3>1. stage' = "stopped" /\ todo' = todo
      BY <2>1, <2>5
    <3>2. todo' \in Seq(Range(AllResources(docs')))
      BY <1>1, <2>1, <3>1
    <3> QED
      BY <1>1, <2>1, <3>1, <3>2 DEF BuildInv
  <2> QED
    BY <2>4, <2>5
<1>5. CASE PlaceAll
  <2> DEFINE placed == ResolvePlacement(docs)
             known == \A i \in DOMAIN placed : placed[i].container \in DOMAIN Containers \cup {Unset}
  <2>1. /\ todo = <<>> /\ stage = "resources" /\ stage' = IF known THEN "built" ELSE "stopped"
        /\ tree' = IF known THEN EmitTree(placed) ELSE tree
        /\ docs' = docs /\ todo' = todo /\ classes' = classes /\ sidecar' = sidecar
    BY <1>5 DEF PlaceAll, Step
  <2>2. PICK n \in 0 .. Len(AllResources(docs)) : Generated(n)
    BY <2>1 DEF BuildInv
  <2>3. Progress(docs, todo, classes, sidecar, n)
    BY <2>2, ProgressIs
  <2>4. Progress(docs', todo', classes', sidecar', n)
    BY <2>1, <2>3
  <2>5. Generated(n)'
    BY <2>4 DEF Generated, Progress, NameAt, MadeAt, ClassAt, SoundAt, KeysAt
  <2>6. todo' \in Seq(Range(AllResources(docs'))) /\ n \in 0 .. Len(AllResources(docs'))
    BY <1>1, <2>1
  <2>7. ResolvePlacement(docs') = ResolvePlacement(docs)
    BY <2>1
  <2>8. CASE known
    <3>1. /\ stage' = "built" /\ tree' = EmitTree(ResolvePlacement(docs')) /\ todo' = <<>>
          /\ \A i \in DOMAIN ResolvePlacement(docs') :
               ResolvePlacement(docs')[i].container \in DOMAIN Containers \cup {Unset}
      BY <2>1, <2>7, <2>8
    <3> QED
      BY <1>1, <2>1, <2>5, <2>6, <3>1 DEF BuildInv
  <2>9. CASE ~known
    <3>1. stage' = "stopped"
      BY <2>1, <2>9
    <3> QED
      BY <1>1, <2>1, <2>6, <3>1 DEF BuildInv
  <2> QED
    BY <2>8, <2>9
<1>6. ASSUME UNCHANGED <<docs, stage, todo, classes, sidecar, tree>> PROVE BuildInv'
  <2>1. \A n : Generated(n)' <=> Generated(n)
    BY <1>6 DEF Generated
  <2> QED
    BY <1>1, <1>6, <2>1 DEF BuildInv
<1>7. CASE CallSomething
  BY <1>6, <1>7 DEF CallSomething
<1>8. CASE UNCHANGED buildVars
  BY <1>6, <1>8 DEF buildVars
<1> QED
  BY <1>2, <1>3, <1>4, <1>5, <1>7, <1>8 DEF BuildNext

(* At every step of a build, for any documents the assumptions admit: the  *)
(* resources emitted so far are the first of all in order, each class and  *)
(* each sidecar entry is what was made of its own resource, none lost or   *)
(* overwritten by a later one, and the tree is that of all placements.     *)
THEOREM BuildCorrect == BuildSpec => []BuildInv
<1> QED
  BY BuildStarts, BuildGoesOn, PTL DEF BuildSpec

-----------------------------------------------------------------------------
(* What is there when the build has ended.                                 *)
LEMMA BuiltIs ==
  ASSUME BuildInv, stage = "built"
  PROVE  /\ docs \in Documents
         /\ DOMAIN classes = {NameAt(docs, i) : i \in DOMAIN AllResources(docs)}
         /\ \A i \in DOMAIN AllResources(docs) :
              SoundAt(docs, i) /\ classes[NameAt(docs, i)] = ClassAt(docs, i)
         /\ DOMAIN sidecar = UNION {KeysAt(docs, i) : i \in DOMAIN AllResources(docs)}
         /\ \A i \in DOMAIN AllResources(docs) : \A m \in DOMAIN MadeAt(docs, i) :
              sidecar[<<NameAt(docs, i), m>>] = MadeAt(docs, i)[m].records
         /\ tree = EmitTree(ResolvePlacement(docs))
         /\ \A i \in DOMAIN ResolvePlacement(docs) :
              ResolvePlacement(docs)[i].container \in DOMAIN Containers \cup {Unset}
<1> DEFINE all == AllResources(docs)
<1>1. docs \in Documents
  BY DEF BuildInv
<1>2. Len(all) \in Nat /\ DOMAIN all = 1..Len(all)
  BY <1>1, AllTyped
<1>3. /\ todo = <<>> /\ tree = EmitTree(ResolvePlacement(docs))
      /\ \A i \in DOMAIN ResolvePlacement(docs) :
           ResolvePlacement(docs)[i].container \in DOMAIN Containers \cup {Unset}
  BY DEF BuildInv
<1>4. PICK n \in 0..Len(all) : Generated(n)
  BY DEF BuildInv
<1>5. Progress(docs, todo, classes, sidecar, n)
  BY <1>4, ProgressIs
<1>6. Len(todo) = 0 /\ Len(todo) = Len(all) - n
  BY <1>3, <1>5 DEF Progress
<1> HIDE DEF all
<1>7. n = Len(all)
  <2>1. ASSUME NEW a \in Nat, NEW k \in 0..a, 0 = a - k PROVE k = a
    BY <2>1
  <2> QED
    BY <1>2, <1>4, <1>6, <2>1
<1>8. Progress(docs, todo, classes, sidecar, Len(all))
  BY <1>5, <1>7
<1> QED
  BY <1>1, <1>2, <1>3, <1>8 DEF Progress, all

\* The commands of a resource, and what is recorded of them.
LEMMA CommandsFit ==
  ASSUME NEW spec, NEW r, Input(spec, r), r.markup.kind = "command-dispatch",
         \A x \in DOMAIN EmitResource(spec, r).made :
           sidecar[<<r.markup.name, x>>] = EmitResource(spec, r).made[x].records
  PROVE  CommandsSound(spec, r)
<1> DEFINE made == EmitResource(spec, r).made
<1>1. \A k \in DOMAIN r.markup.mapping : CommandIsMade(spec, r, made, k)
  BY DispatchMade
<1>2. Table(spec.schemas)
  BY DEF Input, Table
<1> SUFFICES ASSUME NEW k \in DOMAIN r.markup.mapping
             PROVE  LET entry == r.markup.mapping[k]
                        command == Lookup(spec.schemas, entry[2])
                        records == sidecar[<<r.markup.name, CommandName(entry[1])>>]
                        required == {records[i].name : i \in {j \in DOMAIN records :
                                       records[j].required /\ records[j].kind = "keyword"}}
                        shapes == Shapes(spec.schemas, command)
                    IN  \A i \in DOMAIN shapes : required \subseteq shapes[i].req
  BY DEF CommandsSound, Shapes
<1> DEFINE entry == r.markup.mapping[k]
           command == Lookup(spec.schemas, entry[2])
           records == sidecar[<<r.markup.name, CommandName(entry[1])>>]
           shapes == Shapes(spec.schemas, command)
<1>3. records = EmitCommand(spec, entry).records
  BY <1>1 DEF CommandIsMade
<1>4. \A i \in DOMAIN EmitCommand(spec, entry).records :
        EmitCommand(spec, entry).records[i].required
        /\ EmitCommand(spec, entry).records[i].kind = "keyword" =>
          \A j \in DOMAIN shapes : EmitCommand(spec, entry).records[i].name \in shapes[j].req
  BY <1>2, CommandFits
<1> HIDE DEF records, shapes
<1>5. \A i \in DOMAIN records :
        records[i].required /\ records[i].kind = "keyword" =>
          \A j \in DOMAIN shapes : records[i].name \in shapes[j].req
  BY <1>3, <1>4
<1>6. \A j \in DOMAIN shapes :
        {records[i].name : i \in {x \in DOMAIN records :
           records[x].required /\ records[x].kind = "keyword"}} \subseteq shapes[j].req
  BY <1>5
<1> QED
  BY <1>6 DEF records, shapes

(* A declared method can be called: emitted, or provided by the base.      *)
LEMMA DeclaredIsThere ==
  ASSUME NEW spec, NEW r, Input(spec, r), MarkupIsSound(spec, r),
         r.markup.name \in DOMAIN classes, classes[r.markup.name] = ClassOf(spec, r),
         NEW k \in DOMAIN r.markup.methods
  PROVE  Can(r.markup.name, r.markup.methods[k][1])
<1> DEFINE made == EmitResource(spec, r).made
           m == r.markup
           c == ClassOf(spec, r)
<1>1. r.markup.kind # "command-dispatch"
  <2>1. ResourceFits(spec, r)
    BY DEF Input
  <2>2. r.markup.kind = "command-dispatch" => r.markup.methods = <<>>
    BY <2>1 DEF ResourceFits
  <2> QED
    BY <2>2
<1>2. /\ \/ MethodIsMade(spec, r, made, k)
         \/ m.methods[k][1] \in DOMAIN Provides(m.base, m.update)
      /\ EmitResource(spec, r).base = m.base /\ EmitResource(spec, r).update = m.update
  BY <1>1, ResourceMade
<1>3. DOMAIN c.subs = DOMAIN made /\ c.base = m.base /\ c.update = m.update
  BY <1>2 DEF ClassOf
<1> HIDE DEF made, c
<1>4. m.methods[k][1] \in DOMAIN c.subs \cup DOMAIN Provides(c.base, c.update)
  BY <1>2, <1>3 DEF MethodIsMade
<1> QED
  BY <1>4 DEF Can, c

(* SidecarAligned follows from what is generated by the end of the build.  *)
LEMMA SidecarFits ==
  ASSUME BuildInv
  PROVE  SidecarAligned
<1> SUFFICES ASSUME stage = "built"
             PROVE  /\ \A k \in DOMAIN sidecar :
                         /\ InOrder(sidecar[k])
                         /\ SlotNames(sidecar[k]) = classes[k[1]].subs[k[2]].slots
                    /\ \A i \in DOMAIN AllResources(docs) :
                         LET r == AllResources(docs)[i][2]
                         IN  /\ \A k \in DOMAIN r.markup.methods :
                                  Can(r.markup.name, r.markup.methods[k][1])
                             /\ CommandsSound(AllResources(docs)[i][1], r)
  BY DEF SidecarAligned
<1>1. /\ docs \in Documents
      /\ DOMAIN classes = {NameAt(docs, i) : i \in DOMAIN AllResources(docs)}
      /\ \A i \in DOMAIN AllResources(docs) :
           SoundAt(docs, i) /\ classes[NameAt(docs, i)] = ClassAt(docs, i)
      /\ DOMAIN sidecar = UNION {KeysAt(docs, i) : i \in DOMAIN AllResources(docs)}
      /\ \A i \in DOMAIN AllResources(docs) : \A m \in DOMAIN MadeAt(docs, i) :
           sidecar[<<NameAt(docs, i), m>>] = MadeAt(docs, i)[m].records
  BY BuiltIs
<1>2. ASSUME NEW k \in DOMAIN sidecar
      PROVE  /\ InOrder(sidecar[k])
             /\ SlotNames(sidecar[k]) = classes[k[1]].subs[k[2]].slots
  <2>1. PICK i \in DOMAIN AllResources(docs) : k \in KeysAt(docs, i)
    BY <1>1
  <2>2. PICK x \in DOMAIN MadeAt(docs, i) : k = <<NameAt(docs, i), x>>
    BY <2>1 DEF KeysAt
  <2>3. Fitting(MadeAt(docs, i)[x])
    BY <1>1, <2>1, <2>2, MadeFits DEF SoundAt, MadeAt
  <2>4. /\ k[1] = NameAt(docs, i) /\ k[2] = x
        /\ sidecar[k] = MadeAt(docs, i)[x].records
    BY <1>1, <2>2
  <2>5. classes[k[1]].subs[k[2]] = MadeAt(docs, i)[x].sub
    <3>1. classes[NameAt(docs, i)] = ClassAt(docs, i)
      BY <1>1
    <3>2. ClassAt(docs, i).subs[x] = MadeAt(docs, i)[x].sub
      <4>1. x \in DOMAIN MadeAt(docs, i)
        BY <2>2
      <4>2. ClassAt(docs, i).subs = [m \in DOMAIN MadeAt(docs, i) |-> MadeAt(docs, i)[m].sub]
        BY DEF ClassAt, MadeAt, ClassOf
      <4> QED
        BY <4>1, <4>2
    <3> QED
      BY <2>4, <3>1, <3>2
  <2> QED
    BY <2>3, <2>4, <2>5 DEF Fitting
<1>3. ASSUME NEW i \in DOMAIN AllResources(docs)
      PROVE  LET r == AllResources(docs)[i][2]
             IN  /\ \A k \in DOMAIN r.markup.methods : Can(r.markup.name, r.markup.methods[k][1])
                 /\ CommandsSound(AllResources(docs)[i][1], r)
  <2> DEFINE spec == AllResources(docs)[i][1]
             r == AllResources(docs)[i][2]
  <2>1. Input(spec, r)
    BY <1>1, InputOf
  <2>2. MarkupIsSound(spec, r) /\ r.markup.name \in DOMAIN classes
        /\ classes[r.markup.name] = ClassOf(spec, r)
    BY <1>1 DEF SoundAt, NameAt, ClassAt
  <2>3. \A x \in DOMAIN EmitResource(spec, r).made :
          sidecar[<<r.markup.name, x>>] = EmitResource(spec, r).made[x].records
    BY <1>1 DEF MadeAt, NameAt
  <2> HIDE DEF spec, r
  <2>4. \A k \in DOMAIN r.markup.methods : Can(r.markup.name, r.markup.methods[k][1])
    BY <2>1, <2>2, DeclaredIsThere
  <2>5. CommandsSound(spec, r)
    <3>1. CASE r.markup.kind = "command-dispatch"
      BY <2>1, <2>3, <3>1, CommandsFit
    <3>2. CASE r.markup.kind # "command-dispatch"
      <4>1. r.markup.mapping = <<>>
        BY <2>1, <3>2 DEF Input, ResourceFits
      <4> QED
        BY <4>1 DEF CommandsSound
    <3> QED
      BY <3>1, <3>2
  <2> QED
    BY <2>4, <2>5 DEF spec, r
<1> QED
  BY <1>2, <1>3

\* Whenever the build has ended, the sidecar tells the truth about the
\* methods that were generated: their positional records are the slots of
\* the sub, request_options stands once, in front of the slurpy tail, every
\* declared method exists, and a command requires what all variants require.
THEOREM SidecarCorrect == BuildSpec => []SidecarAligned
<1>1. BuildInv => SidecarAligned
  BY SidecarFits
<1> QED
  BY BuildCorrect, <1>1, PTL

-----------------------------------------------------------------------------
(* The tree of accessors.                                                  *)
LEMMA SetListed ==
  ASSUME NEW S, IsFiniteSet(S)
  PROVE  IsList(SetToSeq(S)) /\ Range(SetToSeq(S)) = S
<1> DEFINE n == Cardinality(S)
           f == SetToSeq(S)
<1>1. n \in Nat /\ ExistsBijection(1..n, S)
  BY FS_CardinalityType
<1>2. PICK b \in [1..n -> S] : IsInjective(b)
  BY <1>1 DEF ExistsBijection, Bijection, Injection
<1>3. f \in [1..n -> S] /\ IsInjective(f)
  BY <1>2 DEF SetToSeq
<1> HIDE DEF n, f
<1>4. f \in Injection(1..n, S)
  BY <1>3 DEF Injection
<1>5. IsFiniteSet(1..n) /\ Cardinality(1..n) = n
  BY <1>1, FS_Interval
<1>6. f \in Surjection(1..n, S)
  BY <1>4, <1>5, FS_Injection DEF n
<1>7. DOMAIN f = 1..n /\ f = [i \in 1..n |-> f[i]] /\ \A x \in S : \E i \in 1..n : f[i] = x
  BY <1>3, <1>6 DEF Surjection
<1>8. IsList(f)
  BY <1>1, <1>7, IsListOf
<1>9. \A i \in 1..n : f[i] \in S
  BY <1>3
<1>10. Range(f) = S
  BY <1>7, <1>9 DEF Range
<1> QED
  BY <1>8, <1>10 DEF f

\* An accessor answers what all attributes of its name answer.
LEMMA AnswerIs ==
  ASSUME NEW attributes, IsList(attributes), NEW given, NEW i \in DOMAIN attributes,
         \A j \in DOMAIN attributes : /\ ~attributes[j].initArg
                                      /\ attributes[j].name = attributes[i].name =>
                                           attributes[j].class = attributes[i].class
  PROVE  Answer(attributes, attributes[i].name, given) = attributes[i].class
<1> DEFINE named == {j \in DOMAIN attributes : attributes[j].name = attributes[i].name}
<1>1. Len(attributes) \in Nat /\ DOMAIN attributes = 1..Len(attributes)
  BY ListRange
<1>2. i \in named /\ named \in SUBSET (1..Len(attributes))
  BY <1>1
<1> HIDE DEF named
<1>3. Max(named) \in named
  BY <1>1, <1>2, GreatestExists
<1>4. attributes[Max(named)].class = attributes[i].class /\ ~attributes[Max(named)].initArg
  BY <1>3 DEF named
<1>5. named # {}
  BY <1>2
<1> QED
  BY <1>4, <1>5 DEF Answer, named

\* What a tree is made of: entries with a name of their own and a place.
Named(placed) == IsList(placed) /\ AccessorsApart(placed)
Shown(placed, i) == IF placed[i].container = Unset THEN FlatAccessor(placed[i].markup.name)
                    ELSE ContainerAccessor(placed[i].markup, placed[i].container)
PlacedIn(placed, c) == {i \in DOMAIN placed : placed[i].container = c}
Used(placed) == {placed[i].container : i \in DOMAIN placed} \ {Unset}
Doors(placed) == {EmitTree(placed).containers[k].door : k \in Used(placed)}

(* AccessorsApart, of two placements.                                      *)
LEMMA ApartIs ==
  ASSUME NEW placed, AccessorsApart(placed), NEW i \in DOMAIN placed, NEW j \in DOMAIN placed
  PROVE  /\ placed[i].container = placed[j].container /\ Shown(placed, i) = Shown(placed, j) => i = j
         /\ placed[i].container = Unset => Shown(placed, i) # placed[j].container
BY DEF AccessorsApart, Shown

\* The attributes for the entries of one place.
Shelf(placed, c) ==
  LET p == Picked(placed, PlacedIn(placed, c))
  IN  [i \in DOMAIN p |-> Has(IF c = Unset THEN FlatAccessor(p[i].markup.name)
                              ELSE ContainerAccessor(p[i].markup, c), p[i].markup.name)]

(* The tree has a shelf for each container that is used, and one for the   *)
(* client itself.                                                          *)
LEMMA TreeIs ==
  ASSUME NEW placed
  PROVE  /\ DOMAIN EmitTree(placed).containers = Used(placed)
         /\ \A c \in Used(placed) :
              /\ EmitTree(placed).containers[c].door = Has(c, Containers[c])
              /\ EmitTree(placed).containers[c].members = Shelf(placed, c)
         /\ EmitTree(placed).flat = Shelf(placed, Unset)
<1>1. \A c \in Used(placed) : EmitContainer(placed, c) = Shelf(placed, c)
  BY DEF EmitContainer, Shelf, Used, PlacedIn
<1> QED
  BY <1>1 DEF EmitTree, Used, PlacedIn, Shelf

(* On a shelf are the accessors of the resources placed there, and no      *)
(* others.                                                                 *)
LEMMA ShelfIs ==
  ASSUME NEW placed, IsList(placed), NEW c
  PROVE  /\ IsList(Shelf(placed, c))
         /\ \A j \in DOMAIN Shelf(placed, c) : \E i \in PlacedIn(placed, c) :
              Shelf(placed, c)[j] = Has(Shown(placed, i), placed[i].markup.name)
         /\ \A i \in PlacedIn(placed, c) : \E j \in DOMAIN Shelf(placed, c) :
              Shelf(placed, c)[j] = Has(Shown(placed, i), placed[i].markup.name)
<1> DEFINE I == PlacedIn(placed, c)
           p == Picked(placed, I)
           n == Cardinality(I)
           shelf == Shelf(placed, c)
<1>1. placed \in Seq(Range(placed)) /\ I \in SUBSET DOMAIN placed
  BY DEF IsList, PlacedIn
<1> HIDE DEF I
<1>2. /\ n \in Nat /\ DOMAIN p = 1..n
      /\ \A k \in 1..n : Place(I, k) \in I /\ p[k] = placed[Place(I, k)]
      /\ \A i \in I : Rank(I, i) \in 1..n /\ p[Rank(I, i)] = placed[i]
  BY <1>1, PickedEntries
<1>3. /\ DOMAIN shelf = DOMAIN p /\ shelf = [i \in DOMAIN p |-> shelf[i]]
      /\ \A k \in DOMAIN p :
           shelf[k] = Has(IF c = Unset THEN FlatAccessor(p[k].markup.name)
                          ELSE ContainerAccessor(p[k].markup, c), p[k].markup.name)
  BY DEF Shelf, I
<1> HIDE DEF p, n, shelf
<1>4. \A i \in I : placed[i].container = c
  BY DEF PlacedIn, I
<1>5. ASSUME NEW k \in 1..n, NEW i \in I, p[k] = placed[i]
      PROVE  shelf[k] = Has(Shown(placed, i), placed[i].markup.name)
  BY <1>2, <1>3, <1>4, <1>5 DEF Shown
<1>6. IsList(shelf)
  BY <1>2, <1>3, IsListOf
<1>7. \A k \in 1..n : \E i \in I : shelf[k] = Has(Shown(placed, i), placed[i].markup.name)
  BY <1>2, <1>5
<1>8. \A i \in I : \E k \in 1..n : shelf[k] = Has(Shown(placed, i), placed[i].markup.name)
  BY <1>2, <1>5
<1> QED
  BY <1>2, <1>3, <1>6, <1>7, <1>8 DEF I, shelf

\* The doors of the containers, in some order.
LEMMA DoorsListed ==
  ASSUME NEW placed, IsList(placed)
  PROVE  /\ IsList(SetToSeq(Doors(placed)))
         /\ \A j \in DOMAIN SetToSeq(Doors(placed)) : \E c \in Used(placed) :
              SetToSeq(Doors(placed))[j] = Has(c, Containers[c])
         /\ \A c \in Used(placed) : \E j \in DOMAIN SetToSeq(Doors(placed)) :
              SetToSeq(Doors(placed))[j] = Has(c, Containers[c])
<1> DEFINE n == Len(placed)
           h == [i \in 1..n |-> Has(placed[i].container, Containers[placed[i].container])]
           doors == SetToSeq(Doors(placed))
<1>1. n \in Nat /\ DOMAIN placed = 1..n
  BY ListRange
<1>2. Doors(placed) = {Has(c, Containers[c]) : c \in Used(placed)}
  BY TreeIs DEF Doors
<1> HIDE DEF n
<1>3. ASSUME NEW x \in Doors(placed) PROVE \E j \in 1..n : h[j] = x
  <2>1. PICK c \in Used(placed) : x = Has(c, Containers[c])
    BY <1>2
  <2>2. PICK j \in 1..n : placed[j].container = c
    BY <1>1, <2>1 DEF Used
  <2> QED
    BY <2>1, <2>2
<1> HIDE DEF h
<1>4. Doors(placed) \subseteq {h[j] : j \in 1..n}
  BY <1>3
<1>5. IsFiniteSet({h[j] : j \in 1..n})
  BY <1>1, ImageFinite
<1>6. IsFiniteSet(Doors(placed))
  BY <1>4, <1>5, FS_Subset
<1>7. IsList(doors) /\ Range(doors) = Doors(placed)
  BY <1>6, SetListed
<1> HIDE DEF doors
<1>8. \A j \in DOMAIN doors : doors[j] \in Doors(placed)
  BY <1>7 DEF Range
<1>9. \A x \in Doors(placed) : \E j \in DOMAIN doors : doors[j] = x
  BY <1>7 DEF Range
<1> QED
  BY <1>2, <1>7, <1>8, <1>9 DEF doors

\* The accessors of the client itself: resources of no container, and the
\* doors.
Root(placed) == Shelf(placed, Unset) \o SetToSeq(Doors(placed))

(* The client has the accessors of its own shelf and one for each          *)
(* container.                                                              *)
LEMMA RootIs ==
  ASSUME NEW placed, IsList(placed)
  PROVE  /\ IsList(Root(placed))
         /\ \A j \in DOMAIN Root(placed) :
              \/ \E i \in PlacedIn(placed, Unset) :
                   Root(placed)[j] = Has(Shown(placed, i), placed[i].markup.name)
              \/ \E c \in Used(placed) : Root(placed)[j] = Has(c, Containers[c])
         /\ \A i \in PlacedIn(placed, Unset) : \E j \in DOMAIN Root(placed) :
              Root(placed)[j] = Has(Shown(placed, i), placed[i].markup.name)
         /\ \A c \in Used(placed) : \E j \in DOMAIN Root(placed) :
              Root(placed)[j] = Has(c, Containers[c])
<1> DEFINE a == Shelf(placed, Unset)
           b == SetToSeq(Doors(placed))
           root == a \o b
<1>1. /\ IsList(a)
      /\ \A j \in DOMAIN a : \E i \in PlacedIn(placed, Unset) :
           a[j] = Has(Shown(placed, i), placed[i].markup.name)
      /\ \A i \in PlacedIn(placed, Unset) : \E j \in DOMAIN a :
           a[j] = Has(Shown(placed, i), placed[i].markup.name)
  BY ShelfIs
<1>2. /\ IsList(b)
      /\ \A j \in DOMAIN b : \E c \in Used(placed) : b[j] = Has(c, Containers[c])
      /\ \A c \in Used(placed) : \E j \in DOMAIN b : b[j] = Has(c, Containers[c])
  BY DoorsListed
<1> HIDE DEF a, b
<1>3. /\ IsList(root) /\ DOMAIN root = 1..(Len(a) + Len(b))
      /\ \A i \in 1..Len(a) : root[i] = a[i]
      /\ \A i \in 1..Len(b) : root[Len(a) + i] = b[i]
  BY <1>1, <1>2, ConcatLists
<1>4. Len(a) \in Nat /\ DOMAIN a = 1..Len(a) /\ Len(b) \in Nat /\ DOMAIN b = 1..Len(b)
  BY <1>1, <1>2, ListRange
<1> HIDE DEF root
<1>5. ASSUME NEW j \in DOMAIN root
      PROVE  \/ \E i \in DOMAIN a : root[j] = a[i]
             \/ \E i \in DOMAIN b : root[j] = b[i]
  <2>1. CASE j \in 1..Len(a)
    BY <1>3, <1>4, <2>1
  <2>2. CASE j \notin 1..Len(a)
    <3>1. j - Len(a) \in 1..Len(b) /\ Len(a) + (j - Len(a)) = j
      BY <1>3, <1>4, <2>2
    <3> QED
      BY <1>3, <1>4, <3>1
  <2> QED
    BY <2>1, <2>2
<1>6. /\ \A i \in DOMAIN a : i \in DOMAIN root /\ root[i] = a[i]
      /\ \A i \in DOMAIN b : Len(a) + i \in DOMAIN root /\ root[Len(a) + i] = b[i]
  BY <1>3, <1>4
<1>7. \A j \in DOMAIN root :
        \/ \E i \in PlacedIn(placed, Unset) : root[j] = Has(Shown(placed, i), placed[i].markup.name)
        \/ \E c \in Used(placed) : root[j] = Has(c, Containers[c])
  BY <1>1, <1>2, <1>5
<1>8. \A i \in PlacedIn(placed, Unset) : \E j \in DOMAIN root :
        root[j] = Has(Shown(placed, i), placed[i].markup.name)
  BY <1>1, <1>6
<1>9. \A c \in Used(placed) : \E j \in DOMAIN root : root[j] = Has(c, Containers[c])
  BY <1>2, <1>6
<1> QED
  BY <1>3, <1>7, <1>8, <1>9 DEF root, a, b, Root

(* A resource placed on the client is what its accessor answers.           *)
LEMMA FlatAnswers ==
  ASSUME NEW placed, Named(placed), NEW i \in DOMAIN placed, placed[i].container = Unset, NEW given
  PROVE  Answer(Root(placed), FlatAccessor(placed[i].markup.name), given) = placed[i].markup.name
<1> DEFINE root == Root(placed)
           S == PlacedIn(placed, Unset)
<1>1. i \in S /\ Shown(placed, i) = FlatAccessor(placed[i].markup.name)
  BY DEF PlacedIn, Shown
<1>2. IsList(placed) /\ AccessorsApart(placed)
  BY DEF Named
<1>3. /\ IsList(root)
      /\ \A j \in DOMAIN root :
           \/ \E k \in S : root[j] = Has(Shown(placed, k), placed[k].markup.name)
           \/ \E c \in Used(placed) : root[j] = Has(c, Containers[c])
      /\ \A k \in S : \E j \in DOMAIN root : root[j] = Has(Shown(placed, k), placed[k].markup.name)
  BY <1>2, RootIs
<1>4. \A k \in S : k \in DOMAIN placed /\ placed[k].container = Unset
  BY DEF PlacedIn
<1> HIDE DEF root, S
<1>5. PICK j \in DOMAIN root : root[j] = Has(Shown(placed, i), placed[i].markup.name)
  BY <1>1, <1>3
<1>6. root[j].name = Shown(placed, i) /\ root[j].class = placed[i].markup.name
  BY <1>5 DEF Has
<1>7. ASSUME NEW x \in DOMAIN root
      PROVE  ~root[x].initArg /\ (root[x].name = root[j].name => root[x].class = root[j].class)
  <2>1. CASE \E k \in S : root[x] = Has(Shown(placed, k), placed[k].markup.name)
    <3>1. PICK k \in S : root[x] = Has(Shown(placed, k), placed[k].markup.name)
      BY <2>1
    <3>2. root[x].name = Shown(placed, k) /\ root[x].class = placed[k].markup.name /\ ~root[x].initArg
      BY <3>1 DEF Has
    <3>3. k \in DOMAIN placed /\ placed[k].container = Unset
      BY <1>4
    <3>4. Shown(placed, k) = Shown(placed, i) => k = i
      BY <1>2, <3>3, ApartIs
    <3> QED
      BY <1>6, <3>2, <3>4
  <2>2. CASE \E c \in Used(placed) : root[x] = Has(c, Containers[c])
    <3>1. PICK c \in Used(placed) : root[x] = Has(c, Containers[c])
      BY <2>2
    <3>2. PICK k \in DOMAIN placed : placed[k].container = c
      BY <3>1 DEF Used
    <3>3. root[x].name = c /\ ~root[x].initArg
      BY <3>1 DEF Has
    <3>4. Shown(placed, i) # c
      BY <1>2, <3>2, ApartIs
    <3> QED
      BY <1>6, <3>3, <3>4
  <2> QED
    BY <1>3, <2>1, <2>2
<1>8. Answer(root, root[j].name, given) = root[j].class
  BY <1>3, <1>7, AnswerIs
<1> QED
  BY <1>1, <1>6, <1>8 DEF root

(* A container is what its accessor answers.                               *)
LEMMA DoorAnswers ==
  ASSUME NEW placed, Named(placed), NEW c \in Used(placed), NEW given
  PROVE  Answer(Root(placed), c, given) = Containers[c]
<1> DEFINE root == Root(placed)
           S == PlacedIn(placed, Unset)
<1>1. IsList(placed) /\ AccessorsApart(placed)
  BY DEF Named
<1>2. /\ IsList(root)
      /\ \A j \in DOMAIN root :
           \/ \E k \in S : root[j] = Has(Shown(placed, k), placed[k].markup.name)
           \/ \E b \in Used(placed) : root[j] = Has(b, Containers[b])
      /\ \A b \in Used(placed) : \E j \in DOMAIN root : root[j] = Has(b, Containers[b])
  BY <1>1, RootIs
<1>3. \A k \in S : k \in DOMAIN placed /\ placed[k].container = Unset
  BY DEF PlacedIn
<1> HIDE DEF root, S
<1>4. PICK j \in DOMAIN root : root[j] = Has(c, Containers[c])
  BY <1>2
<1>5. root[j].name = c /\ root[j].class = Containers[c]
  BY <1>4 DEF Has
<1>6. PICK i \in DOMAIN placed : placed[i].container = c
  BY DEF Used
<1>7. ASSUME NEW x \in DOMAIN root
      PROVE  ~root[x].initArg /\ (root[x].name = root[j].name => root[x].class = root[j].class)
  <2>1. CASE \E k \in S : root[x] = Has(Shown(placed, k), placed[k].markup.name)
    <3>1. PICK k \in S : root[x] = Has(Shown(placed, k), placed[k].markup.name)
      BY <2>1
    <3>2. root[x].name = Shown(placed, k) /\ ~root[x].initArg
      BY <3>1 DEF Has
    <3>3. k \in DOMAIN placed /\ placed[k].container = Unset
      BY <1>3
    <3>4. Shown(placed, k) # c
      BY <1>1, <1>6, <3>3, ApartIs
    <3> QED
      BY <1>5, <3>2, <3>4
  <2>2. CASE \E b \in Used(placed) : root[x] = Has(b, Containers[b])
    BY <1>5, <2>2 DEF Has
  <2> QED
    BY <1>2, <2>1, <2>2
<1>8. Answer(root, root[j].name, given) = root[j].class
  BY <1>2, <1>7, AnswerIs
<1> QED
  BY <1>5, <1>8 DEF root

(* A resource placed in a container is what its accessor answers.          *)
LEMMA MemberAnswers ==
  ASSUME NEW placed, Named(placed), NEW i \in DOMAIN placed, placed[i].container # Unset, NEW given
  PROVE  Answer(Shelf(placed, placed[i].container),
                ContainerAccessor(placed[i].markup, placed[i].container), given)
           = placed[i].markup.name
<1> DEFINE c == placed[i].container
           shelf == Shelf(placed, c)
           S == PlacedIn(placed, c)
<1>1. i \in S /\ Shown(placed, i) = ContainerAccessor(placed[i].markup, c)
  BY DEF PlacedIn, Shown
<1>2. IsList(placed) /\ AccessorsApart(placed)
  BY DEF Named
<1>3. /\ IsList(shelf)
      /\ \A j \in DOMAIN shelf : \E k \in S :
           shelf[j] = Has(Shown(placed, k), placed[k].markup.name)
      /\ \A k \in S : \E j \in DOMAIN shelf : shelf[j] = Has(Shown(placed, k), placed[k].markup.name)
  BY <1>2, ShelfIs
<1>4. \A k \in S : k \in DOMAIN placed /\ placed[k].container = placed[i].container
  BY DEF PlacedIn
<1> HIDE DEF shelf, S, c
<1>5. PICK j \in DOMAIN shelf : shelf[j] = Has(Shown(placed, i), placed[i].markup.name)
  BY <1>1, <1>3
<1>6. shelf[j].name = Shown(placed, i) /\ shelf[j].class = placed[i].markup.name
  BY <1>5 DEF Has
<1>7. ASSUME NEW x \in DOMAIN shelf
      PROVE  ~shelf[x].initArg /\ (shelf[x].name = shelf[j].name => shelf[x].class = shelf[j].class)
  <2>1. PICK k \in S : shelf[x] = Has(Shown(placed, k), placed[k].markup.name)
    BY <1>3
  <2>2. /\ shelf[x].name = Shown(placed, k) /\ shelf[x].class = placed[k].markup.name
        /\ ~shelf[x].initArg
    BY <2>1 DEF Has
  <2>3. k \in DOMAIN placed /\ placed[k].container = placed[i].container
    BY <1>4
  <2>4. Shown(placed, k) = Shown(placed, i) => k = i
    BY <1>2, <2>3, ApartIs
  <2> QED
    BY <1>6, <2>2, <2>4
<1>8. Answer(shelf, shelf[j].name, given) = shelf[j].class
  <2>1. IsList(shelf) /\ \A x \in DOMAIN shelf :
          ~shelf[x].initArg /\ (shelf[x].name = shelf[j].name => shelf[x].class = shelf[j].class)
    BY <1>3, <1>7
  <2> QED
    BY ONLY <1>5, <2>1, AnswerIs
<1> QED
  BY <1>1, <1>6, <1>8 DEF shelf, c

(* TreeReachesEveryResource follows from what is generated by the end of   *)
(* the build.                                                              *)
LEMMA TreeFits ==
  ASSUME BuildInv
  PROVE  TreeReachesEveryResource
<1> SUFFICES ASSUME stage = "built", NEW i \in DOMAIN AllResources(docs)
             PROVE  LET spec == AllResources(docs)[i][1]
                        r == AllResources(docs)[i][2]
                    IN  r.markup.name \in DOMAIN classes /\ Reached(r.markup, Placement(spec, r))
  BY DEF TreeReachesEveryResource, Placement
<1> DEFINE placed == ResolvePlacement(docs)
           all == AllResources(docs)
           m == all[i][2].markup
           c == Placement(all[i][1], all[i][2])
<1>1. /\ docs \in Documents /\ m.name \in DOMAIN classes /\ tree = EmitTree(placed)
  BY BuiltIs DEF NameAt
<1>2. Len(all) \in Nat /\ DOMAIN all = 1..Len(all)
  BY <1>1, AllTyped
<1>3. /\ placed = [k \in 1..Len(all) |-> placed[k]]
      /\ placed[i].markup = m /\ placed[i].container = c
  BY <1>2 DEF ResolvePlacement
<1>4. AccessorsApart(placed)
  BY <1>1, DocumentsFit
<1> HIDE DEF placed, all, m, c
<1>5. IsList(placed) /\ DOMAIN placed = DOMAIN all
  BY <1>2, <1>3, IsListOf
<1>6. Named(placed)
  BY <1>4, <1>5 DEF Named
<1>7. i \in DOMAIN placed
  BY <1>5 DEF all
<1>8. /\ DOMAIN tree.containers = Used(placed) /\ tree.flat = Shelf(placed, Unset)
      /\ {tree.containers[k].door : k \in DOMAIN tree.containers} = Doors(placed)
  BY <1>1, TreeIs DEF Doors
<1>9. tree.flat \o SetToSeq({tree.containers[k].door : k \in DOMAIN tree.containers}) = Root(placed)
  BY <1>8 DEF Root
<1>10. CASE c = Unset
  <2>1. Answer(Root(placed), FlatAccessor(m.name), Credentials) = m.name
    BY <1>3, <1>6, <1>7, <1>10, FlatAnswers
  <2>2. Reached(m, c)
    BY <1>9, <1>10, <2>1 DEF Reached
  <2> QED
    BY <1>1, <2>2 DEF m, c, all
<1>11. CASE c # Unset
  <2>1. c \in Used(placed)
    BY <1>3, <1>7, <1>11 DEF Used
  <2>2. Answer(Root(placed), c, Credentials) = Containers[c]
    BY <1>6, <2>1, DoorAnswers
  <2>3. Answer(Shelf(placed, c), ContainerAccessor(m, c), {}) = m.name
    BY <1>3, <1>6, <1>7, <1>11, MemberAnswers
  <2>4. tree.containers[c].members = Shelf(placed, c)
    BY <1>1, <2>1, TreeIs
  <2>5. Reached(m, c)
    BY <1>8, <1>9, <1>11, <2>1, <2>2, <2>3, <2>4 DEF Reached
  <2> QED
    BY <1>1, <2>5 DEF m, c, all
<1> QED
  BY <1>10, <1>11

\* Whenever the build has ended, every resource that was generated is reached
\* from the RestClient by the accessor of its placement, although the client
\* is given credentials that have the names of accessors.
THEOREM TreeCorrect == BuildSpec => []TreeReachesEveryResource
<1>1. BuildInv => TreeReachesEveryResource
  BY TreeFits
<1> QED
  BY BuildCorrect, <1>1, PTL

-----------------------------------------------------------------------------
(* The hash of an argument list.                                           *)
LEMMA HashOfPairs ==
  ASSUME NEW S, NEW g \in Seq(S)
  PROVE  Hash(Pairs(g)) = [k \in {Key(g[i]) : i \in DOMAIN g} |-> <<"val", k[2]>>]
<1> DEFINE n == Len(g)
           list == Pairs(g)
           keys == {i \in DOMAIN list : i % 2 = 1}
           names == {list[i] : i \in keys}
           final(k) == Max({i \in keys : list[i] = k}) + 1
<1>1. n \in Nat /\ DOMAIN g = 1..n
  OBVIOUS
<1>2. DOMAIN list = 1..(2 * n)
      /\ \A i \in 1..(2 * n) : list[i] = IF i % 2 = 1 THEN Key(g[(i + 1) \div 2])
                                                      ELSE <<"val", g[i \div 2]>>
  BY DEF Pairs
<1> HIDE DEF n, list
<1>3. \A i \in 1..(2 * n) : i % 2 = 1 =>
        /\ (i + 1) \div 2 \in 1..n /\ i + 1 \in 1..(2 * n) /\ (i + 1) % 2 # 1
  BY <1>1
<1>4. \A j \in 1..n : 2 * j - 1 \in 1..(2 * n) /\ (2 * j - 1) % 2 = 1 /\ ((2 * j - 1) + 1) \div 2 = j
  BY <1>1
<1>5. keys \in SUBSET (1..(2 * n)) /\ \A i \in keys : list[i] = Key(g[(i + 1) \div 2])
  BY <1>2
<1>6. names = {Key(g[i]) : i \in 1..n}
  <2>1. \A i \in keys : \E j \in 1..n : list[i] = Key(g[j])
    BY <1>2, <1>3
  <2>2. \A j \in 1..n : 2 * j - 1 \in keys /\ list[2 * j - 1] = Key(g[j])
    BY <1>2, <1>4
  <2> HIDE DEF keys
  <2>3. \A j \in 1..n : \E i \in keys : list[i] = Key(g[j])
    BY <2>2
  <2> QED
    BY <2>1, <2>3
<1>7. ASSUME NEW k \in names
      PROVE  final(k) \in DOMAIN list /\ list[final(k)] = <<"val", k[2]>>
  <2> DEFINE I == {i \in keys : list[i] = k}
  <2>1. I \in SUBSET (1..(2 * n)) /\ I # {}
    BY <1>5
  <2> HIDE DEF I
  <2>2. Max(I) \in I
    <3>1. 2 * n \in Nat
      BY <1>1
    <3> QED
      BY ONLY <2>1, <3>1, GreatestExists
  <2> DEFINE x == Max(I)
  <2> HIDE DEF x
  <2>3. x \in keys /\ list[x] = k
    BY <2>2 DEF I, x
  <2>4. x \in 1..(2 * n) /\ x % 2 = 1
    BY <1>2, <2>3
  <2>5. k = Key(g[(x + 1) \div 2])
    BY <1>5, <2>3
  <2>6. k[2] = g[(x + 1) \div 2]
    BY <2>5 DEF Key
  <2>7. x + 1 \in 1..(2 * n) /\ list[x + 1] = <<"val", g[(x + 1) \div 2]>>
    BY <1>2, <1>3, <2>4
  <2>8. final(k) = x + 1
    BY DEF I, x
  <2> HIDE DEF final
  <2> QED
    BY <1>2, <2>6, <2>7, <2>8
<1>8. Hash(list) = [k \in names |-> IF final(k) \in DOMAIN list THEN list[final(k)] ELSE Undef]
  BY DEF Hash
<1> HIDE DEF final, names
<1>9. Hash(list) = [k \in names |-> <<"val", k[2]>>]
  BY <1>7, <1>8
<1> QED
  BY <1>1, <1>6, <1>9 DEF list

\* The request options are one more pair.
Listed(g, ro) == IF ro THEN Append(g, "request_options") ELSE g

(* request_options is one more pair behind those given.                    *)
LEMMA PairsEnd ==
  ASSUME NEW S, NEW g \in Seq(S), NEW ro \in BOOLEAN
  PROVE  /\ Pairs(g) \o WithOptions(ro) = Pairs(Listed(g, ro))
         /\ Listed(g, ro) \in Seq(S \cup {"request_options"})
<1> DEFINE T == S \cup {"request_options"}
           n == Len(g)
           more == Append(g, "request_options")
           list == Pairs(g)
           last == <<RO, <<"val", "request_options">>>>
<1>1. n \in Nat /\ DOMAIN g = 1..n
  OBVIOUS
<1>2. /\ more \in Seq(T) /\ Len(more) = n + 1 /\ more[n + 1] = "request_options"
      /\ \A i \in 1..n : more[i] = g[i]
  <2> DEFINE x == "request_options"
  <2>1. x \in T /\ g \in Seq(T)
    OBVIOUS
  <2> HIDE DEF x, T
  <2>2. /\ Append(g, x) \in Seq(T) /\ Len(Append(g, x)) = Len(g) + 1
        /\ Append(g, x)[Len(g) + 1] = x
        /\ \A i \in 1..Len(g) : Append(g, x)[i] = g[i]
    BY <2>1, PushType
  <2> QED
    BY <2>2 DEF x
<1>3. DOMAIN list = 1..(2 * n) /\ list = [i \in 1..(2 * n) |-> list[i]]
      /\ \A i \in 1..(2 * n) : list[i] = IF i % 2 = 1 THEN Key(g[(i + 1) \div 2])
                                                      ELSE <<"val", g[i \div 2]>>
  BY DEF Pairs
<1> HIDE DEF n, more, list
<1>4. 2 * n \in Nat
  BY <1>1
<1>5. IsList(list) /\ Len(list) = 2 * n
  BY <1>3, <1>4, IsListOf
<1>6. CASE ~ro
  <2>1. WithOptions(ro) = <<>> /\ Listed(g, ro) = g
    BY <1>6 DEF WithOptions, Listed
  <2>2. list \in Seq(Range(list)) /\ g \in Seq(S \cup {"request_options"})
    BY <1>5 DEF IsList
  <2>3. list \o <<>> = list
    BY <2>2
  <2> QED
    BY <2>1, <2>2, <2>3 DEF list
<1>7. CASE ro
  <2>1. WithOptions(ro) = last /\ Listed(g, ro) = more
    BY <1>7 DEF WithOptions, Listed, more
  <2>2. IsList(last) /\ Len(last) = 2 /\ last[1] = RO /\ last[2] = <<"val", "request_options">>
    <3>1. last = [i \in 1..2 |-> last[i]]
      OBVIOUS
    <3> QED
      BY <3>1, IsListOf
  <2> DEFINE whole == list \o last
             pairs == Pairs(more)
  <2> HIDE DEF last
  <2>3. /\ IsList(whole) /\ Len(whole) = 2 * n + 2 /\ DOMAIN whole = 1..(2 * n + 2)
        /\ \A i \in 1..(2 * n) : whole[i] = list[i]
        /\ \A i \in 1..2 : whole[2 * n + i] = last[i]
    <3>1. /\ IsList(whole) /\ Len(whole) = Len(list) + Len(last)
          /\ DOMAIN whole = 1..(Len(list) + Len(last))
          /\ \A i \in 1..Len(list) : whole[i] = list[i]
          /\ \A i \in 1..Len(last) : whole[Len(list) + i] = last[i]
      <4>1. IsList(list)
        BY <1>5
      <4>2. IsList(last)
        BY <2>2
      <4> QED
        BY ONLY <4>1, <4>2, ConcatLists
    <3> HIDE DEF whole
    <3> QED
      BY <1>5, <2>2, <3>1
  <2>4. /\ pairs = [i \in 1..(2 * (n + 1)) |-> pairs[i]]
        /\ \A i \in 1..(2 * (n + 1)) : pairs[i] = IF i % 2 = 1 THEN Key(more[(i + 1) \div 2])
                                                  ELSE <<"val", more[i \div 2]>>
    BY <1>2 DEF Pairs
  <2>5. whole = [i \in 1..(2 * n + 2) |-> whole[i]]
    BY <2>3, ListRange
  <2> HIDE DEF whole, pairs
  <2>6. 2 * (n + 1) = 2 * n + 2
    BY <1>1
  <2>7. ASSUME NEW i \in 1..(2 * n + 2) PROVE whole[i] = pairs[i]
    <3>1. CASE i \in 1..(2 * n)
      <4>1. i % 2 = 1 => (i + 1) \div 2 \in 1..n
        BY <1>1, <3>1
      <4>2. i % 2 # 1 => i \div 2 \in 1..n
        BY <1>1, <3>1
      <4>3. whole[i] = IF i % 2 = 1 THEN Key(g[(i + 1) \div 2]) ELSE <<"val", g[i \div 2]>>
        BY <1>3, <2>3, <3>1
      <4>4. pairs[i] = IF i % 2 = 1 THEN Key(more[(i + 1) \div 2]) ELSE <<"val", more[i \div 2]>>
        BY <2>4, <2>6
      <4> QED
        BY <1>2, <4>1, <4>2, <4>3, <4>4
    <3>2. CASE i = 2 * n + 1
      <4>1. i % 2 = 1 /\ (i + 1) \div 2 = n + 1
        BY <1>1, <3>2
      <4>2. pairs[i] = Key(more[n + 1])
        BY <2>4, <2>6, <4>1
      <4> QED
        BY <1>2, <2>2, <2>3, <3>2, <4>2 DEF RO
    <3>3. CASE i = 2 * n + 2
      <4>1. i % 2 # 1 /\ i \div 2 = n + 1
        BY <1>1, <3>3
      <4>2. pairs[i] = <<"val", more[n + 1]>>
        BY <2>4, <2>6, <4>1
      <4> QED
        BY <1>2, <2>2, <2>3, <3>3, <4>2
    <3> QED
      BY <1>1, <3>1, <3>2, <3>3
  <2>8. whole = pairs
    BY <2>4, <2>5, <2>6, <2>7
  <2> QED
    BY <1>2, <2>1, <2>8 DEF whole, pairs, list
<1> QED
  BY <1>6, <1>7

\* Names and values, and perhaps request_options, as the hash %rest.
LEMMA RestIs ==
  ASSUME NEW S, NEW g \in Seq(S), \A i \in DOMAIN g : g[i] # "request_options", NEW ro \in BOOLEAN
  PROVE  LET h == Hash(Pairs(g) \o WithOptions(ro))
         IN  /\ Without(h, RO) = AsHash(g) /\ Get(h, RO) = OptionsAtom(ro)
             /\ AsHash(g) = [k \in {Key(g[i]) : i \in DOMAIN g} |-> <<"val", k[2]>>]
<1> DEFINE more == Listed(g, ro)
           h == Hash(Pairs(g) \o WithOptions(ro))
           names == {Key(g[i]) : i \in DOMAIN g}
<1>1. more \in Seq(S \cup {"request_options"}) /\ h = Hash(Pairs(more))
  BY PairsEnd
<1>2. h = [k \in {Key(more[i]) : i \in DOMAIN more} |-> <<"val", k[2]>>]
  BY <1>1, HashOfPairs
<1>3. AsHash(g) = [k \in names |-> <<"val", k[2]>>]
  BY HashOfPairs DEF AsHash
<1>4. RO \notin names
  BY DEF RO, Key
<1>5. CASE ro
  <2>1. {Key(more[i]) : i \in DOMAIN more} = names \cup {RO}
    <3>1. more = Append(g, "request_options")
      BY <1>5 DEF Listed
    <3>2. DOMAIN g = 1..Len(g) /\ Len(g) \in Nat /\ DOMAIN more = 1..(Len(g) + 1)
          /\ more[Len(g) + 1] = "request_options" /\ \A i \in 1..Len(g) : more[i] = g[i]
      BY <3>1
    <3> DEFINE n == Len(g)
    <3> HIDE DEF more, n
    <3>3. \A i \in 1..(n + 1) : i \in 1..n \/ i = n + 1
      BY <3>2 DEF n
    <3>4. \A i \in 1..n : i \in 1..(n + 1)
      BY <3>2 DEF n
    <3>5. n + 1 \in 1..(n + 1)
      BY <3>2 DEF n
    <3> QED
      BY <3>2, <3>3, <3>4, <3>5 DEF n, RO
  <2>2. h = [k \in names \cup {RO} |-> <<"val", k[2]>>]
    BY <1>2, <2>1
  <2>3. RO[2] = "request_options"
    BY DEF RO, Key
  <2> HIDE DEF h, names
  <2>4. Get(h, RO) = OptionsAtom(ro)
    BY <1>5, <2>2, <2>3 DEF Get, OptionsAtom
  <2>5. (names \cup {RO}) \ {RO} = names
    BY <1>4
  <2>6. Without(h, RO) = [k \in names |-> <<"val", k[2]>>]
    <3>1. DOMAIN h = names \cup {RO} /\ \A k \in names : h[k] = <<"val", k[2]>>
      BY <2>2
    <3> QED
      BY <2>5, <3>1 DEF Without
  <2> QED
    BY <1>3, <2>4, <2>6 DEF h, names
<1>6. CASE ~ro
  <2>1. h = [k \in names |-> <<"val", k[2]>>]
    BY <1>2, <1>6 DEF Listed
  <2> HIDE DEF h, names
  <2>2. Get(h, RO) = OptionsAtom(ro)
    BY <1>4, <1>6, <2>1 DEF Get, OptionsAtom
  <2>3. Without(h, RO) = [k \in names |-> <<"val", k[2]>>]
    <3>1. DOMAIN h = names /\ \A k \in names : h[k] = <<"val", k[2]>>
      BY <2>1
    <3>2. names \ {RO} = names
      BY <1>4
    <3> QED
      BY <3>1, <3>2 DEF Without
  <2> QED
    BY <1>3, <2>2, <2>3 DEF h, names
<1> QED
  BY <1>5, <1>6

-----------------------------------------------------------------------------
(* What a call sends, when every slot is given its argument.               *)
ValueOf(slots, head, name) == head[CHOOSE i \in 1..Len(slots) : slots[i] = name]

PathOf(sub, head) ==
  [i \in DOMAIN sub.where.pieces |->
     IF sub.where.pieces[i][1] = "arg" THEN ValueOf(sub.slots, head, sub.where.pieces[i][2])
     ELSE sub.where.pieces[i]]

FieldsOf(sub, head) ==
  Picked(sub.sets, {i \in DOMAIN sub.sets :
                      sub.sets[i][3] \/ ValueOf(sub.slots, head, sub.sets[i][1]) # Undef})

SetValues(slots, head, fields) ==
  [k \in {Key(fields[i][2]) : i \in DOMAIN fields} |->
     ValueOf(slots, head, fields[CHOOSE i \in DOMAIN fields : Key(fields[i][2]) = k][1])]

SetBody(sub, head, given) ==
  Over(given, Over(SetValues(sub.slots, head, FieldsOf(sub, head)),
                   Only(Key("call_handler"), <<"val", sub.says>>)))

CommandBody(sub, head, given) ==
  Over(Only(Key("command"), <<"val", sub.says>>),
  Over([k \in {Key("id") : i \in {j \in 1 .. Len(sub.slots) : head[j] # Undef}} |-> head[1]],
       [k \in {Param(g[2]) : g \in DOMAIN given} |->
          given[CHOOSE g \in DOMAIN given : Param(g[2]) = k]]))

BodyOf(sub, head, given) ==
  CASE sub.form = "named" -> given
    [] sub.form = "single" -> Only(Whole, ValueOf(sub.slots, head, "body"))
    [] sub.form = "set" -> SetBody(sub, head, given)
    [] sub.form = "command" -> CommandBody(sub, head, given)
    [] OTHER -> <<>>

Sends(class, sub, head, given, ro) ==
  [sent |-> TRUE, verb |-> sub.verb, ro |-> OptionsAtom(ro),
   path |-> (IF sub.where.sibling THEN <<>> ELSE class.path) \o PathOf(sub, head),
   query |-> IF sub.form = "query" THEN given ELSE <<>>,
   body |-> BodyOf(sub, head, given)]

(* Pairs are a list.                                                       *)
LEMMA PairsListed ==
  ASSUME NEW g, Len(g) \in Nat
  PROVE  IsList(Pairs(g))
<1>1. 2 * Len(g) \in Nat
  OBVIOUS
<1>2. Pairs(g) = [i \in 1..(2 * Len(g)) |-> Pairs(g)[i]]
  BY DEF Pairs
<1> QED
  BY <1>1, <1>2, IsListOf

(* The first arguments fill the slots, the others are the rest.            *)
LEMMA AfterHead ==
  ASSUME NEW a, IsList(a), NEW b, IsList(b)
  PROVE  /\ SubSeq(a \o b, Len(a) + 1, Len(a \o b)) = b
         /\ [i \in 1..Len(a) |-> IF i \in DOMAIN (a \o b) THEN (a \o b)[i] ELSE Undef] = a
<1> DEFINE whole == a \o b
           rest == SubSeq(whole, Len(a) + 1, Len(whole))
<1>1. /\ IsList(whole) /\ Len(whole) = Len(a) + Len(b)
      /\ DOMAIN whole = 1..(Len(a) + Len(b))
      /\ \A i \in 1..Len(a) : whole[i] = a[i]
      /\ \A i \in 1..Len(b) : whole[Len(a) + i] = b[i]
  BY ConcatLists
<1>2. /\ Len(a) \in Nat /\ a = [i \in 1..Len(a) |-> a[i]]
      /\ Len(b) \in Nat /\ b = [i \in 1..Len(b) |-> b[i]]
  BY ListRange
<1>3. whole \in Seq(Range(whole))
  BY <1>1 DEF IsList
<1> HIDE DEF whole
<1>4. Len(a) + 1 \in 1..(Len(whole) + 1) /\ Len(whole) \in 0..Len(whole)
  BY <1>1, <1>2
<1>5. /\ rest \in Seq(Range(whole))
      /\ Len(rest) = (IF Len(a) + 1 <= Len(whole) THEN Len(whole) - (Len(a) + 1) + 1 ELSE 0)
      /\ \A i \in 1..(Len(whole) - (Len(a) + 1) + 1) : rest[i] = whole[(Len(a) + 1) + i - 1]
  BY <1>3, <1>4, SegmentsPart
<1> HIDE DEF rest
<1>6. Len(whole) - (Len(a) + 1) + 1 = Len(b)
  BY <1>1, <1>2
<1>7. Len(rest) = Len(b)
  BY <1>1, <1>2, <1>5
<1>8. ASSUME NEW i \in 1..Len(b) PROVE rest[i] = b[i]
  <2>1. (Len(a) + 1) + i - 1 = Len(a) + i
    BY <1>2
  <2>2. rest[i] = whole[Len(a) + i]
    BY <1>5, <1>6, <2>1
  <2> QED
    BY <1>1, <2>2
<1>9. rest = [i \in 1..Len(rest) |-> rest[i]]
  BY <1>5
<1>10. rest = b
  BY <1>2, <1>7, <1>8, <1>9
<1>11. \A i \in 1..Len(a) : i \in DOMAIN whole
  BY <1>1, <1>2
<1>12. [i \in 1..Len(a) |-> IF i \in DOMAIN whole THEN whole[i] ELSE Undef] = a
  BY <1>1, <1>2, <1>11
<1> QED
  BY <1>10, <1>12 DEF whole, rest

(* What a call sends when each slot has its argument: the rest by name,    *)
(* request_options apart.                                                  *)
LEMMA PerformIs ==
  ASSUME NEW class, NEW sub, NEW head, IsList(head), Len(sub.slots) = Len(head),
         NEW S, NEW g \in Seq(S), \A i \in DOMAIN g : g[i] # "request_options", NEW ro \in BOOLEAN
  PROVE  Perform(class, sub, head \o (Pairs(g) \o WithOptions(ro)))
           = Sends(class, sub, head, AsHash(g), ro)
<1> DEFINE tail == Pairs(g) \o WithOptions(ro)
           list == head \o tail
           n == Len(sub.slots)
           slot == [i \in 1 .. n |-> IF i \in DOMAIN list THEN list[i] ELSE Undef]
           rest == Hash(SubSeq(list, n + 1, Len(list)))
           value(name) == slot[CHOOSE i \in 1 .. n : sub.slots[i] = name]
           given == Without(rest, RO)
           fields == Picked(sub.sets, {i \in DOMAIN sub.sets :
                                         sub.sets[i][3] \/ value(sub.sets[i][1]) # Undef})
<1>1. IsList(tail)
  <2>1. tail = Pairs(Listed(g, ro)) /\ Listed(g, ro) \in Seq(S \cup {"request_options"})
    BY PairsEnd
  <2>2. Len(Listed(g, ro)) \in Nat
    BY <2>1
  <2> QED
    BY <2>1, <2>2, PairsListed
<1>2. Without(Hash(tail), RO) = AsHash(g) /\ Get(Hash(tail), RO) = OptionsAtom(ro)
  BY RestIs
<1> HIDE DEF tail
<1>3. SubSeq(list, n + 1, Len(list)) = tail /\ slot = head
  BY <1>1, AfterHead
<1> HIDE DEF list, slot
<1>4. given = AsHash(g) /\ Get(rest, RO) = OptionsAtom(ro)
  BY <1>2, <1>3
<1> HIDE DEF rest, given
<1>5. \A name : value(name) = ValueOf(sub.slots, head, name)
  BY <1>3 DEF ValueOf
<1>6. FieldsOf(sub, head) = fields
  BY <1>3 DEF FieldsOf, ValueOf
<1> DEFINE path == [i \in DOMAIN sub.where.pieces |->
                      IF sub.where.pieces[i][1] = "arg" THEN value(sub.where.pieces[i][2])
                      ELSE sub.where.pieces[i]]
           single == Only(Whole, value("body"))
           set == Over(given,
                  Over([k \in {Key(fields[i][2]) : i \in DOMAIN fields} |->
                          value(fields[CHOOSE i \in DOMAIN fields : Key(fields[i][2]) = k][1])],
                       Only(Key("call_handler"), <<"val", sub.says>>)))
           command == Over(Only(Key("command"), <<"val", sub.says>>),
                      Over([k \in {Key("id") : i \in {j \in 1 .. n : slot[j] # Undef}} |-> slot[1]],
                           [k \in {Param(x[2]) : x \in DOMAIN given} |->
                              given[CHOOSE x \in DOMAIN given : Param(x[2]) = k]]))
<1>7. Perform(class, sub, list) =
        [sent |-> TRUE, verb |-> sub.verb, ro |-> Get(rest, RO),
         path |-> (IF sub.where.sibling THEN <<>> ELSE class.path) \o path,
         query |-> IF sub.form = "query" THEN given ELSE <<>>,
         body |-> CASE sub.form = "named" -> given [] sub.form = "single" -> single
                    [] sub.form = "set" -> set [] sub.form = "command" -> command
                    [] OTHER -> <<>>]
  BY Zenon DEF Perform, rest, given, slot
<1>8. path = PathOf(sub, head)
  BY <1>3 DEF PathOf, ValueOf
<1>9. single = Only(Whole, ValueOf(sub.slots, head, "body"))
  BY <1>5
<1>10. set = SetBody(sub, head, AsHash(g))
  <2> DEFINE values == [k \in {Key(fields[i][2]) : i \in DOMAIN fields} |->
                          value(fields[CHOOSE i \in DOMAIN fields : Key(fields[i][2]) = k][1])]
  <2> HIDE DEF fields
  <2>1. values = SetValues(sub.slots, head, fields)
    BY <1>3 DEF SetValues, ValueOf
  <2>2. set = Over(given, Over(values, Only(Key("call_handler"), <<"val", sub.says>>)))
    OBVIOUS
  <2> HIDE DEF values, set
  <2> QED
    BY <1>4, <1>6, <2>1, <2>2 DEF SetBody
<1>11. command = CommandBody(sub, head, AsHash(g))
  BY <1>3, <1>4 DEF CommandBody
<1> HIDE DEF path, single, set, command
<1>12. BodyOf(sub, head, AsHash(g)) =
         CASE sub.form = "named" -> given [] sub.form = "single" -> single
           [] sub.form = "set" -> set [] sub.form = "command" -> command
           [] OTHER -> <<>>
  BY <1>4, <1>9, <1>10, <1>11 DEF BodyOf
<1>13. Perform(class, sub, list) = Sends(class, sub, head, AsHash(g), ro)
  BY <1>4, <1>7, <1>8, <1>12, Zenon DEF Sends
<1> QED
  BY <1>13 DEF list, tail

-----------------------------------------------------------------------------
(* The places of ids in a path.                                            *)
LEMMA ValueIs ==
  ASSUME NEW slots, NEW n \in Nat, Len(slots) = n,
         \A i, j \in 1..n : slots[i] = slots[j] => i = j, NEW head, NEW i \in 1..n
  PROVE  ValueOf(slots, head, slots[i]) = head[i]
<1> DEFINE c == CHOOSE j \in 1..Len(slots) : slots[j] = slots[i]
<1>1. c \in 1..n /\ slots[c] = slots[i]
  OBVIOUS
<1>2. ValueOf(slots, head, slots[i]) = head[c]
  BY DEF ValueOf
<1> HIDE DEF c
<1>3. c = i
  BY <1>1
<1> QED
  BY <1>2, <1>3

Pars(segs) == {k \in DOMAIN segs : IsPar(segs[k])}

(* The parameter at a place of a path, counted from the left.              *)
LEMMA NthIs ==
  ASSUME NEW segs \in Seq(Segments)
  PROVE  /\ Len(Params(segs)) \in Nat /\ Nth(segs, Len(segs)) = Len(Params(segs))
         /\ \A k \in Pars(segs) : /\ Nth(segs, k) \in 1..Len(Params(segs))
                                  /\ Params(segs)[Nth(segs, k)] = segs[k]
         /\ \A i \in 1..Len(Params(segs)) : \E k \in Pars(segs) : Params(segs)[i] = segs[k]
<1> DEFINE I == Pars(segs)
           p == Params(segs)
<1>1. p = Picked(segs, I) /\ I \in SUBSET DOMAIN segs
  BY DEF Params, Pars
<1>2. DOMAIN segs = 1..Len(segs) /\ Len(segs) \in Nat
  OBVIOUS
<1>3. \A k \in I : {j \in 1..k : IsPar(segs[j])} = {j \in I : j <= k}
  BY <1>2 DEF Pars
<1>4. {j \in 1..Len(segs) : IsPar(segs[j])} = I
  BY <1>2 DEF Pars
<1> HIDE DEF I, p
<1>5. /\ Cardinality(I) \in Nat /\ Len(p) = Cardinality(I)
      /\ \A k \in 1..Cardinality(I) : Place(I, k) \in I /\ p[k] = segs[Place(I, k)]
      /\ \A i \in I : Rank(I, i) \in 1..Cardinality(I) /\ p[Rank(I, i)] = segs[i]
  BY <1>1, PickedEntries
<1>6. \A k \in I : Nth(segs, k) = Rank(I, k)
  BY <1>3 DEF Nth, Rank
<1>7. Nth(segs, Len(segs)) = Cardinality(I)
  BY <1>4 DEF Nth
<1> QED
  BY <1>5, <1>6, <1>7 DEF I, p

\* A path without parameters in front of another one.
Fixed(segs) == \A i \in DOMAIN segs : ~IsPar(segs[i])

(* A path behind a prefix without parameters.                              *)
LEMMA BehindFixed ==
  ASSUME NEW a \in Seq(Segments), Fixed(a), NEW b \in Seq(Segments)
  PROVE  /\ a \o b \in Seq(Segments) /\ Len(a \o b) = Len(a) + Len(b)
         /\ DOMAIN (a \o b) = 1..(Len(a) + Len(b))
         /\ Len(a) \in Nat /\ Len(b) \in Nat /\ DOMAIN a = 1..Len(a) /\ DOMAIN b = 1..Len(b)
         /\ \A i \in 1..Len(a) : (a \o b)[i] = a[i] /\ ~IsPar((a \o b)[i])
         /\ \A i \in 1..Len(b) : (a \o b)[Len(a) + i] = b[i]
BY DEF Fixed

(* A prefix without parameters leaves the number of each parameter.        *)
LEMMA NthBehind ==
  ASSUME NEW a \in Seq(Segments), Fixed(a), NEW b \in Seq(Segments), NEW k \in 0..Len(b)
  PROVE  Nth(a \o b, Len(a) + k) = Nth(b, k)
<1> DEFINE whole == a \o b
           n == Len(a)
           X == {j \in 1..k : IsPar(b[j])}
           Y == {j \in 1..(n + k) : IsPar(whole[j])}
           f == [x \in X |-> n + x]
<1>1. /\ n \in Nat /\ Len(b) \in Nat /\ k \in Nat
      /\ \A i \in 1..n : ~IsPar(whole[i])
      /\ \A i \in 1..Len(b) : whole[n + i] = b[i]
  BY BehindFixed
<1> HIDE DEF whole, n
<1>2. \A x \in X : x \in 1..Len(b) /\ x \in Int /\ n + x \in 1..(n + k)
  BY <1>1
<1>3. \A x \in X : n + x \in Y
  BY <1>1, <1>2
<1>4. \A y \in Y : y - n \in X /\ n + (y - n) = y
  <2> SUFFICES ASSUME NEW y \in Y PROVE y - n \in X /\ n + (y - n) = y
    OBVIOUS
  <2>1. y \in 1..(n + k) /\ IsPar(whole[y])
    OBVIOUS
  <2>2. y \notin 1..n
    BY <1>1, <2>1
  <2>3. y - n \in 1..k /\ y - n \in 1..Len(b) /\ n + (y - n) = y
    BY <1>1, <2>1, <2>2
  <2>4. IsPar(b[y - n])
    BY <1>1, <2>1, <2>3
  <2> QED
    BY <2>3, <2>4
<1>5. \A x, y \in X : n + x = n + y => x = y
  BY <1>1, <1>2
<1> HIDE DEF X, Y
<1>6. f \in [X -> Y] /\ IsInjective(f)
  BY <1>3, <1>5 DEF IsInjective
<1>7. \A y \in Y : \E x \in X : f[x] = y
  BY <1>4
<1>8. f \in Bijection(X, Y)
  BY <1>6, <1>7 DEF Bijection, Injection, Surjection
<1>9. ExistsBijection(X, Y)
  BY <1>8 DEF ExistsBijection
<1>10. IsFiniteSet(X)
  <2>1. X \in SUBSET (1..k) /\ IsFiniteSet(1..k)
    BY <1>1, FS_Interval DEF X
  <2> QED
    BY <2>1, FS_Subset
<1>11. Cardinality(Y) = Cardinality(X)
  BY <1>9, <1>10, FS_Bijection
<1> QED
  BY <1>11 DEF Nth, X, Y, whole, n

(* A prefix without parameters stays when ids are filled in.               *)
LEMMA FilledBehind ==
  ASSUME NEW a \in Seq(Segments), Fixed(a), NEW b \in Seq(Segments)
  PROVE  Filled(a \o b) = a \o Filled(b)
<1> DEFINE whole == a \o b
           fb == Filled(b)
           right == a \o fb
           left == Filled(whole)
           n == Len(a)
<1>1. /\ whole \in Seq(Segments) /\ DOMAIN whole = 1..(n + Len(b))
      /\ n \in Nat /\ Len(b) \in Nat /\ DOMAIN b = 1..Len(b)
      /\ \A i \in 1..n : whole[i] = a[i] /\ ~IsPar(whole[i])
      /\ \A i \in 1..Len(b) : whole[n + i] = b[i]
  BY BehindFixed
<1>2. \A k \in 1..Len(b) : Nth(whole, n + k) = Nth(b, k)
  <2>1. \A k \in 1..Len(b) : k \in 0..Len(b)
    BY <1>1
  <2> QED
    BY <2>1, NthBehind
<1>3. /\ fb = [i \in 1..Len(b) |-> fb[i]]
      /\ \A i \in 1..Len(b) : fb[i] = IF IsPar(b[i]) THEN <<"id", Nth(b, i)>> ELSE b[i]
  BY <1>1 DEF Filled
<1>4. /\ left = [i \in 1..(n + Len(b)) |-> left[i]]
      /\ \A i \in 1..(n + Len(b)) :
           left[i] = IF IsPar(whole[i]) THEN <<"id", Nth(whole, i)>> ELSE whole[i]
  BY <1>1 DEF Filled
<1> HIDE DEF whole, fb
<1>5. IsList(fb) /\ Len(fb) = Len(b)
  BY <1>1, <1>3, IsListOf
<1>6. IsList(a)
  BY <1>1, IsListOf
<1>7. /\ IsList(right) /\ Len(right) = Len(a) + Len(fb)
      /\ \A i \in 1..Len(a) : right[i] = a[i]
      /\ \A i \in 1..Len(fb) : right[Len(a) + i] = fb[i]
  <2>1. IsList(fb)
    BY <1>5
  <2> QED
    BY ONLY <1>6, <2>1, ConcatLists
<1> HIDE DEF right
<1>8. right = [i \in 1..Len(right) |-> right[i]]
  BY <1>7, ListRange
<1> HIDE DEF left, n
<1>9. Len(right) = n + Len(b) /\ (\A i \in 1..n : right[i] = a[i])
      /\ \A i \in 1..Len(b) : right[n + i] = fb[i]
  BY <1>5, <1>7 DEF n
<1>10. ASSUME NEW i \in 1..(n + Len(b)) PROVE left[i] = right[i]
  <2>1. CASE i \in 1..n
    BY <1>1, <1>4, <1>9, <2>1
  <2>2. CASE i \notin 1..n
    <3> DEFINE j == i - n
    <3>1. j \in 1..Len(b) /\ n + j = i
      BY <1>1, <2>2
    <3> HIDE DEF j
    <3>2. whole[i] = b[j] /\ Nth(whole, i) = Nth(b, j) /\ right[i] = fb[j]
      BY <1>1, <1>2, <1>9, <3>1
    <3>3. left[i] = IF IsPar(b[j]) THEN <<"id", Nth(b, j)>> ELSE b[j]
      BY <1>4, <3>2
    <3> QED
      BY <1>3, <3>1, <3>2, <3>3
  <2> QED
    BY <2>1, <2>2
<1>11. left = right
  BY <1>4, <1>8, <1>9, <1>10
<1> QED
  BY <1>11 DEF left, right, whole, fb

-----------------------------------------------------------------------------
(* The names of the arguments of a method are apart.                       *)
LEMMA UnusedFree ==
  ASSUME NEW name, NEW suffix, NEW used, IsFiniteSet(used),
         \A a, b \in 0..Cardinality(used) :
           Suffixed(name, suffix, a) = Suffixed(name, suffix, b) => a = b
  PROVE  /\ Unused(name, suffix, used) \notin used
         /\ \E k \in 0..Cardinality(used) : Unused(name, suffix, used) = Suffixed(name, suffix, k)
<1> DEFINE c == Cardinality(used)
           free == {n \in 0..c : Suffixed(name, suffix, n) \notin used}
           f == [n \in 0..c |-> Suffixed(name, suffix, n)]
<1>1. c \in Nat
  BY FS_CardinalityType
<1>2. free # {}
  <2> SUFFICES ASSUME free = {} PROVE FALSE
    OBVIOUS
  <2>1. f \in [0..c -> used]
    OBVIOUS
  <2>2. IsFiniteSet(0..c) /\ Cardinality(0..c) = c + 1
    BY <1>1, FS_Interval
  <2>3. c < Cardinality(0..c)
    BY <1>1, <2>2
  <2> HIDE DEF f
  <2>4. \E x, y \in 0..c : x # y /\ f[x] = f[y]
    <3> DEFINE S == 0..c
    <3>1. IsFiniteSet(S)
      BY <2>2
    <3>2. Cardinality(used) < Cardinality(S)
      BY <2>3
    <3>3. f \in [S -> used]
      BY <2>1
    <3> HIDE DEF S, c
    <3>4. \E x, y \in S : x # y /\ f[x] = f[y]
      BY ONLY IsFiniteSet(used), <3>1, <3>2, <3>3, FS_PigeonHole
    <3> QED
      BY <3>4 DEF S
  <2>5. PICK x \in 0..c, y \in 0..c : x # y /\ f[x] = f[y]
    BY <2>4
  <2>6. Suffixed(name, suffix, x) = Suffixed(name, suffix, y)
    BY <2>5 DEF f
  <2> QED
    BY <2>5, <2>6
<1>3. free \in SUBSET Nat
  BY <1>1
<1> HIDE DEF free
<1>4. Min(free) \in free
  BY <1>2, <1>3, LeastExists
<1>5. Suffixed(name, suffix, Min(free)) \notin used
  BY <1>4 DEF free
<1>6. Min(free) \in 0..c
  BY <1>4 DEF free
<1>7. Unused(name, suffix, used) = Suffixed(name, suffix, Min(free))
  BY DEF Unused, free, c
<1> QED
  BY <1>5, <1>6, <1>7

(* There are no more parameters than segments.                             *)
LEMMA ParamsFewer ==
  ASSUME NEW segs \in Seq(Segments)
  PROVE  Len(Params(segs)) \in Nat /\ Len(Params(segs)) <= Len(segs) /\ Len(segs) \in Nat
<1> DEFINE I == {k \in DOMAIN segs : IsPar(segs[k])}
<1>1. Len(segs) \in Nat /\ DOMAIN segs = 1..Len(segs)
  OBVIOUS
<1>2. Len(Params(segs)) = Cardinality(I) /\ Len(Params(segs)) \in Nat
  BY ParamsTyped
<1>3. I \in SUBSET (1..Len(segs))
  BY <1>1
<1> HIDE DEF I
<1>4. IsFiniteSet(1..Len(segs)) /\ Cardinality(1..Len(segs)) = Len(segs)
  <2>1. ASSUME NEW n \in Nat PROVE IsFiniteSet(1..n) /\ Cardinality(1..n) = n
    BY FS_Interval
  <2> QED
    BY <1>1, <2>1
<1>5. Cardinality(I) <= Cardinality(1..Len(segs))
  BY <1>3, <1>4, FS_Subset
<1> QED
  BY <1>1, <1>2, <1>4, <1>5

SuffixesApart(names, suffix, n, m) == \A i \in 1..n : \A a, b \in 0..m :
  Suffixed(names[i], suffix, a) = Suffixed(names[i], suffix, b) => a = b

GivenApart(f, names, suffix, n, m) ==
  /\ \A i, j \in 1..n : f[i] = f[j] => i = j
  /\ \A i \in 1..n : \E k \in 0..m : f[i] = Suffixed(names[i], suffix, k)

(* No two names given in turn are the same: each name gets the suffix as   *)
(* often as it takes, and one of as many candidates as there are names     *)
(* before it, and one more, is free.                                       *)
LEMMA InTurnApart ==
  ASSUME NEW n \in Nat, NEW names, DOMAIN names = 1..n, NEW suffix, NEW m \in Nat, n <= m,
         SuffixesApart(names, suffix, n, m)
  PROVE  GivenApart(InTurn(names, suffix), names, suffix, n, m)
<1> DEFINE arg == InTurn(names, suffix)
<1>1. FreeInTurn(arg, names, suffix, n)
  BY InTurnIs
<1> HIDE DEF arg
<1>2. \A i \in 1..n : arg[i] = Unused(names[i], suffix, {arg[j] : j \in 1..(i - 1)})
  BY <1>1 DEF FreeInTurn
<1>3. ASSUME NEW i \in 1..n, NEW j \in 1..(i - 1) PROVE arg[i] # arg[j]
  <2> DEFINE used == {arg[x] : x \in 1..(i - 1)}
  <2>1. i - 1 \in Nat
    OBVIOUS
  <2>2. IsFiniteSet(used) /\ Cardinality(used) \in Nat /\ Cardinality(used) <= i - 1
    BY <2>1, ImageFinite
  <2>3. arg[j] \in used
    OBVIOUS
  <2> HIDE DEF used
  <2>4. \A a \in 0..Cardinality(used) : a \in 0..m
    BY <2>2
  <2>5. \A a, b \in 0..Cardinality(used) :
          Suffixed(names[i], suffix, a) = Suffixed(names[i], suffix, b) => a = b
    BY <2>4 DEF SuffixesApart
  <2>6. Unused(names[i], suffix, used) \notin used
    BY <2>2, <2>5, UnusedFree
  <2>7. arg[i] = Unused(names[i], suffix, used)
    BY <1>2 DEF used
  <2> QED
    BY <2>3, <2>6, <2>7
<1>4. \A i, j \in 1..n : i = j \/ j \in 1..(i - 1) \/ i \in 1..(j - 1)
  OBVIOUS
<1>5. \A i, j \in 1..n : arg[i] = arg[j] => i = j
  BY <1>3, <1>4
<1>6. ASSUME NEW i \in 1..n PROVE \E k \in 0..m : arg[i] = Suffixed(names[i], suffix, k)
  <2> DEFINE used == {arg[x] : x \in 1..(i - 1)}
  <2>1. i - 1 \in Nat
    OBVIOUS
  <2>2. IsFiniteSet(used) /\ Cardinality(used) \in Nat /\ Cardinality(used) <= i - 1
    BY <2>1, ImageFinite
  <2>3. arg[i] = Unused(names[i], suffix, used)
    BY <1>2
  <2> HIDE DEF used
  <2>4. \A a \in 0..Cardinality(used) : a \in 0..m
    BY <2>2
  <2>5. \A a, b \in 0..Cardinality(used) :
          Suffixed(names[i], suffix, a) = Suffixed(names[i], suffix, b) => a = b
    BY <2>4 DEF SuffixesApart
  <2>6. \E k \in 0..Cardinality(used) : Unused(names[i], suffix, used) = Suffixed(names[i], suffix, k)
    BY <2>2, <2>5, UnusedFree
  <2> QED
    BY <2>3, <2>4, <2>6
<1> QED
  BY <1>5, <1>6 DEF arg, GivenApart

(* No two parameters of a path share an argument.                          *)
LEMMA ArgsApart ==
  ASSUME NEW segs \in Seq(Segments),
         \A i \in 1..Len(Params(segs)) : \A a, b \in 0..Len(segs) :
           Suffixed(ArgFor(Params(segs)[i]), "2", a) = Suffixed(ArgFor(Params(segs)[i]), "2", b)
             => a = b
  PROVE  \A i, j \in 1..Len(Params(segs)) : ArgNames(segs)[i] = ArgNames(segs)[j] => i = j
<1> DEFINE n == Len(Params(segs))
           names == [i \in 1..n |-> ArgFor(Params(segs)[i])]
<1>1. n \in Nat /\ n <= Len(segs) /\ Len(segs) \in Nat
  BY ParamsFewer
<1>2. DOMAIN names = 1..n /\ \A i \in 1..n : names[i] = ArgFor(Params(segs)[i])
  OBVIOUS
<1>3. ArgNames(segs) = InTurn(names, "2")
  BY ArgNamesIs
<1>4. \A i \in 1..n : \A a, b \in 0..Len(segs) :
        Suffixed(names[i], "2", a) = Suffixed(names[i], "2", b) => a = b
  BY <1>2
<1> HIDE DEF names, n
<1>5. \A i, j \in 1..n : InTurn(names, "2")[i] = InTurn(names, "2")[j] => i = j
  <2>1. SuffixesApart(names, "2", n, Len(segs))
    BY <1>4 DEF SuffixesApart
  <2>2. GivenApart(InTurn(names, "2"), names, "2", n, Len(segs))
    BY <1>1, <1>2, <2>1, InTurnApart
  <2> QED
    BY <2>2 DEF GivenApart
<1> QED
  BY <1>3, <1>5 DEF n

-----------------------------------------------------------------------------
(* The path of an operation, from the base path or on its own.             *)
LEMMA PrefixSplits ==
  ASSUME NEW a \in Seq(Segments), NEW b \in Seq(Segments), IsPrefix(a, b)
  PROVE  b = a \o SubSeq(b, Len(a) + 1, Len(b))
<1> DEFINE rest == SubSeq(b, Len(a) + 1, Len(b))
           whole == a \o rest
<1>1. Len(a) \in Nat /\ Len(b) \in Nat /\ Len(a) <= Len(b) /\ b = [i \in 1..Len(b) |-> b[i]]
  BY DEF IsPrefix
<1>2. Len(a) + 1 \in 1..(Len(b) + 1) /\ Len(b) \in 0..Len(b)
  BY <1>1
<1>3. /\ rest \in Seq(Segments)
      /\ Len(rest) = (IF Len(a) + 1 <= Len(b) THEN Len(b) - (Len(a) + 1) + 1 ELSE 0)
      /\ \A i \in 1..(Len(b) - (Len(a) + 1) + 1) : rest[i] = b[(Len(a) + 1) + i - 1]
  BY <1>2, SegmentsPart
<1>4. Len(a) \in 0..Len(b) /\ 1 \in 1..(Len(b) + 1) /\ 1 \in 1..(Len(a) + 1) /\ Len(a) \in 0..Len(a)
  BY <1>1
<1>5. \A i \in 1..(Len(a) - 1 + 1) : SubSeq(b, 1, Len(a))[i] = b[1 + i - 1]
  BY <1>4, SegmentsPart
<1>6. \A i \in 1..(Len(a) - 1 + 1) : SubSeq(a, 1, Len(a))[i] = a[1 + i - 1]
  BY <1>4, SegmentsPart
<1>7. \A i \in 1..Len(a) : i \in 1..(Len(a) - 1 + 1) /\ 1 + i - 1 = i
  BY <1>1
<1>8. SubSeq(a, 1, Len(a)) = SubSeq(b, 1, Len(a))
  BY DEF IsPrefix
<1>9. \A i \in 1..Len(a) : a[i] = b[i]
  BY <1>5, <1>6, <1>7, <1>8
<1> HIDE DEF rest
<1>10. Len(rest) = Len(b) - Len(a)
  <2> DEFINE x == Len(a)
             y == Len(b)
  <2>1. /\ x \in Nat /\ y \in Nat /\ x <= y
        /\ Len(rest) = IF x + 1 <= y THEN y - (x + 1) + 1 ELSE 0
    <3>1. Len(rest) = IF x + 1 <= y THEN y - (x + 1) + 1 ELSE 0
      BY ONLY <1>3
    <3> QED
      BY <1>1, <3>1, Zenon
  <2> HIDE DEF x, y
  <2>2. Len(rest) = y - x
    BY ONLY <2>1
  <2> QED
    BY <2>2 DEF x, y
<1>11. /\ Len(whole) = Len(a) + Len(rest) /\ whole = [i \in 1..Len(whole) |-> whole[i]]
       /\ \A i \in 1..Len(a) : whole[i] = a[i]
       /\ \A i \in 1..Len(rest) : whole[Len(a) + i] = rest[i]
  <2>1. rest \in Seq(Segments)
    BY <1>3
  <2> HIDE DEF whole
  <2>2. ASSUME NEW S, NEW x \in Seq(S), NEW y \in Seq(S)
        PROVE  /\ x \o y \in Seq(S) /\ Len(x \o y) = Len(x) + Len(y)
               /\ \A i \in 1..Len(x) : (x \o y)[i] = x[i]
               /\ \A i \in 1..Len(y) : (x \o y)[Len(x) + i] = y[i]
    OBVIOUS
  <2>3. /\ a \o rest \in Seq(Segments) /\ Len(a \o rest) = Len(a) + Len(rest)
        /\ \A i \in 1..Len(a) : (a \o rest)[i] = a[i]
        /\ \A i \in 1..Len(rest) : (a \o rest)[Len(a) + i] = rest[i]
    BY <2>1, <2>2
  <2>4. whole = a \o rest
    BY DEF whole
  <2>5. whole \in Seq(Segments)
    BY <2>3, <2>4
  <2>6. whole = [i \in 1..Len(whole) |-> whole[i]]
    BY <2>5
  <2> QED
    BY <2>3, <2>4, <2>6
<1> HIDE DEF whole
<1>12. Len(whole) = Len(b)
  BY <1>1, <1>10, <1>11
<1>13. ASSUME NEW i \in 1..Len(b) PROVE whole[i] = b[i]
  <2>1. CASE i \in 1..Len(a)
    BY <1>9, <1>11, <2>1
  <2>2. CASE i \notin 1..Len(a)
    <3> DEFINE j == i - Len(a)
    <3>1. /\ j \in 1..Len(rest) /\ Len(a) + j = i
          /\ j \in 1..(Len(b) - (Len(a) + 1) + 1) /\ (Len(a) + 1) + j - 1 = i
      BY <1>1, <1>10, <2>2
    <3> HIDE DEF j
    <3> QED
      BY <1>3, <1>11, <3>1
  <2> QED
    BY <2>1, <2>2
<1> QED
  BY <1>1, <1>11, <1>12, <1>13 DEF whole, rest

\* The tail of a path: what is in front of it, and its parameters.
Lead(spec, r, p) == IF RelativeTail(spec, r, p).sibling THEN <<>> ELSE BasePath(spec, r)
TailOf(spec, r, p) == RelativeTail(spec, r, p).segs

(* The path of an operation is what the method leads with and the tail it  *)
(* fills in.                                                               *)
LEMMA AbsoluteIs ==
  ASSUME NEW spec, NEW r, Input(spec, r), NEW p \in Seq(Segments)
  PROVE  /\ TailOf(spec, r, p) \in Seq(Segments) /\ Lead(spec, r, p) \in Seq(Segments)
         /\ Fixed(Lead(spec, r, p))
         /\ ServerPath(spec) \o p = Lead(spec, r, p) \o TailOf(spec, r, p)
         /\ Fixed(ServerPath(spec)) /\ ServerPath(spec) \in Seq(Segments)
<1> DEFINE full == BasePath(spec, r)
           absp == ServerPath(spec) \o p
           coll == CollectionSegment(r.path, r.markup)
<1>1. full \in Seq(Segments) /\ Fixed(full)
  BY BaseTyped DEF Fixed
<1>2. ServerPath(spec) \in Seq(Segments) /\ Fixed(ServerPath(spec))
  BY DEF Input, ResourceFits, Fixed
<1>3. absp \in Seq(Segments)
  BY <1>2
<1>4. RelativeTail(spec, r, p) =
        IF coll # <<>> /\ IsPrefix(full, absp)
        THEN [sibling |-> FALSE, segs |-> SubSeq(absp, Len(full) + 1, Len(absp))]
        ELSE [sibling |-> TRUE, segs |-> absp]
  BY DEF RelativeTail
<1> HIDE DEF full, absp, coll
<1>5. CASE coll # <<>> /\ IsPrefix(full, absp)
  <2>1. /\ TailOf(spec, r, p) = SubSeq(absp, Len(full) + 1, Len(absp))
        /\ Lead(spec, r, p) = full
    BY <1>4, <1>5 DEF TailOf, Lead, full
  <2>2. absp = full \o SubSeq(absp, Len(full) + 1, Len(absp))
    BY <1>1, <1>3, <1>5, PrefixSplits
  <2>3. TailOf(spec, r, p) \in Seq(Segments)
    BY TailTyped DEF TailOf
  <2> QED
    BY <1>1, <1>2, <2>1, <2>2, <2>3 DEF absp
<1>6. CASE ~(coll # <<>> /\ IsPrefix(full, absp))
  <2>1. TailOf(spec, r, p) = absp /\ Lead(spec, r, p) = <<>>
    BY <1>4, <1>6 DEF TailOf, Lead
  <2>2. <<>> \o absp = absp /\ Fixed(<<>>) /\ <<>> \in Seq(Segments)
    BY <1>3 DEF Fixed
  <2> QED
    BY <1>2, <1>3, <2>1, <2>2 DEF absp
<1> QED
  BY <1>5, <1>6

(* The tail has all parameters of the operation's path, in their order.    *)
LEMMA TailIs ==
  ASSUME NEW spec, NEW r, Input(spec, r), NEW p \in Seq(Segments)
  PROVE  LET t == TailOf(spec, r, p)
         IN  /\ t \in Seq(Segments) /\ Len(t) <= Len(ServerPath(spec)) + Len(p)
             /\ Nth(p, Len(p)) = Len(Params(t))
             /\ ServerPath(spec) \o Filled(p) = Lead(spec, r, p) \o Filled(t)
             /\ \A i \in 1..Len(Params(t)) : \E k \in DOMAIN p : Params(t)[i] = p[k]
<1> DEFINE t == TailOf(spec, r, p)
           f == Lead(spec, r, p)
           s == ServerPath(spec)
           absp == s \o p
<1>1. /\ t \in Seq(Segments) /\ f \in Seq(Segments) /\ Fixed(f) /\ absp = f \o t
      /\ Fixed(s) /\ s \in Seq(Segments)
  BY AbsoluteIs
<1> HIDE DEF t, f, s
<1>2. /\ Len(absp) = Len(s) + Len(p) /\ DOMAIN absp = 1..(Len(s) + Len(p))
      /\ Len(s) \in Nat /\ Len(p) \in Nat /\ DOMAIN p = 1..Len(p)
      /\ \A i \in 1..Len(s) : ~IsPar(absp[i])
      /\ \A i \in 1..Len(p) : absp[Len(s) + i] = p[i]
  BY <1>1, BehindFixed
<1>3. Filled(absp) = s \o Filled(p) /\ Nth(absp, Len(s) + Len(p)) = Nth(p, Len(p))
  <2>1. Len(p) \in 0..Len(p)
    BY <1>2
  <2> QED
    BY <1>1, <2>1, FilledBehind, NthBehind
<1> HIDE DEF absp
<1>4. /\ Len(absp) = Len(f) + Len(t) /\ DOMAIN absp = 1..(Len(f) + Len(t))
      /\ Len(f) \in Nat /\ Len(t) \in Nat /\ DOMAIN t = 1..Len(t)
      /\ \A i \in 1..Len(t) : absp[Len(f) + i] = t[i]
  BY <1>1, BehindFixed
<1>5. Filled(absp) = f \o Filled(t) /\ Nth(absp, Len(f) + Len(t)) = Nth(t, Len(t))
  <2>1. Len(t) \in 0..Len(t)
    BY <1>4
  <2> QED
    BY <1>1, <2>1, FilledBehind, NthBehind
<1>6. Nth(p, Len(p)) = Len(Params(t))
  <2>1. Nth(t, Len(t)) = Len(Params(t))
    BY <1>1, NthIs
  <2>2. Len(s) + Len(p) = Len(f) + Len(t)
    BY <1>2, <1>4
  <2> QED
    BY <1>3, <1>5, <2>1, <2>2
<1>7. Len(t) <= Len(s) + Len(p)
  BY <1>2, <1>4
<1>8. ASSUME NEW i \in 1..Len(Params(t)) PROVE \E k \in DOMAIN p : Params(t)[i] = p[k]
  <2>1. PICK k \in Pars(t) : Params(t)[i] = t[k]
    BY <1>1, NthIs
  <2>2. k \in 1..Len(t) /\ IsPar(t[k])
    BY <1>4, <2>1 DEF Pars
  <2> DEFINE x == Len(f) + k
  <2>3. x \in 1..(Len(s) + Len(p)) /\ absp[x] = t[k]
    BY <1>2, <1>4, <2>2
  <2> HIDE DEF x
  <2>4. x \notin 1..Len(s)
    BY <1>2, <2>2, <2>3
  <2>5. x - Len(s) \in 1..Len(p) /\ Len(s) + (x - Len(s)) = x
    BY <1>2, <2>3, <2>4
  <2>6. p[x - Len(s)] = t[k]
    BY <1>2, <2>3, <2>5
  <2> QED
    BY <1>2, <2>1, <2>5, <2>6
<1> QED
  BY <1>1, <1>3, <1>5, <1>6, <1>7, <1>8 DEF t, f, s

\* The arguments of a method have names of their own, none of them "body",
\* and with an id for each the path of the method is the one of the operation.
ArgsGood(spec, r, o) ==
  LET where == MethodCallPath(spec, r, o.path)
      n == Nth(o.path, Len(o.path))
  IN  /\ n \in Nat /\ where.ids = [i \in 1..n |-> where.ids[i]]
      /\ \A i, j \in 1..n : where.ids[i] = where.ids[j] => i = j
      /\ \A i \in 1..n : where.ids[i] \notin {"body", "request_options"}
      /\ where.sibling = RelativeTail(spec, r, o.path).sibling
      /\ DOMAIN where.pieces = DOMAIN TailOf(spec, r, o.path)
      /\ \A k \in DOMAIN where.pieces :
           IF IsPar(TailOf(spec, r, o.path)[k])
           THEN \E i \in 1..n : /\ where.pieces[k] = <<"arg", where.ids[i]>>
                                /\ Filled(TailOf(spec, r, o.path))[k] = <<"id", i>>
           ELSE where.pieces[k] = Filled(TailOf(spec, r, o.path))[k] /\ where.pieces[k][1] # "arg"

(* The arguments of a method are the parameters of its operation's path,   *)
(* each its own.                                                           *)
LEMMA ArgsFitPath ==
  ASSUME NEW spec, NEW r, Input(spec, r), NEW o, o.path \in Seq(Segments), OperationFits(spec, r, o)
  PROVE  ArgsGood(spec, r, o)
<1> DEFINE p == o.path
           t == TailOf(spec, r, p)
           ids == ArgNames(t)
           where == MethodCallPath(spec, r, p)
           n == Nth(p, Len(p))
<1>1. /\ t \in Seq(Segments) /\ Len(t) <= Len(ServerPath(spec)) + Len(p) /\ n = Len(Params(t))
      /\ \A i \in 1..Len(Params(t)) : \E k \in DOMAIN p : Params(t)[i] = p[k]
  BY TailIs
<1>2. /\ where.ids = ids /\ where.sibling = RelativeTail(spec, r, p).sibling
      /\ DOMAIN where.pieces = DOMAIN t
      /\ \A k \in DOMAIN t :
           where.pieces[k] = IF IsPar(t[k]) THEN <<"arg", ids[Nth(t, k)]>> ELSE t[k]
  BY DEF MethodCallPath, TailOf
<1>3. /\ DOMAIN Filled(t) = DOMAIN t
      /\ \A k \in DOMAIN t : Filled(t)[k] = IF IsPar(t[k]) THEN <<"id", Nth(t, k)>> ELSE t[k]
  BY DEF Filled
<1>4. /\ \A i \in DOMAIN where.ids : where.ids[i] \notin {"body", "request_options"}
      /\ \A i \in DOMAIN p : \A a, b \in 0 .. Len(ServerPath(spec)) + Len(p) :
           Suffixed(ArgFor(p[i]), "2", a) = Suffixed(ArgFor(p[i]), "2", b) => a = b
  BY DEF OperationFits
<1>5. Len(ServerPath(spec)) \in Nat /\ Len(p) \in Nat
  BY AbsoluteIs
<1> HIDE DEF t, where, n, ids, p
<1>6. n \in Nat /\ Len(t) \in Nat
  BY <1>1, ParamsFewer
<1>7. ids = [i \in 1..n |-> ids[i]]
  BY <1>1, ArgNamesIs DEF ids
<1>8. \A a \in 0..Len(t) : a \in 0 .. Len(ServerPath(spec)) + Len(p)
  BY <1>1, <1>5, <1>6
<1>9. \A i \in 1..Len(Params(t)) : \A a, b \in 0..Len(t) :
        Suffixed(ArgFor(Params(t)[i]), "2", a) = Suffixed(ArgFor(Params(t)[i]), "2", b) => a = b
  BY <1>1, <1>4, <1>8
<1>10. \A i, j \in 1..n : ids[i] = ids[j] => i = j
  BY <1>1, <1>9, ArgsApart DEF ids
<1>11. ASSUME NEW k \in DOMAIN t
       PROVE  IF IsPar(t[k])
              THEN \E i \in 1..n : where.pieces[k] = <<"arg", ids[i]>> /\ Filled(t)[k] = <<"id", i>>
              ELSE where.pieces[k] = Filled(t)[k] /\ where.pieces[k][1] # "arg"
  <2>1. CASE IsPar(t[k])
    <3>1. Nth(t, k) \in 1..n
      BY <1>1, <2>1, NthIs DEF Pars
    <3> QED
      BY <1>2, <1>3, <2>1, <3>1
  <2>2. CASE ~IsPar(t[k])
    <3>1. t[k] \in Segments
      BY <1>1
    <3>2. t[k][1] # "arg"
      BY <3>1 DEF Segments
    <3> QED
      BY <1>2, <1>3, <2>2, <3>2
  <2> QED
    BY <2>1, <2>2
<1>12. DOMAIN where.ids = 1..n
  BY <1>2, <1>7
<1>13. /\ where.ids = [i \in 1..n |-> where.ids[i]]
       /\ \A i, j \in 1..n : where.ids[i] = where.ids[j] => i = j
       /\ \A i \in 1..n : where.ids[i] \notin {"body", "request_options"}
  BY <1>2, <1>4, <1>7, <1>10, <1>12
<1>14. \A k \in DOMAIN where.pieces :
         IF IsPar(t[k])
         THEN \E i \in 1..n : where.pieces[k] = <<"arg", where.ids[i]>> /\ Filled(t)[k] = <<"id", i>>
         ELSE where.pieces[k] = Filled(t)[k] /\ where.pieces[k][1] # "arg"
  BY <1>2, <1>11
<1> QED
  BY <1>2, <1>6, <1>13, <1>14 DEF ArgsGood, where, n, t, p

-----------------------------------------------------------------------------
(* The call of a generated method.                                         *)
LEMMA ListsJoin ==
  ASSUME NEW a, IsList(a), NEW b, IsList(b), NEW c, IsList(c)
  PROVE  (a \o b) \o c = a \o (b \o c)
<1> DEFINE S == Range(a) \cup Range(b) \cup Range(c)
<1>1. Range(a) \subseteq S /\ Range(b) \subseteq S /\ Range(c) \subseteq S
  OBVIOUS
<1> HIDE DEF S
<1>2. a \in Seq(S) /\ b \in Seq(S) /\ c \in Seq(S)
  BY <1>1, WiderList
<1> QED
  BY <1>2, ConcatAssociative

(* Nothing, before or behind a list.                                       *)
LEMMA ListAlone ==
  ASSUME NEW a, IsList(a)
  PROVE  a \o None = a /\ None \o a = a
BY ConcatEmptySeq DEF IsList, None

(* What a caller passes are lists.                                         *)
LEMMA ArgumentLists ==
  /\ \A n \in Nat : IsList(IdAtoms(n)) /\ Len(IdAtoms(n)) = n /\ \A i \in 1..n : IdAtoms(n)[i] = <<"id", i>>
  /\ \A ro \in BOOLEAN : IsList(WithOptions(ro))
  /\ Pairs(None) = None
<1>1. ASSUME NEW n \in Nat
      PROVE  IsList(IdAtoms(n)) /\ Len(IdAtoms(n)) = n /\ \A i \in 1..n : IdAtoms(n)[i] = <<"id", i>>
  <2>1. IdAtoms(n) = [i \in 1..n |-> IdAtoms(n)[i]] /\ \A i \in 1..n : IdAtoms(n)[i] = <<"id", i>>
    BY DEF IdAtoms
  <2> QED
    BY <2>1, IsListOf
<1>2. ASSUME NEW ro \in BOOLEAN PROVE IsList(WithOptions(ro))
  <2>1. CASE ro
    <3>1. WithOptions(ro) = [i \in 1..2 |-> WithOptions(ro)[i]]
      BY <2>1 DEF WithOptions
    <3> QED
      BY <3>1, IsListOf
  <2>2. CASE ~ro
    BY <2>2, EmptyList DEF WithOptions, None
  <2> QED
    BY <2>1, <2>2
<1>3. Pairs(None) = None
  <2>1. Len(<<>>) = 0 /\ 1..(2 * 0) = {}
    OBVIOUS
  <2> QED
    BY <2>1 DEF Pairs, None
<1> QED
  BY <1>1, <1>2, <1>3

\* What the caller passes for a declared method, and what it should send.
IsWhole(spec, o) == o.op.hasBody /\ ~IsObjectBody(spec.schemas, o.op.body)
IsNamed(spec, sub, o) == (o.op.hasBody /\ ~IsWhole(spec, o)) \/ sub.form = "query"
Passed(spec, sub, o, g, ro) ==
  IdAtoms(Nth(o.path, Len(o.path)))
    \o (IF IsWhole(spec, o) THEN <<<<"val", "body">>>> ELSE <<>>)
    \o (IF IsNamed(spec, sub, o) THEN Pairs(g) ELSE <<>>) \o WithOptions(ro)
Wanted(spec, sub, o, g, ro) ==
  Intended(o.op.verb, ServerPath(spec) \o Filled(o.path),
    IF IsWhole(spec, o) THEN Only(Whole, <<"val", "body">>)
    ELSE IF o.op.hasBody THEN AsHash(g) ELSE <<>>,
    IF ~o.op.hasBody /\ IsNamed(spec, sub, o) THEN AsHash(g) ELSE <<>>, ro)
Agree(did, should) ==
  /\ did.verb = should.verb /\ did.path = should.path /\ did.body = should.body
  /\ did.query = should.query /\ did.ro = should.ro

\* One of three ways to call a method, by what its operation takes.
Heads(spec, sub, o, head, given) ==
  LET ids == IdAtoms(Nth(o.path, Len(o.path)))
  IN  \/ /\ o.op.hasBody /\ IsObjectBody(spec.schemas, o.op.body) /\ sub.form = "named"
         /\ head = ids /\ given = "fields"
      \/ /\ IsWhole(spec, o) /\ sub.form = "single"
         /\ head = ids \o <<<<"val", "body">>>> /\ given = "none"
         /\ ValueOf(sub.slots, head, "body") = <<"val", "body">>
      \/ /\ ~o.op.hasBody /\ sub.form = "query" /\ head = ids /\ given = "fields"
      \/ /\ ~o.op.hasBody /\ sub.form \in {"bare", "plain", "named"} /\ head = ids /\ given = "none"

(* A sub with the verb and the path of the operation sends what is         *)
(* intended: body, query and options.                                      *)
LEMMA CallAgrees ==
  ASSUME NEW spec, NEW class, NEW sub, NEW o, NEW head, NEW given, Heads(spec, sub, o, head, given),
         Nth(o.path, Len(o.path)) \in Nat, IsList(head), Len(sub.slots) = Len(head),
         sub.verb = o.op.verb,
         (IF sub.where.sibling THEN <<>> ELSE class.path) \o PathOf(sub, head)
           = ServerPath(spec) \o Filled(o.path),
         NEW S, NEW g \in Seq(S), \A i \in DOMAIN g : g[i] # "request_options", NEW ro \in BOOLEAN
  PROVE  Agree(Perform(class, sub, Passed(spec, sub, o, g, ro)), Wanted(spec, sub, o, g, ro))
<1> DEFINE ids == IdAtoms(Nth(o.path, Len(o.path)))
           body == <<<<"val", "body">>>>
           opt == WithOptions(ro)
           pairs == Pairs(g)
           rest == IF given = "fields" THEN g ELSE None
<1>1. IsList(ids) /\ IsList(opt) /\ IsList(pairs) /\ IsList(body) /\ IsList(None)
  <2>1. Len(g) \in Nat
    OBVIOUS
  <2>2. IsList(ids) /\ IsList(opt)
    BY ArgumentLists
  <2>3. IsList(pairs)
    BY <2>1, PairsListed
  <2> QED
    BY <2>2, <2>3, EmptyList
<1>2. rest \in Seq(S) /\ \A i \in DOMAIN rest : rest[i] # "request_options"
  BY DEF None
<1>3. Passed(spec, sub, o, g, ro) = head \o (Pairs(rest) \o opt)
  <2> HIDE DEF ids, body, opt, pairs
  <2>1. Passed(spec, sub, o, g, ro) =
          ((ids \o (IF IsWhole(spec, o) THEN body ELSE None))
             \o (IF IsNamed(spec, sub, o) THEN pairs ELSE None)) \o opt
    BY DEF Passed, ids, body, opt, pairs, None
  <2>2. CASE given = "fields"
    <3>1. head = ids /\ ~IsWhole(spec, o) /\ IsNamed(spec, sub, o) /\ Pairs(rest) = pairs
      BY <2>2 DEF Heads, IsWhole, IsNamed, ids, pairs
    <3>2. Passed(spec, sub, o, g, ro) = ((ids \o None) \o pairs) \o opt
      BY <2>1, <3>1
    <3>3. ids \o None = ids
      <4>1. IsList(ids)
        BY <1>1
      <4> QED
        BY ONLY <4>1, ListAlone
    <3>4. (ids \o pairs) \o opt = ids \o (pairs \o opt)
      <4>1. IsList(ids)
        BY <1>1
      <4>2. IsList(pairs)
        BY <1>1
      <4>3. IsList(opt)
        BY <1>1
      <4> QED
        BY ONLY <4>1, <4>2, <4>3, ListsJoin
    <3> QED
      BY <3>1, <3>2, <3>3, <3>4
  <2>3. CASE given = "none"
    <3>1. ~IsNamed(spec, sub, o) /\ Pairs(rest) = None
      BY <2>3, ArgumentLists DEF Heads, IsWhole, IsNamed
    <3>2. head = ids \o (IF IsWhole(spec, o) THEN body ELSE None)
      <4>1. ids \o None = ids
        BY <1>1, ListAlone
      <4> QED
        BY <2>3, <4>1 DEF Heads, IsWhole, ids, body
    <3>3. Passed(spec, sub, o, g, ro) = (head \o None) \o opt
      BY <2>1, <3>1, <3>2
    <3>4. head \o None = head /\ None \o opt = opt
      BY <1>1, ListAlone
    <3> QED
      BY <3>1, <3>3, <3>4
  <2> QED
    BY <2>2, <2>3 DEF Heads
<1> HIDE DEF rest
<1>4. Perform(class, sub, head \o (Pairs(rest) \o WithOptions(ro)))
        = Sends(class, sub, head, AsHash(rest), ro)
  BY <1>2, PerformIs
<1>5. LET did == Sends(class, sub, head, AsHash(rest), ro)
      IN  /\ did.verb = sub.verb /\ did.ro = OptionsAtom(ro)
          /\ did.path = (IF sub.where.sibling THEN <<>> ELSE class.path) \o PathOf(sub, head)
          /\ did.query = (IF sub.form = "query" THEN AsHash(rest) ELSE <<>>)
          /\ did.body = BodyOf(sub, head, AsHash(rest))
  BY DEF Sends
<1>6. LET should == Wanted(spec, sub, o, g, ro)
      IN  /\ should.verb = o.op.verb /\ should.ro = OptionsAtom(ro)
          /\ should.path = ServerPath(spec) \o Filled(o.path)
          /\ should.body = (IF IsWhole(spec, o) THEN Only(Whole, <<"val", "body">>)
                            ELSE IF o.op.hasBody THEN AsHash(g) ELSE <<>>)
          /\ should.query = IF ~o.op.hasBody /\ IsNamed(spec, sub, o) THEN AsHash(g) ELSE <<>>
  BY DEF Wanted, Intended
<1>7. AsHash(None) = None
  <2>1. None \in Seq(S) /\ DOMAIN None = {}
    BY DEF None
  <2>2. Hash(Pairs(None)) = [k \in {Key(None[i]) : i \in DOMAIN None} |-> <<"val", k[2]>>]
    BY <2>1, HashOfPairs
  <2> HIDE DEF None
  <2>3. {Key(None[i]) : i \in DOMAIN None} = {}
    BY <2>1
  <2>4. Hash(Pairs(None)) = [k \in {} |-> <<"val", k[2]>>]
    BY <2>2, <2>3
  <2>5. None = [k \in {} |-> <<"val", k[2]>>]
    BY DEF None
  <2> QED
    BY <2>4, <2>5 DEF AsHash
<1>8. BodyOf(sub, head, AsHash(rest)) =
        IF IsWhole(spec, o) THEN Only(Whole, <<"val", "body">>)
        ELSE IF o.op.hasBody THEN AsHash(g) ELSE <<>>
  BY <1>7 DEF BodyOf, Heads, IsWhole, rest, None
<1>9. (IF sub.form = "query" THEN AsHash(rest) ELSE <<>>)
        = IF ~o.op.hasBody /\ IsNamed(spec, sub, o) THEN AsHash(g) ELSE <<>>
  BY DEF Heads, IsNamed, IsWhole, rest
<1> QED
  BY <1>3, <1>4, <1>5, <1>6, <1>8, <1>9 DEF Agree

-----------------------------------------------------------------------------
(* The methods the generator emits.                                        *)
\* What a sub addresses, when its class has a path.
Reaches(path, sub, head) == (IF sub.where.sibling THEN <<>> ELSE path) \o PathOf(sub, head)

\* The first of the m slots are the ids of the path, and an id is passed for each.
SlotsFit(spec, r, o, sub, m, head) ==
  /\ sub.where = MethodCallPath(spec, r, o.path) /\ m \in Nat /\ Len(sub.slots) = m
  /\ \A i, j \in 1..m : sub.slots[i] = sub.slots[j] => i = j
  /\ Nth(o.path, Len(o.path)) \in 0..m
  /\ \A i \in 1..Nth(o.path, Len(o.path)) :
       sub.slots[i] = MethodCallPath(spec, r, o.path).ids[i] /\ head[i] = <<"id", i>>

(* A method given an id for each slot addresses the path of its operation  *)
(* with the ids in their places.                                           *)
LEMMA PathFilled ==
  ASSUME NEW spec, NEW r, Input(spec, r), NEW o, o.path \in Seq(Segments), OperationFits(spec, r, o),
         NEW sub, NEW m, NEW head, SlotsFit(spec, r, o, sub, m, head)
  PROVE  Reaches(BasePath(spec, r), sub, head) = ServerPath(spec) \o Filled(o.path)
<1> DEFINE where == MethodCallPath(spec, r, o.path)
           n == Nth(o.path, Len(o.path))
           t == TailOf(spec, r, o.path)
           full == Filled(t)
           pieces == where.pieces
<1>01. Input(spec, r)
  OBVIOUS
<1>02. o.path \in Seq(Segments)
  OBVIOUS
<1>03. OperationFits(spec, r, o)
  OBVIOUS
<1>1. /\ n \in Nat /\ where.sibling = RelativeTail(spec, r, o.path).sibling
      /\ DOMAIN pieces = DOMAIN t
      /\ \A k \in DOMAIN pieces :
           IF IsPar(t[k]) THEN \E i \in 1..n : pieces[k] = <<"arg", where.ids[i]>> /\ full[k] = <<"id", i>>
           ELSE pieces[k] = full[k] /\ pieces[k][1] # "arg"
  <2>1. ArgsGood(spec, r, o)
    BY ONLY <1>01, <1>02, <1>03, ArgsFitPath
  <2> QED
    BY <2>1 DEF ArgsGood
<1>2. ServerPath(spec) \o Filled(o.path) = Lead(spec, r, o.path) \o full
  BY ONLY <1>01, <1>02, TailIs
<1>3. full = [k \in DOMAIN t |-> full[k]]
  BY DEF Filled
<1>4. PathOf(sub, head) = [k \in DOMAIN pieces |->
        IF pieces[k][1] = "arg" THEN ValueOf(sub.slots, head, pieces[k][2]) ELSE pieces[k]]
  BY DEF PathOf, SlotsFit
<1>5. /\ \A i \in 1..n : i \in 1..m /\ sub.slots[i] = where.ids[i] /\ head[i] = <<"id", i>>
      /\ m \in Nat /\ Len(sub.slots) = m
      /\ \A i, j \in 1..m : sub.slots[i] = sub.slots[j] => i = j
  BY <1>1 DEF SlotsFit
<1>6. (IF sub.where.sibling THEN <<>> ELSE BasePath(spec, r)) = Lead(spec, r, o.path)
  BY <1>1 DEF Lead, SlotsFit
<1> HIDE DEF where, n, t, full, pieces
<1>7. ASSUME NEW i \in 1..n PROVE ValueOf(sub.slots, head, where.ids[i]) = <<"id", i>>
  <2>1. i \in 1..m /\ sub.slots[i] = where.ids[i] /\ head[i] = <<"id", i>>
    BY <1>5
  <2>2. i \in 1..m
    BY <2>1
  <2>3. ValueOf(sub.slots, head, sub.slots[i]) = head[i]
    BY <1>5, <2>2, ValueIs
  <2> QED
    BY <2>1, <2>3
<1>8. ASSUME NEW k \in DOMAIN t
      PROVE  (IF pieces[k][1] = "arg" THEN ValueOf(sub.slots, head, pieces[k][2]) ELSE pieces[k]) = full[k]
  <2>1. CASE IsPar(t[k])
    <3>1. PICK i \in 1..n : pieces[k] = <<"arg", where.ids[i]>> /\ full[k] = <<"id", i>>
      BY <1>1, <2>1
    <3>2. pieces[k][1] = "arg" /\ pieces[k][2] = where.ids[i]
      BY <3>1
    <3>3. ValueOf(sub.slots, head, where.ids[i]) = <<"id", i>>
      BY <3>1, <1>7
    <3> QED
      BY <3>1, <3>2, <3>3
  <2>2. CASE ~IsPar(t[k])
    BY <1>1, <2>2
  <2> QED
    BY <2>1, <2>2
<1>9. PathOf(sub, head) = full
  BY <1>1, <1>3, <1>4, <1>8
<1> QED
  BY <1>2, <1>6, <1>9 DEF Reaches, where, n, t, full, pieces

\* The slots of an emitted method, and the arguments of a call of it.
LEMMA MethodAgrees ==
  ASSUME NEW spec, NEW r, Input(spec, r), NEW o, o.path \in Seq(Segments), OperationFits(spec, r, o),
         o.op.verb \in {"get", "post", "put", "patch", "delete"},
         o.op.hasBody => o.op.verb \in {"post", "put", "patch"},
         NEW class, class.path = BasePath(spec, r),
         NEW S, NEW g \in Seq(S), \A i \in DOMAIN g : g[i] # "request_options", NEW ro \in BOOLEAN
  PROVE  LET sub == EmitMethod(spec, r, o.op, o.path).sub
         IN  Agree(Perform(class, sub, Passed(spec, sub, o, g, ro)), Wanted(spec, sub, o, g, ro))
<1> DEFINE sub == EmitMethod(spec, r, o.op, o.path).sub
           where == MethodCallPath(spec, r, o.path)
           n == Nth(o.path, Len(o.path))
           names == where.ids
           ids == IdAtoms(n)
           writes == o.op.verb \in {"post", "put", "patch"}
           object == IsObjectBody(spec.schemas, o.op.body)
           single == writes /\ o.op.hasBody /\ ~object
           form == IF writes THEN IF o.op.hasBody THEN IF object THEN "named" ELSE "single"
                                  ELSE "bare"
                   ELSE IF o.op.verb = "get" THEN "query" ELSE "plain"
           slots == IF single THEN Append(names, "body") ELSE names
           body == <<<<"val", "body">>>>
           head == IF single THEN ids \o body ELSE ids
           given == IF form \in {"named", "query"} THEN "fields" ELSE "none"
           m == IF single THEN n + 1 ELSE n
<1>1. sub.verb = o.op.verb /\ sub.where = where /\ sub.form = form /\ sub.slots = slots
  <2> DEFINE Is(f, s) == sub = Sub(f, o.op.verb, where, s)
  <2>1. CASE writes /\ o.op.hasBody /\ object
    <3>1. Is("named", names) /\ form = "named" /\ slots = names
      BY <2>1 DEF EmitMethod
    <3> QED
      BY <3>1 DEF Sub
  <2>2. CASE writes /\ o.op.hasBody /\ ~object
    <3>1. Is("single", Append(names, "body")) /\ form = "single" /\ slots = Append(names, "body")
      BY <2>2 DEF EmitMethod
    <3> QED
      BY <3>1 DEF Sub
  <2>3. CASE writes /\ ~o.op.hasBody
    <3>1. Is("bare", names) /\ form = "bare" /\ slots = names
      BY <2>3 DEF EmitMethod
    <3> QED
      BY <3>1 DEF Sub
  <2>4. CASE o.op.verb = "get"
    <3>1. Is("query", names) /\ form = "query" /\ slots = names
      BY <2>4 DEF EmitMethod
    <3> QED
      BY <3>1 DEF Sub
  <2>5. CASE o.op.verb = "delete"
    <3>1. Is("plain", names) /\ form = "plain" /\ slots = names
      BY <2>5 DEF EmitMethod
    <3> QED
      BY <3>1 DEF Sub
  <2> QED
    BY <2>1, <2>2, <2>3, <2>4, <2>5
<1>2. /\ n \in Nat /\ names = [i \in 1..n |-> names[i]]
      /\ \A i, j \in 1..n : names[i] = names[j] => i = j
      /\ \A i \in 1..n : names[i] \notin {"body", "request_options"}
  <2>1. ArgsGood(spec, r, o)
    BY ArgsFitPath
  <2> QED
    BY <2>1 DEF ArgsGood
<1> HIDE DEF sub, where, n, names
<1>3. IsList(ids) /\ Len(ids) = n /\ \A i \in 1..n : ids[i] = <<"id", i>>
  BY <1>2, ArgumentLists
<1>4. IsList(names) /\ Len(names) = n
  BY <1>2, IsListOf
<1> HIDE DEF ids
<1>5. /\ IsList(slots) /\ Len(slots) = m /\ m \in Nat /\ n \in 0..m
      /\ \A i \in 1..n : slots[i] = names[i]
      /\ single => slots[n + 1] = "body"
  <2>1. CASE single
    <3>1. IsList(names)
      BY <1>4
    <3>2. /\ IsList(Append(names, "body")) /\ Len(Append(names, "body")) = Len(names) + 1
          /\ \A i \in 1..Len(names) : Append(names, "body")[i] = names[i]
          /\ Append(names, "body")[Len(names) + 1] = "body"
      BY ONLY <3>1, AppendList
    <3> QED
      BY <1>2, <1>4, <2>1, <3>2
  <2>2. CASE ~single
    BY <1>2, <1>4, <2>2
  <2> QED
    BY <2>1, <2>2
<1>6. /\ IsList(head) /\ Len(head) = m
      /\ \A i \in 1..n : head[i] = <<"id", i>>
      /\ single => head[n + 1] = <<"val", "body">>
  <2>1. CASE single
    <3>1. IsList(ids)
      BY <1>3
    <3>2. IsList(body) /\ Len(body) = 1 /\ body[1] = <<"val", "body">>
      <4>1. body = [i \in 1..1 |-> body[i]]
        OBVIOUS
      <4> QED
        BY <4>1, IsListOf
    <3>3. IsList(body)
      BY <3>2
    <3> HIDE DEF body
    <3>4. /\ IsList(ids \o body) /\ Len(ids \o body) = Len(ids) + Len(body)
          /\ \A i \in 1..Len(ids) : (ids \o body)[i] = ids[i]
          /\ \A i \in 1..Len(body) : (ids \o body)[Len(ids) + i] = body[i]
      BY ONLY <3>1, <3>3, ConcatLists
    <3>5. head = ids \o body /\ m = n + 1 /\ 1 \in 1..Len(body)
      BY <2>1, <3>2
    <3> QED
      BY <1>3, <2>1, <3>2, <3>4, <3>5
  <2>2. CASE ~single
    BY <1>3, <2>2
  <2> QED
    BY <2>1, <2>2
<1>7. \A i, j \in 1..m : slots[i] = slots[j] => i = j
  <2>1. CASE single
    <3>1. \A i \in 1..m : i \in 1..n \/ i = n + 1
      BY <1>2, <2>1
    <3> HIDE DEF slots, m
    <3> QED
      BY <1>2, <1>5, <2>1, <3>1
  <2>2. CASE ~single
    BY <1>2, <1>5, <2>2
  <2> QED
    BY <2>1, <2>2
<1>8. single => ValueOf(slots, head, "body") = <<"val", "body">>
  <2> SUFFICES ASSUME single PROVE ValueOf(slots, head, "body") = <<"val", "body">>
    OBVIOUS
  <2>1. n + 1 \in 1..m
    BY <1>2
  <2>2. slots[n + 1] = "body" /\ head[n + 1] = <<"val", "body">>
    BY <1>5, <1>6
  <2> HIDE DEF slots, head, m
  <2>3. ValueOf(slots, head, slots[n + 1]) = head[n + 1]
    BY <1>5, <1>7, <2>1, ValueIs
  <2> QED
    BY <2>2, <2>3
<1>9. Heads(spec, sub, o, head, given)
  <2>1. /\ o.op.hasBody => writes
        /\ IsWhole(spec, o) <=> o.op.hasBody /\ ~object
    BY DEF IsWhole
  <2>2. CASE o.op.hasBody /\ object
    BY <1>1, <2>1, <2>2 DEF Heads, ids, n
  <2>3. CASE single
    <3>1. form = "single" /\ head = ids \o body /\ given = "none" /\ IsWhole(spec, o)
      BY <2>1, <2>3
    <3> HIDE DEF head, given, form, slots
    <3> QED
      BY <1>1, <1>8, <2>3, <3>1 DEF Heads, ids, n
  <2>4. CASE ~o.op.hasBody
    <3>1. head = ids /\ IF form = "query" THEN given = "fields"
                        ELSE given = "none" /\ form \in {"bare", "plain", "named"}
      BY <2>4
    <3> HIDE DEF head, given, form
    <3> QED
      BY <1>1, <2>4, <3>1 DEF Heads, ids, n
  <2> QED
    BY <2>1, <2>2, <2>3, <2>4
<1> HIDE DEF slots, head, m, given, form
<1>10. (IF sub.where.sibling THEN <<>> ELSE class.path) \o PathOf(sub, head)
         = ServerPath(spec) \o Filled(o.path)
  <2>1. Reaches(BasePath(spec, r), sub, head) = ServerPath(spec) \o Filled(o.path)
    <3>1. SlotsFit(spec, r, o, sub, m, head)
      BY <1>1, <1>5, <1>6, <1>7 DEF where, n, names, SlotsFit
    <3>2. Input(spec, r)
      OBVIOUS
    <3>3. o.path \in Seq(Segments)
      OBVIOUS
    <3>4. OperationFits(spec, r, o)
      OBVIOUS
    <3> QED
      BY ONLY <3>1, <3>2, <3>3, <3>4, PathFilled
  <2> QED
    BY <2>1 DEF Reaches
<1>11. Agree(Perform(class, sub, Passed(spec, sub, o, g, ro)), Wanted(spec, sub, o, g, ro))
  <2>1. Nth(o.path, Len(o.path)) \in Nat /\ IsList(head) /\ Len(sub.slots) = Len(head)
        /\ sub.verb = o.op.verb
    BY <1>1, <1>2, <1>5, <1>6 DEF n
  <2> QED
    BY <1>9, <1>10, <2>1, CallAgrees
<1> QED
  BY <1>11 DEF sub

-----------------------------------------------------------------------------
(* The methods a base class answers for.                                   *)
LEMMA SeqIsList ==
  ASSUME NEW S, NEW s \in Seq(S)
  PROVE  IsList(s)
<1>1. Len(s) \in Nat /\ s = [i \in 1..Len(s) |-> s[i]]
  OBVIOUS
<1> QED
  BY <1>1, IsListOf

(* A list of two.                                                          *)
LEMMA PairAppended ==
  ASSUME NEW x, NEW y
  PROVE  Append(<<x>>, y) = <<x, y>>
<1> DEFINE one == <<x>>
           b == Append(one, y)
<1>1. IsList(one) /\ Len(one) = 1 /\ one[1] = x
  <2>1. one = [i \in 1..1 |-> one[i]]
    OBVIOUS
  <2> QED
    BY <2>1, IsListOf
<1>2. IsList(one)
  BY <1>1
<1> HIDE DEF one
<1>3. /\ IsList(b) /\ Len(b) = Len(one) + 1 /\ \A i \in 1..Len(one) : b[i] = one[i]
      /\ b[Len(one) + 1] = y
  BY ONLY <1>2, AppendList
<1> HIDE DEF b
<1>4. b = [i \in 1..Len(b) |-> b[i]]
  BY <1>3, ListRange
<1>5. Len(b) = 2 /\ b[1] = x /\ b[2] = y
  BY <1>1, <1>3
<1>6. b = <<x, y>>
  BY <1>4, <1>5
<1> QED
  BY <1>6 DEF one, b

Grounded(sub) ==
  /\ sub.where.sibling = FALSE /\ sub.form \in {"query", "plain", "named"}
  /\ \/ sub.slots = <<>>
     \/ sub.slots = <<"resource_id">>
  /\ \E n \in Nat : DOMAIN sub.where.pieces = 1..n
  /\ \A k \in DOMAIN sub.where.pieces : sub.where.pieces[k][1] = "arg" =>
       sub.where.pieces[k][2] = "resource_id" /\ sub.slots = <<"resource_id">>

(* The subs of the base classes use each of their slots once in their      *)
(* path.                                                                   *)
LEMMA ProvidesGrounded ==
  ASSUME NEW base, NEW u, NEW x \in DOMAIN Provides(base, u)
  PROVE  Grounded(Provides(base, u)[x])
<1> DEFINE one == <<"resource_id">>
           far == [Within(one) EXCEPT !.pieces = Append(@, <<"lit", "addresses">>)]
<1>1. \A form, verb : form \in {"query", "plain", "named"} =>
        Grounded(Sub(form, verb, Within(<<>>), <<>>))
  <2> SUFFICES ASSUME NEW form, NEW verb, form \in {"query", "plain", "named"}
               PROVE  Grounded(Sub(form, verb, Within(<<>>), <<>>))
    OBVIOUS
  <2>1. DOMAIN Within(<<>>).pieces = {} /\ Within(<<>>).sibling = FALSE
    BY DEF Within
  <2>2. 0 \in Nat /\ 1..0 = {}
    OBVIOUS
  <2> HIDE DEF Within
  <2> QED
    BY <2>1, <2>2 DEF Grounded, Sub
<1>2. /\ Within(one).sibling = FALSE /\ Within(one).pieces = [i \in 1..1 |-> <<"arg", "resource_id">>]
      /\ Within(one).pieces = <<<<"arg", "resource_id">>>>
  <2>1. Within(one).pieces = [i \in DOMAIN one |-> <<"arg", one[i]>>] /\ Within(one).sibling = FALSE
    BY DEF Within
  <2>2. DOMAIN one = 1..1 /\ \A i \in 1..1 : one[i] = "resource_id"
    OBVIOUS
  <2> HIDE DEF one
  <2>3. Within(one).pieces = [i \in 1..1 |-> <<"arg", "resource_id">>]
    BY <2>1, <2>2
  <2>4. <<<<"arg", "resource_id">>>> = [i \in 1..1 |-> <<"arg", "resource_id">>]
    OBVIOUS
  <2> QED
    BY <2>1, <2>3, <2>4
<1>3. \A form, verb : form \in {"query", "plain", "named"} => Grounded(Sub(form, verb, Within(one), one))
  <2> SUFFICES ASSUME NEW form, NEW verb, form \in {"query", "plain", "named"}
               PROVE  Grounded(Sub(form, verb, Within(one), one))
    OBVIOUS
  <2> DEFINE where == Within(one)
             sub == Sub(form, verb, where, one)
  <2>1. sub.where = where /\ sub.form = form /\ sub.slots = one
    BY DEF Sub
  <2>2. where.sibling = FALSE /\ DOMAIN where.pieces = 1..1
        /\ \A k \in 1..1 : where.pieces[k][2] = "resource_id"
    BY <1>2
  <2> HIDE DEF where, sub
  <2> QED
    BY <2>1, <2>2 DEF Grounded, where, sub
<1>4. Grounded(Sub("query", "get", far, one))
  <2> DEFINE a == <<"arg", "resource_id">>
             b == <<"lit", "addresses">>
             sub == Sub("query", "get", far, one)
  <2>1. sub.where = far /\ sub.form = "query" /\ sub.slots = one
    BY DEF Sub
  <2>2. far.sibling = FALSE /\ far.pieces = Append(Within(one).pieces, b)
    BY <1>2 DEF Within
  <2>3. Append(<<a>>, b) = <<a, b>>
    BY PairAppended
  <2>4. a[2] = "resource_id" /\ b[1] # "arg"
    OBVIOUS
  <2>5. far.pieces = <<a, b>>
    BY <1>2, <2>2, <2>3
  <2> HIDE DEF a, b
  <2>6. DOMAIN <<a, b>> = 1..2 /\ \A k \in 1..2 : <<a, b>>[k] = a \/ <<a, b>>[k] = b
    OBVIOUS
  <2> HIDE DEF far, sub
  <2>7. DOMAIN far.pieces = 1..2 /\ \A k \in 1..2 : far.pieces[k] = a \/ far.pieces[k] = b
    BY <2>5, <2>6
  <2> QED
    BY <2>1, <2>2, <2>4, <2>7 DEF Grounded, sub
<1> HIDE DEF one, far
<1>5. \A y \in DOMAIN CrudSubs(u) : Grounded(CrudSubs(u)[y])
  <2> SUFFICES ASSUME NEW y \in DOMAIN CrudSubs(u) PROVE Grounded(CrudSubs(u)[y])
    OBVIOUS
  <2>1. y \in {"list", "create", "get", "update", "delete"}
    BY DEF CrudSubs
  <2>2. CASE y = "list"
    BY <1>1, <2>2 DEF CrudSubs
  <2>3. CASE y = "create"
    BY <1>1, <2>3 DEF CrudSubs
  <2>4. CASE y = "get"
    BY <1>3, <2>4 DEF CrudSubs, one
  <2>5. CASE y = "update"
    BY <1>3, <2>5 DEF CrudSubs, one
  <2>6. CASE y = "delete"
    BY <1>3, <2>6 DEF CrudSubs, one
  <2> QED
    BY <2>1, <2>2, <2>3, <2>4, <2>5, <2>6
<1>6. \A y \in DOMAIN FabricSubs(u) : Grounded(FabricSubs(u)[y])
  <2> DEFINE more == [list_addresses |-> Sub("query", "get", far, one)]
  <2>1. FabricSubs(u) = Over(CrudSubs(u), more)
    BY DEF FabricSubs, far, one
  <2>2. \A y \in DOMAIN more : Grounded(more[y])
    BY <1>4
  <2> HIDE DEF more
  <2> QED
    BY <1>5, <2>1, <2>2 DEF Over
<1>7. \A y \in DOMAIN ReadSubs : Grounded(ReadSubs[y])
  <2> SUFFICES ASSUME NEW y \in DOMAIN ReadSubs PROVE Grounded(ReadSubs[y])
    OBVIOUS
  <2>1. y \in {"list", "get", "paginate"}
    BY DEF ReadSubs
  <2>2. CASE y = "list"
    BY <1>1, <2>2 DEF ReadSubs
  <2>3. CASE y = "get"
    BY <1>3, <2>3 DEF ReadSubs, one
  <2>4. CASE y = "paginate"
    BY <1>1, <2>4 DEF ReadSubs
  <2> QED
    BY <2>1, <2>2, <2>3, <2>4
<1>8. DOMAIN <<>> = {}
  OBVIOUS
<1>9. \/ Provides(base, u) = ReadSubs \/ Provides(base, u) = CrudSubs(u)
      \/ Provides(base, u) = FabricSubs(u) \/ Provides(base, u) = <<>>
  BY DEF Provides
<1> QED
  BY <1>5, <1>6, <1>7, <1>8, <1>9

(* A method the base answers for sends what is intended.                   *)
LEMMA InheritedAgrees ==
  ASSUME NEW spec, NEW r, Input(spec, r), NEW m, NEW o,
         m[1] \in DOMAIN Provides(r.markup.base, r.markup.update), InheritedFits(spec, r, m, o),
         NEW class, class.path = BasePath(spec, r),
         NEW S, NEW g \in Seq(S), \A i \in DOMAIN g : g[i] # "request_options", NEW ro \in BOOLEAN
  PROVE  LET sub == Provides(r.markup.base, r.markup.update)[m[1]]
         IN  Agree(Perform(class, sub, Passed(spec, sub, o, g, ro)), Wanted(spec, sub, o, g, ro))
<1> DEFINE sub == Provides(r.markup.base, r.markup.update)[m[1]]
           pieces == sub.where.pieces
           n == Len(sub.slots)
           head == IdAtoms(n)
           coll == CollectionSegment(r.path, r.markup)
           behind == [i \in DOMAIN pieces |-> IF pieces[i][1] = "arg" THEN <<"id", 1>> ELSE pieces[i]]
           given == IF o.op.hasBody \/ sub.form = "query" THEN "fields" ELSE "none"
<1>1. Grounded(sub)
  BY ProvidesGrounded
<1>2. /\ o.op.verb = sub.verb /\ Nth(o.path, Len(o.path)) = n /\ Filled(o.path) = coll \o behind
      /\ o.op.hasBody => sub.form = "named" /\ IsObjectBody(spec.schemas, o.op.body)
  BY Zenon DEF InheritedFits
<1> HIDE DEF sub
<1>3. /\ sub.where.sibling = FALSE /\ sub.form \in {"query", "plain", "named"} /\ n \in {0, 1}
      /\ n = 1 => sub.slots = <<"resource_id">>
      /\ \A k \in DOMAIN pieces : pieces[k][1] = "arg" => pieces[k][2] = "resource_id" /\ n = 1
  <2>1. Len(<<>>) = 0 /\ Len(<<"resource_id">>) = 1 /\ 0 # 1
    OBVIOUS
  <2>2. n \in {0, 1} /\ (n = 1 <=> sub.slots = <<"resource_id">>)
    BY <1>1, <2>1 DEF Grounded
  <2> HIDE DEF n
  <2> QED
    BY <1>1, <2>2 DEF Grounded
<1>4. IsList(head) /\ Len(head) = n /\ \A i \in 1..n : head[i] = <<"id", i>>
  <2>1. n \in Nat
    BY <1>3
  <2> QED
    BY <2>1, ArgumentLists
<1>5. IsList(behind)
  <2>1. PICK k \in Nat : DOMAIN pieces = 1..k
    BY <1>1 DEF Grounded
  <2>2. behind = [i \in 1..k |-> behind[i]]
    BY <2>1
  <2> HIDE DEF behind
  <2> QED
    BY <2>1, <2>2, IsListOf
<1>6. PathOf(sub, head) = behind
  <2>1. n = 1 => ValueOf(sub.slots, head, "resource_id") = <<"id", 1>>
    <3> SUFFICES ASSUME n = 1 PROVE ValueOf(sub.slots, head, "resource_id") = <<"id", 1>>
      OBVIOUS
    <3> DEFINE one == 1
               slots == sub.slots
    <3>1. one \in Nat
      OBVIOUS
    <3>2. slots[one] = "resource_id"
      BY <1>3
    <3>3. \A i, j \in 1..one : slots[i] = slots[j] => i = j
      OBVIOUS
    <3>4. Len(slots) = one
      OBVIOUS
    <3>5. one \in 1..one
      OBVIOUS
    <3> HIDE DEF one, slots, head
    <3>6. ValueOf(slots, head, slots[one]) = head[one]
      BY ONLY <3>1, <3>3, <3>4, <3>5, ValueIs
    <3>7. ValueOf(sub.slots, head, "resource_id") = head[1]
      BY <3>2, <3>6 DEF one, slots
    <3>8. 1 \in 1..n
      OBVIOUS
    <3> HIDE DEF n, head
    <3> QED
      BY <1>4, <3>7, <3>8
  <2> HIDE DEF head, n
  <2>2. \A k \in DOMAIN pieces : pieces[k][1] = "arg" =>
          ValueOf(sub.slots, head, pieces[k][2]) = <<"id", 1>>
    BY <1>3, <2>1
  <2> QED
    BY <2>2 DEF PathOf
<1>7. BasePath(spec, r) \o behind = ServerPath(spec) \o Filled(o.path)
  <2>1. BasePath(spec, r) = ServerPath(spec) \o coll
    BY DEF BasePath
  <2>2. IsList(ServerPath(spec))
    <3>1. ServerPath(spec) \in Seq(Segments)
      BY DEF Input
    <3> QED
      BY ONLY <3>1, SeqIsList
  <2>3. IsList(coll)
    <3>1. coll \in Seq(Segments)
      BY CollectionTyped
    <3> QED
      BY ONLY <3>1, SeqIsList
  <2> HIDE DEF behind, coll
  <2>4. (ServerPath(spec) \o coll) \o behind = ServerPath(spec) \o (coll \o behind)
    BY ONLY <1>5, <2>2, <2>3, ListsJoin
  <2> QED
    BY <1>2, <2>1, <2>4
<1>8. (IF sub.where.sibling THEN <<>> ELSE class.path) \o PathOf(sub, head)
        = ServerPath(spec) \o Filled(o.path)
  BY <1>3, <1>6, <1>7
<1>9. Heads(spec, sub, o, head, given)
  <2>1. head = IdAtoms(Nth(o.path, Len(o.path)))
    BY <1>2
  <2> HIDE DEF head
  <2> QED
    BY <1>2, <1>3, <2>1 DEF Heads
<1>10. Nth(o.path, Len(o.path)) \in Nat /\ IsList(head) /\ Len(sub.slots) = Len(head)
       /\ sub.verb = o.op.verb
  BY <1>2, <1>3, <1>4
<1> HIDE DEF head, given
<1>11. Agree(Perform(class, sub, Passed(spec, sub, o, g, ro)), Wanted(spec, sub, o, g, ro))
  BY <1>8, <1>9, <1>10, CallAgrees
<1> QED
  BY <1>11 DEF sub

-----------------------------------------------------------------------------
(* The set methods.                                                        *)
SetSub(spec, r, sm) == EmitSetMethod(spec, r, sm).sub

(* The sub of a set method.                                                *)
LEMMA SetSubIs ==
  ASSUME NEW spec, NEW r, NEW sm, ArgsFit(sm)
  PROVE  /\ SetSub(spec, r, sm).form = "set" /\ SetSub(spec, r, sm).verb = r.markup.update
         /\ SetSub(spec, r, sm).where = Within(<<"resource_id">>)
         /\ SetSub(spec, r, sm).sets = sm.args /\ SetSub(spec, r, sm).says = sm.handler
<1> DEFINE args == SetArgs(sm)
           where == Within(<<"resource_id">>)
           slots == <<"resource_id">> \o [i \in DOMAIN args |-> args[i][1]]
           plain == Sub("set", r.markup.update, where, slots)
<1>1. SetSub(spec, r, sm) = [plain EXCEPT !.sets = args, !.says = sm.handler]
  BY DEF SetSub, EmitSetMethod
<1>2. args = sm.args
  BY DEF ArgsFit
<1> HIDE DEF args, where, slots
<1>3. plain.form = "set" /\ plain.verb = r.markup.update /\ plain.where = where
      /\ DOMAIN plain = {"form", "verb", "where", "slots", "sets", "says"}
  BY DEF Sub
<1> HIDE DEF plain
<1> QED
  BY <1>1, <1>2, <1>3 DEF where

\* The slots of a set method and the arguments passed for them.
SetHead(sm, some) == IdAtoms(1) \o Positional(sm, some)

SetNames(sm) == <<"resource_id">> \o [i \in DOMAIN sm.args |-> sm.args[i][1]]
SetFilled(sm, some, slots, head) ==
  /\ IsList(head) /\ Len(slots) = Len(head)
  /\ ValueOf(slots, head, "resource_id") = <<"id", 1>>
  /\ \A i \in DOMAIN sm.args :
       ValueOf(slots, head, sm.args[i][1])
         = IF sm.args[i][3] \/ sm.args[i][1] \in some THEN <<"val", sm.args[i][1]>> ELSE Undef

(* Each argument of a set method is in the slot of its name.               *)
LEMMA SetSlots ==
  ASSUME NEW sm, ArgsFit(sm), sm.args \in Seq(STRING \X STRING \X BOOLEAN), NEW some
  PROVE  SetFilled(sm, some, SetNames(sm), SetHead(sm, some))
<1> DEFINE args == sm.args
           n == Len(args)
           names == [i \in DOMAIN args |-> args[i][1]]
           pos == Positional(sm, some)
           head == SetHead(sm, some)
           first == <<"resource_id">>
           ids == IdAtoms(1)
           slots == SetNames(sm)
           Val(i) == IF args[i][3] \/ args[i][1] \in some THEN <<"val", args[i][1]>> ELSE Undef
<1>1. n \in Nat /\ DOMAIN args = 1..n
  OBVIOUS
<1>2. /\ names = [i \in 1..n |-> names[i]] /\ \A i \in 1..n : names[i] = args[i][1]
      /\ pos = [i \in 1..n |-> pos[i]] /\ \A i \in 1..n : pos[i] = Val(i)
  BY <1>1 DEF Positional
<1>3. /\ \A i, j \in 1..n : args[i][1] = args[j][1] => i = j
      /\ \A i \in 1..n : args[i][1] # "resource_id"
  BY <1>1 DEF ArgsFit
<1>4. IsList(first) /\ Len(first) = 1 /\ first[1] = "resource_id"
  <2>1. first = [i \in 1..1 |-> first[i]]
    OBVIOUS
  <2> QED
    BY <2>1, IsListOf
<1>5. IsList(ids) /\ Len(ids) = 1 /\ ids[1] = <<"id", 1>>
  <2>1. 1 \in Nat /\ 1 \in 1..1
    OBVIOUS
  <2> QED
    BY <2>1, ArgumentLists
<1>6. slots = first \o names /\ head = ids \o pos
  BY DEF SetHead, SetNames
<1> HIDE DEF args, n, names, pos, head, first, ids, slots, Val
<1>7. IsList(names) /\ Len(names) = n /\ IsList(pos) /\ Len(pos) = n
  BY <1>1, <1>2, IsListOf
<1>8. /\ Len(slots) = 1 + n /\ slots[1] = "resource_id"
      /\ \A i \in 1..n : slots[1 + i] = args[i][1]
  <2>1. IsList(first)
    BY <1>4
  <2>2. IsList(names)
    BY <1>7
  <2>3. /\ Len(first \o names) = Len(first) + Len(names)
        /\ \A i \in 1..Len(first) : (first \o names)[i] = first[i]
        /\ \A i \in 1..Len(names) : (first \o names)[Len(first) + i] = names[i]
    BY ONLY <2>1, <2>2, ConcatLists
  <2>4. 1 \in 1..Len(first)
    BY <1>4
  <2> QED
    BY <1>2, <1>4, <1>6, <1>7, <2>3, <2>4
<1>9. /\ IsList(head) /\ Len(head) = 1 + n /\ head[1] = <<"id", 1>>
      /\ \A i \in 1..n : head[1 + i] = Val(i)
  <2>1. IsList(ids)
    BY <1>5
  <2>2. IsList(pos)
    BY <1>7
  <2>3. /\ IsList(ids \o pos) /\ Len(ids \o pos) = Len(ids) + Len(pos)
        /\ \A i \in 1..Len(ids) : (ids \o pos)[i] = ids[i]
        /\ \A i \in 1..Len(pos) : (ids \o pos)[Len(ids) + i] = pos[i]
    BY ONLY <2>1, <2>2, ConcatLists
  <2>4. 1 \in 1..Len(ids)
    BY <1>5
  <2> QED
    BY <1>2, <1>5, <1>6, <1>7, <2>3, <2>4
<1> DEFINE m == 1 + n
<1>10. m \in Nat /\ 1 \in 1..m /\ \A i \in 1..n : 1 + i \in 1..m
  BY <1>1
<1>11. \A i \in 1..m : i = 1 \/ (i - 1 \in 1..n /\ i = 1 + (i - 1))
  BY <1>1
<1>12. \A i, j \in 1..m : slots[i] = slots[j] => i = j
  <2> HIDE DEF m
  <2> SUFFICES ASSUME NEW i \in 1..m, NEW j \in 1..m, slots[i] = slots[j] PROVE i = j
    OBVIOUS
  <2>1. CASE i = 1 /\ j = 1
    BY <2>1
  <2>2. CASE i = 1 /\ j # 1
    <3>1. j - 1 \in 1..n /\ j = 1 + (j - 1)
      BY <1>11, <2>2
    <3>2. slots[j] = args[j - 1][1]
      BY <1>8, <3>1
    <3> QED
      BY <1>3, <1>8, <2>2, <3>1, <3>2
  <2>3. CASE i # 1 /\ j = 1
    <3>1. i - 1 \in 1..n /\ i = 1 + (i - 1)
      BY <1>11, <2>3
    <3>2. slots[i] = args[i - 1][1]
      BY <1>8, <3>1
    <3> QED
      BY <1>3, <1>8, <2>3, <3>1, <3>2
  <2>4. CASE i # 1 /\ j # 1
    <3>1. i - 1 \in 1..n /\ i = 1 + (i - 1) /\ j - 1 \in 1..n /\ j = 1 + (j - 1)
      BY <1>11, <2>4
    <3>2. slots[i] = args[i - 1][1] /\ slots[j] = args[j - 1][1]
      BY <1>8, <3>1
    <3>3. i - 1 = j - 1
      BY <1>3, <3>1, <3>2
    <3> QED
      BY <3>1, <3>3
  <2> QED
    BY <2>1, <2>2, <2>3, <2>4
<1>13. Len(slots) = m
  BY <1>8
<1> HIDE DEF m
<1>14. ASSUME NEW i \in 1..m PROVE ValueOf(slots, head, slots[i]) = head[i]
  <2>1. m \in Nat
    BY <1>10
  <2> QED
    BY ONLY <1>12, <1>13, <1>14, <2>1, ValueIs
<1>15. ValueOf(slots, head, "resource_id") = <<"id", 1>>
  BY <1>8, <1>9, <1>10, <1>14
<1>16. ASSUME NEW i \in 1..n PROVE ValueOf(slots, head, args[i][1]) = Val(i)
  <2>1. 1 + i \in 1..m
    BY <1>10
  <2>2. ValueOf(slots, head, slots[1 + i]) = head[1 + i]
    BY <2>1, <1>14
  <2> QED
    BY <1>8, <1>9, <2>2
<1> QED
  BY <1>1, <1>8, <1>9, <1>15, <1>16 DEF SetFilled, args, head, slots, Val

FieldValues(fields) ==
  [k \in {Key(fields[i][2]) : i \in DOMAIN fields} |->
     <<"val", fields[CHOOSE i \in DOMAIN fields : Key(fields[i][2]) = k][1]>>]

(* The fields a set method fills in are those whose argument was given.    *)
LEMMA ChosenFields ==
  ASSUME NEW sm, sm.args \in Seq(STRING \X STRING \X BOOLEAN), NEW some, NEW sub, sub.sets = sm.args,
         NEW head, SetFilled(sm, some, sub.slots, head)
  PROVE  /\ FieldsOf(sub, head) = Chosen(sm, some)
         /\ SetValues(sub.slots, head, Chosen(sm, some)) = FieldValues(Chosen(sm, some))
<1> DEFINE args == sm.args
           slots == sub.slots
           I == {i \in DOMAIN args : args[i][3] \/ args[i][1] \in some}
           fields == Chosen(sm, some)
           names == {Key(fields[i][2]) : i \in DOMAIN fields}
           c(k) == CHOOSE i \in DOMAIN fields : Key(fields[i][2]) = k
<1>1. \A x : <<"val", x>> # Undef
  BY DEF Undef
<1>2. {i \in DOMAIN args : args[i][3] \/ ValueOf(slots, head, args[i][1]) # Undef} = I
  BY <1>1 DEF SetFilled
<1>3. fields = Picked(args, I) /\ FieldsOf(sub, head) = Picked(args, I)
  BY <1>2 DEF Chosen, FieldsOf
<1>4. \A j \in DOMAIN fields : \E i \in I : fields[j] = args[i]
  <2>1. args \in Seq(STRING \X STRING \X BOOLEAN) /\ I \in SUBSET DOMAIN args
    OBVIOUS
  <2> HIDE DEF args, I, fields
  <2>2. /\ DOMAIN Picked(args, I) = 1..Cardinality(I)
        /\ \A k \in 1..Cardinality(I) : Place(I, k) \in I /\ Picked(args, I)[k] = args[Place(I, k)]
    BY <2>1, PickedEntries
  <2> QED
    BY <1>3, <2>2
<1>5. \A i \in I : ValueOf(slots, head, args[i][1]) = <<"val", args[i][1]>>
  BY DEF SetFilled
<1> HIDE DEF args, I, fields
<1>6. \A j \in DOMAIN fields : ValueOf(slots, head, fields[j][1]) = <<"val", fields[j][1]>>
  BY <1>4, <1>5
<1>7. \A k \in names : c(k) \in DOMAIN fields
  OBVIOUS
<1>8. SetValues(slots, head, fields) = [k \in names |-> ValueOf(slots, head, fields[c(k)][1])]
  BY DEF SetValues
<1> HIDE DEF c, names
<1>9. \A k \in names : ValueOf(slots, head, fields[c(k)][1]) = <<"val", fields[c(k)][1]>>
  BY <1>6, <1>7
<1>10. SetValues(slots, head, fields) = [k \in names |-> <<"val", fields[c(k)][1]>>]
  BY <1>8, <1>9
<1> QED
  BY <1>3, <1>10 DEF FieldValues, fields, names, c

(* A set method sends what is intended: the fields given, the handler, and *)
(* what comes by name on top.                                              *)
LEMMA SetAgrees ==
  ASSUME NEW spec, NEW r, NEW sm, ArgsFit(sm), sm.args \in Seq(STRING \X STRING \X BOOLEAN),
         NEW class, class.path = BasePath(spec, r), NEW some,
         NEW S, NEW g \in Seq(S), \A i \in DOMAIN g : g[i] # "request_options", NEW ro \in BOOLEAN
  PROVE  Agree(Perform(class, SetSub(spec, r, sm),
                       IdAtoms(1) \o Positional(sm, some) \o Pairs(g) \o WithOptions(ro)),
               SetIntended(spec, r, sm, some, g, ro))
<1> DEFINE sub == SetSub(spec, r, sm)
           head == SetHead(sm, some)
           slots == sub.slots
           pairs == Pairs(g)
           opt == WithOptions(ro)
           fields == Chosen(sm, some)
           values == FieldValues(fields)
           handler == Only(Key("call_handler"), <<"val", sm.handler>>)
           did == Sends(class, sub, head, AsHash(g), ro)
           should == SetIntended(spec, r, sm, some, g, ro)
<1>1. /\ sub.form = "set" /\ sub.verb = r.markup.update /\ sub.where = Within(<<"resource_id">>)
      /\ sub.sets = sm.args /\ sub.says = sm.handler
  BY SetSubIs
<1>2. slots = SetNames(sm)
  BY SetFits DEF SetSub, SetNames
<1> HIDE DEF sub
<1>02. SetFilled(sm, some, slots, head)
  BY <1>2, SetSlots
<1>3. /\ IsList(head) /\ Len(slots) = Len(head)
      /\ ValueOf(slots, head, "resource_id") = <<"id", 1>>
  BY <1>02 DEF SetFilled
<1>4. IdAtoms(1) \o Positional(sm, some) \o pairs \o opt = head \o (pairs \o opt)
  <2>1. IsList(head)
    BY <1>3
  <2>2. IsList(pairs)
    <3>1. Len(g) \in Nat
      OBVIOUS
    <3> QED
      BY <3>1, PairsListed
  <2>3. IsList(opt)
    BY ArgumentLists
  <2>4. IdAtoms(1) \o Positional(sm, some) \o pairs \o opt = (head \o pairs) \o opt
    BY DEF SetHead
  <2> HIDE DEF head, pairs, opt
  <2>5. (head \o pairs) \o opt = head \o (pairs \o opt)
    BY ONLY <2>1, <2>2, <2>3, ListsJoin
  <2> QED
    BY <2>4, <2>5
<1> HIDE DEF head
<1>5. Perform(class, sub, head \o (pairs \o opt)) = did
  BY <1>3, PerformIs
<1>6. FieldsOf(sub, head) = fields /\ SetValues(slots, head, fields) = values
  BY <1>1, <1>02, ChosenFields
<1>7. PathOf(sub, head) = IdAtoms(1)
  <2> DEFINE one == <<"resource_id">>
  <2>1. Within(one).pieces = [i \in DOMAIN one |-> <<"arg", one[i]>>]
    BY DEF Within
  <2>2. DOMAIN one = 1..1 /\ \A i \in 1..1 : one[i] = "resource_id" /\ i = 1
    OBVIOUS
  <2> HIDE DEF one
  <2>3. DOMAIN Within(one).pieces = 1..1
        /\ \A i \in 1..1 : Within(one).pieces[i] = <<"arg", "resource_id">>
    BY <2>1, <2>2
  <2>4. sub.where = Within(one)
    BY <1>1 DEF one
  <2> HIDE DEF slots
  <2>5. PathOf(sub, head) = [i \in 1..1 |-> <<"id", 1>>]
    BY <1>3, <2>3, <2>4 DEF PathOf, slots
  <2>6. IdAtoms(1) = [i \in 1..1 |-> <<"id", 1>>]
    BY <2>2 DEF IdAtoms
  <2> QED
    BY <2>5, <2>6
<1>8. sub.where.sibling = FALSE
  BY <1>1 DEF Within
<1> HIDE DEF fields, handler
<1>9. BodyOf(sub, head, AsHash(g)) = Over(AsHash(g), Over(values, handler))
  <2> HIDE DEF values
  <2>1. SetBody(sub, head, AsHash(g)) = Over(AsHash(g), Over(values, handler))
    BY <1>1, <1>6 DEF SetBody, handler
  <2> QED
    BY <1>1, <2>1 DEF BodyOf
<1>10. /\ did.verb = sub.verb /\ did.ro = OptionsAtom(ro)
       /\ did.path = (IF sub.where.sibling THEN <<>> ELSE class.path) \o PathOf(sub, head)
       /\ did.query = (IF sub.form = "query" THEN AsHash(g) ELSE <<>>)
       /\ did.body = BodyOf(sub, head, AsHash(g))
  BY DEF Sends
<1>11. /\ should.verb = r.markup.update /\ should.ro = OptionsAtom(ro)
       /\ should.path = BasePath(spec, r) \o IdAtoms(1) /\ should.query = <<>>
       /\ should.body = Over(AsHash(g), Over(values, handler))
  <2> HIDE DEF values
  <2>1. should = Intended(r.markup.update, BasePath(spec, r) \o IdAtoms(1),
                          Over(AsHash(g), Over(values, handler)), <<>>, ro)
    BY Zenon DEF SetIntended, FieldValues, values, fields, handler
  <2> QED
    BY <2>1 DEF Intended
<1> HIDE DEF did, should, values
<1>12. Agree(did, should)
  BY <1>1, <1>7, <1>8, <1>9, <1>10, <1>11 DEF Agree
<1> QED
  BY <1>4, <1>5, <1>12 DEF sub, pairs, opt, should

-----------------------------------------------------------------------------
(* The commands.                                                           *)
LEMMA OverTurned ==
  ASSUME NEW f, NEW g, NEW h, DOMAIN f \cap DOMAIN g = {}, DOMAIN f \cap DOMAIN h = {},
         DOMAIN g \cap DOMAIN h = {}
  PROVE  Over(f, Over(g, h)) = Over(h, Over(g, f))
<1> DEFINE D == DOMAIN f \cup DOMAIN g \cup DOMAIN h
           a == Over(f, Over(g, h))
           b == Over(h, Over(g, f))
<1>1. a = [k \in D |-> a[k]] /\ b = [k \in D |-> b[k]]
  <2>1. DOMAIN Over(g, h) = DOMAIN g \cup DOMAIN h /\ DOMAIN Over(g, f) = DOMAIN g \cup DOMAIN f
    BY DEF Over
  <2>2. /\ DOMAIN f \cup (DOMAIN g \cup DOMAIN h) = D
        /\ DOMAIN h \cup (DOMAIN g \cup DOMAIN f) = D
    OBVIOUS
  <2> QED
    BY <2>1, <2>2 DEF Over
<1>2. ASSUME NEW k \in D PROVE a[k] = b[k]
  <2>1. CASE k \in DOMAIN f
    BY <2>1 DEF Over
  <2>2. CASE k \in DOMAIN g
    BY <2>2 DEF Over
  <2>3. CASE k \in DOMAIN h
    BY <2>3 DEF Over
  <2> QED
    BY <2>1, <2>2, <2>3
<1> HIDE DEF a, b, D
<1>3. a = b
  BY <1>1, <1>2
<1> QED
  BY <1>3 DEF a, b

\* The parameters of a command, and its id.
ParamValues(g) == [k \in {Param(g[i]) : i \in DOMAIN g} |-> <<"val", k[2]>>]
IdValue(hasId) == IF hasId THEN Only(Key("id"), <<"id", 1>>) ELSE <<>>
CommandHead(hasId) == IF hasId THEN IdAtoms(1) ELSE <<>>

(* The parameters of a command, from the pairs given.                      *)
LEMMA ParamsOf ==
  ASSUME NEW S, NEW g \in Seq(S)
  PROVE  LET given == AsHash(g)
         IN  [k \in {Param(x[2]) : x \in DOMAIN given} |->
                given[CHOOSE x \in DOMAIN given : Param(x[2]) = k]] = ParamValues(g)
<1> DEFINE given == AsHash(g)
           keys == {Key(g[i]) : i \in DOMAIN g}
           names == {Param(x[2]) : x \in DOMAIN given}
           c(k) == CHOOSE x \in DOMAIN given : Param(x[2]) = k
<1>1. given = [k \in keys |-> <<"val", k[2]>>]
  BY HashOfPairs DEF AsHash
<1>2. \A i \in DOMAIN g : Key(g[i])[2] = g[i] /\ Key(g[i]) \in keys
  BY DEF Key
<1>3. \A x \in keys : \E i \in DOMAIN g : x = Key(g[i])
  OBVIOUS
<1> HIDE DEF keys
<1>4. DOMAIN given = keys /\ \A x \in keys : given[x] = <<"val", x[2]>>
  BY <1>1
<1> HIDE DEF given
<1>5. names = {Param(g[i]) : i \in DOMAIN g}
  <2>1. \A x \in DOMAIN given : \E i \in DOMAIN g : Param(x[2]) = Param(g[i])
    BY <1>2, <1>3, <1>4
  <2>2. \A i \in DOMAIN g : \E x \in DOMAIN given : Param(x[2]) = Param(g[i])
    BY <1>2, <1>4
  <2> QED
    BY <2>1, <2>2
<1>6. ASSUME NEW k \in names PROVE given[c(k)] = <<"val", k[2]>>
  <2> DEFINE x == c(k)
  <2>1. x \in DOMAIN given /\ Param(x[2]) = k
    OBVIOUS
  <2> HIDE DEF x
  <2>2. k[2] = x[2]
    BY <2>1 DEF Param
  <2>3. given[x] = <<"val", k[2]>>
    BY <1>4, <2>1, <2>2
  <2> QED
    BY <2>3 DEF x
<1> HIDE DEF c, names
<1>7. [k \in names |-> given[c(k)]] = [k \in names |-> <<"val", k[2]>>]
  BY <1>6
<1>8. ParamValues(g) = [k \in names |-> <<"val", k[2]>>]
  BY <1>5 DEF ParamValues
<1>9. [k \in names |-> given[c(k)]] = ParamValues(g)
  BY <1>7, <1>8
<1> QED
  BY <1>9 DEF given, names, c

(* The body of a command: the command, the id of the call where it has     *)
(* one, the parameters.                                                    *)
LEMMA CommandSends ==
  ASSUME NEW sub, NEW hasId \in BOOLEAN, Len(sub.slots) = IF hasId THEN 1 ELSE 0,
         NEW S, NEW g \in Seq(S)
  PROVE  CommandBody(sub, CommandHead(hasId), AsHash(g))
           = Over(ParamValues(g), Over(IdValue(hasId), Only(Key("command"), <<"val", sub.says>>)))
<1> DEFINE n == Len(sub.slots)
           head == CommandHead(hasId)
           id == [k \in {Key("id") : i \in {j \in 1 .. n : head[j] # Undef}} |-> head[1]]
           given == AsHash(g)
           params == [k \in {Param(x[2]) : x \in DOMAIN given} |->
                        given[CHOOSE x \in DOMAIN given : Param(x[2]) = k]]
           command == Only(Key("command"), <<"val", sub.says>>)
<1>1. params = ParamValues(g)
  BY ParamsOf
<1>2. id = IdValue(hasId)
  <2>1. CASE hasId
    <3>1. n = 1 /\ head = IdAtoms(1) /\ 1 \in 1..1
      BY <2>1 DEF CommandHead
    <3>2. IdAtoms(1)[1] = <<"id", 1>>
      BY <3>1 DEF IdAtoms
    <3>3. <<"id", 1>> # Undef
      BY DEF Undef
    <3> DEFINE at == {j \in 1 .. n : head[j] # Undef}
    <3>4. at # {}
      BY <3>1, <3>2, <3>3
    <3> HIDE DEF at
    <3>5. {Key("id") : i \in at} = {Key("id")}
      BY <3>4
    <3>6. id = [k \in {Key("id") : i \in at} |-> <<"id", 1>>]
      BY <3>1, <3>2 DEF at
    <3>7. IdValue(hasId) = [k \in {Key("id")} |-> <<"id", 1>>]
      BY <2>1 DEF IdValue, Only
    <3> QED
      BY <3>5, <3>6, <3>7
  <2>2. CASE ~hasId
    <3> DEFINE at == {j \in 1 .. n : head[j] # Undef}
    <3>1. n = 0 /\ 1..0 = {}
      BY <2>2
    <3>2. at = {}
      BY <3>1
    <3>3. id = [k \in {Key("id") : i \in at} |-> head[1]]
      OBVIOUS
    <3> HIDE DEF at, id, n
    <3>4. {Key("id") : i \in at} = {}
      BY <3>2
    <3>5. id = [k \in {} |-> head[1]]
      BY <3>3, <3>4
    <3>6. <<>> = [k \in {} |-> head[1]]
      OBVIOUS
    <3>7. IdValue(hasId) = <<>>
      BY <2>2 DEF IdValue
    <3> QED
      BY <3>5, <3>6, <3>7
  <2> QED
    BY <2>1, <2>2
<1>3. CommandBody(sub, head, given) = Over(command, Over(id, params))
  BY Zenon DEF CommandBody
<1> HIDE DEF id, params, given, command
<1>4. /\ DOMAIN command = {Key("command")}
      /\ DOMAIN ParamValues(g) = {Param(g[i]) : i \in DOMAIN g}
      /\ \A k \in DOMAIN IdValue(hasId) : k = Key("id")
  <2>1. \A k \in DOMAIN IdValue(hasId) : k = Key("id")
    <3>1. DOMAIN <<>> = {} /\ DOMAIN Only(Key("id"), <<"id", 1>>) = {Key("id")}
      BY DEF Only
    <3> QED
      BY <3>1 DEF IdValue
  <2> QED
    BY <2>1 DEF command, Only, ParamValues
<1>5. Key("command") # Key("id") /\ \A x, y : Key(x) # Param(y)
  BY DEF Key, Param
<1>6. /\ DOMAIN command \cap DOMAIN IdValue(hasId) = {}
      /\ DOMAIN command \cap DOMAIN ParamValues(g) = {}
      /\ DOMAIN IdValue(hasId) \cap DOMAIN ParamValues(g) = {}
  BY <1>4, <1>5
<1>7. Over(command, Over(IdValue(hasId), ParamValues(g)))
        = Over(ParamValues(g), Over(IdValue(hasId), command))
  BY <1>6, OverTurned
<1> QED
  BY <1>1, <1>2, <1>3, <1>7 DEF given, command

(* The sub of a command.                                                   *)
LEMMA CommandSubIs ==
  ASSUME NEW spec, NEW entry
  PROVE  LET sub == EmitCommand(spec, entry).sub
             hasId == CommandHasId(spec.schemas, Lookup(spec.schemas, entry[2]))
         IN  /\ sub.form = "command" /\ sub.verb = "post" /\ sub.where = Within(<<>>)
             /\ sub.says = entry[1] /\ sub.slots = IF hasId THEN <<"call_id">> ELSE <<>>
             /\ hasId \in BOOLEAN
<1> DEFINE defs == spec.schemas
           hasId == CommandHasId(defs, Lookup(defs, entry[2]))
           ids == IF hasId THEN <<"call_id">> ELSE <<>>
           where == Within(<<>>)
           plain == Sub("command", "post", where, ids)
           sub == EmitCommand(spec, entry).sub
<1>1. sub = [plain EXCEPT !.says = entry[1]]
  BY DEF EmitCommand
<1>2. hasId \in BOOLEAN
  BY DEF CommandHasId
<1> HIDE DEF where, ids, sub, hasId
<1>3. plain.form = "command" /\ plain.verb = "post" /\ plain.where = where /\ plain.slots = ids
      /\ DOMAIN plain = {"form", "verb", "where", "slots", "sets", "says"}
  BY DEF Sub
<1> HIDE DEF plain
<1>4. sub.form = "command" /\ sub.verb = "post" /\ sub.where = where /\ sub.slots = ids
      /\ sub.says = entry[1]
  BY <1>1, <1>3
<1> QED
  BY <1>2, <1>4 DEF where, ids, sub, hasId

(* A command sends what is intended.                                       *)
LEMMA CommandAgrees ==
  ASSUME NEW spec, NEW entry, NEW class, IsList(class.path),
         NEW S, NEW g \in Seq(S), \A i \in DOMAIN g : g[i] # "request_options", NEW ro \in BOOLEAN
  PROVE  LET hasId == CommandHasId(spec.schemas, Lookup(spec.schemas, entry[2]))
         IN  Agree(Perform(class, EmitCommand(spec, entry).sub,
                           CommandHead(hasId) \o Pairs(g) \o WithOptions(ro)),
                   Intended("post", class.path,
                     Over(ParamValues(g),
                     Over(IdValue(hasId), Only(Key("command"), <<"val", entry[1]>>))), <<>>, ro))
<1> DEFINE hasId == CommandHasId(spec.schemas, Lookup(spec.schemas, entry[2]))
           sub == EmitCommand(spec, entry).sub
           head == CommandHead(hasId)
           pairs == Pairs(g)
           opt == WithOptions(ro)
           body == Over(ParamValues(g),
                   Over(IdValue(hasId), Only(Key("command"), <<"val", entry[1]>>)))
           did == Sends(class, sub, head, AsHash(g), ro)
           should == Intended("post", class.path, body, <<>>, ro)
<1>1. /\ sub.form = "command" /\ sub.verb = "post" /\ sub.where = Within(<<>>)
      /\ sub.says = entry[1] /\ sub.slots = (IF hasId THEN <<"call_id">> ELSE <<>>)
      /\ hasId \in BOOLEAN
  BY CommandSubIs
<1> HIDE DEF hasId, sub
<1>2. Len(sub.slots) = IF hasId THEN 1 ELSE 0
  <2>1. Len(<<>>) = 0 /\ Len(<<"call_id">>) = 1
    OBVIOUS
  <2> QED
    BY <1>1, <2>1
<1>3. IsList(head) /\ Len(head) = Len(sub.slots)
  <2>1. CASE hasId
    <3>1. head = IdAtoms(1) /\ 1 \in Nat
      BY <2>1 DEF CommandHead
    <3> HIDE DEF head
    <3> QED
      BY <1>2, <2>1, <3>1, ArgumentLists
  <2>2. CASE ~hasId
    <3>1. head = None /\ Len(None) = 0
      BY <2>2 DEF CommandHead, None
    <3> HIDE DEF head
    <3> QED
      BY <1>2, <2>2, <3>1, EmptyList
  <2> QED
    BY <1>1, <2>1, <2>2
<1> HIDE DEF head
<1>4. (head \o pairs) \o opt = head \o (pairs \o opt)
  <2>1. IsList(head)
    BY <1>3
  <2>2. IsList(pairs)
    <3>1. Len(g) \in Nat
      OBVIOUS
    <3> QED
      BY <3>1, PairsListed
  <2>3. IsList(opt)
    BY ArgumentLists
  <2> HIDE DEF pairs, opt
  <2> QED
    BY ONLY <2>1, <2>2, <2>3, ListsJoin
<1>5. Perform(class, sub, head \o (pairs \o opt)) = did
  BY <1>3, PerformIs
<1>6. PathOf(sub, head) = None
  <2>1. DOMAIN Within(<<>>).pieces = {}
    BY DEF Within
  <2> HIDE DEF Within
  <2>2. DOMAIN sub.where.pieces = {}
    BY <1>1, <2>1
  <2> QED
    BY <2>2 DEF PathOf, None
<1>7. class.path \o None = class.path
  BY ListAlone
<1>8. CommandBody(sub, head, AsHash(g)) = body
  <2>1. CommandBody(sub, CommandHead(hasId), AsHash(g))
          = Over(ParamValues(g), Over(IdValue(hasId), Only(Key("command"), <<"val", sub.says>>)))
    BY <1>1, <1>2, CommandSends
  <2> QED
    BY <1>1, <2>1 DEF head
<1> HIDE DEF body
<1>9. BodyOf(sub, head, AsHash(g)) = body
  BY <1>1, <1>8 DEF BodyOf
<1>10. sub.where.sibling = FALSE
  BY <1>1 DEF Within
<1>11. /\ did.verb = sub.verb /\ did.ro = OptionsAtom(ro)
       /\ did.path = (IF sub.where.sibling THEN <<>> ELSE class.path) \o PathOf(sub, head)
       /\ did.query = (IF sub.form = "query" THEN AsHash(g) ELSE <<>>)
       /\ did.body = BodyOf(sub, head, AsHash(g))
  BY DEF Sends
<1>12. /\ should.verb = "post" /\ should.ro = OptionsAtom(ro) /\ should.path = class.path
       /\ should.query = <<>> /\ should.body = body
  BY DEF Intended
<1> HIDE DEF did, should
<1>13. Agree(did, should)
  BY <1>1, <1>6, <1>7, <1>9, <1>10, <1>11, <1>12 DEF Agree
<1> QED
  BY <1>4, <1>5, <1>13 DEF hasId, sub, head, pairs, opt, should, body

-----------------------------------------------------------------------------
(* A call of a client, whatever it calls.                                  *)
Unmarked(g) == \A i \in DOMAIN g : g[i] # "request_options"

(* Calling a declared method, for any arguments, emitted or inherited.     *)
LEMMA MethodCalled ==
  ASSUME NEW spec, NEW r, Input(spec, r), MarkupIsSound(spec, r),
         classes[r.markup.name] = ClassOf(spec, r),
         NEW k \in DOMAIN r.markup.methods, r.markup.methods[k][2] \in DOMAIN Ops(spec),
         NEW S, NEW g \in Seq(S), Unmarked(g), NEW ro \in BOOLEAN,
         CallMethod(spec, r, r.markup.methods[k], g, ro)
  PROVE  Agree(call'.did, call'.should)
<1> DEFINE m == r.markup.methods[k]
           o == Ops(spec)[m[2]]
           class == classes[r.markup.name]
           made == EmitResource(spec, r).made
           sub == Method(r.markup.name, m[1])
<1>1. /\ r.markup.kind # "command-dispatch"
      /\ OperationFits(spec, r, o)
      /\ ~IsEmitted(spec, r, m) => InheritedFits(spec, r, m, o)
  <2>1. ResourceFits(spec, r)
    BY DEF Input
  <2> QED
    BY <2>1 DEF ResourceFits
<1>2. /\ o.path \in Seq(Segments)
      /\ o.op.verb \in {"get", "post", "put", "patch", "delete"}
      /\ o.op.hasBody => o.op.verb \in {"post", "put", "patch"}
  BY DEF Input
<1>3. /\ \/ MethodIsMade(spec, r, made, k)
         \/ /\ ~IsEmitted(spec, r, m) /\ m[1] \notin DOMAIN made
            /\ m[1] \in DOMAIN Provides(r.markup.base, r.markup.update)
      /\ EmitResource(spec, r).base = r.markup.base /\ EmitResource(spec, r).update = r.markup.update
      /\ EmitResource(spec, r).path = BasePath(spec, r)
  BY <1>1, ResourceMade
<1>4. /\ class.path = BasePath(spec, r) /\ DOMAIN class.subs = DOMAIN made
      /\ class.base = r.markup.base /\ class.update = r.markup.update
      /\ \A x \in DOMAIN made : class.subs[x] = made[x].sub
  BY <1>3 DEF ClassOf
<1>5. call'.did = Perform(class, sub, Passed(spec, sub, o, g, ro))
      /\ call'.should = Wanted(spec, sub, o, g, ro)
  <2> DEFINE whole == IsWhole(spec, o)
             named == IsNamed(spec, sub, o)
             ids == IdAtoms(Nth(o.path, Len(o.path)))
             list == ids \o (IF whole THEN <<<<"val", "body">>>> ELSE <<>>)
                         \o (IF named THEN Pairs(g) ELSE <<>>) \o WithOptions(ro)
             should == Intended(o.op.verb, ServerPath(spec) \o Filled(o.path),
                         IF whole THEN Only(Whole, <<"val", "body">>)
                         ELSE IF o.op.hasBody THEN AsHash(g) ELSE <<>>,
                         IF ~o.op.hasBody /\ named THEN AsHash(g) ELSE <<>>, ro)
  <2>1. call' = [what |-> "method", did |-> Perform(class, sub, list), should |-> should]
    BY Zenon DEF CallMethod, IsWhole, IsNamed
  <2>2. list = Passed(spec, sub, o, g, ro) /\ should = Wanted(spec, sub, o, g, ro)
    BY Zenon DEF Passed, Wanted
  <2> HIDE DEF list, should, sub, o, class
  <2> QED
    BY <2>1, <2>2
<1>6. CASE MethodIsMade(spec, r, made, k)
  <2>1. sub = EmitMethod(spec, r, o.op, o.path).sub
    <3>1. m[1] \in DOMAIN made /\ made[m[1]] = EmitMethod(spec, r, o.op, o.path)
      BY <1>6 DEF MethodIsMade, MethodOf
    <3>2. sub = class.subs[m[1]]
      BY <1>4, <3>1 DEF Method
    <3> QED
      BY <1>4, <3>1, <3>2
  <2> HIDE DEF o, sub, class
  <2>2. Agree(Perform(class, EmitMethod(spec, r, o.op, o.path).sub,
                      Passed(spec, EmitMethod(spec, r, o.op, o.path).sub, o, g, ro)),
              Wanted(spec, EmitMethod(spec, r, o.op, o.path).sub, o, g, ro))
    BY <1>1, <1>2, <1>4, MethodAgrees DEF Unmarked
  <2> QED
    BY <1>5, <2>1, <2>2
<1>7. CASE ~IsEmitted(spec, r, m) /\ m[1] \notin DOMAIN made
           /\ m[1] \in DOMAIN Provides(r.markup.base, r.markup.update)
  <2>1. sub = Provides(r.markup.base, r.markup.update)[m[1]]
    BY <1>4, <1>7 DEF Method
  <2> HIDE DEF o, sub, class, m
  <2>2. Agree(Perform(class, Provides(r.markup.base, r.markup.update)[m[1]],
                      Passed(spec, Provides(r.markup.base, r.markup.update)[m[1]], o, g, ro)),
              Wanted(spec, Provides(r.markup.base, r.markup.update)[m[1]], o, g, ro))
    BY <1>1, <1>4, <1>7, InheritedAgrees DEF Unmarked
  <2> QED
    BY <1>5, <2>1, <2>2
<1> QED
  BY <1>3, <1>6, <1>7

(* Calling a set method, for any choice of its optional arguments and      *)
(* anything by name.                                                       *)
LEMMA SetCalled ==
  ASSUME NEW spec, NEW r, Input(spec, r), MarkupIsSound(spec, r),
         classes[r.markup.name] = ClassOf(spec, r),
         NEW k \in DOMAIN r.markup.sets, NEW some,
         NEW S, NEW g \in Seq(S), Unmarked(g), NEW ro \in BOOLEAN,
         CallSet(spec, r, r.markup.sets[k], some, g, ro)
  PROVE  Agree(call'.did, call'.should)
<1> DEFINE sm == r.markup.sets[k]
           class == classes[r.markup.name]
           made == EmitResource(spec, r).made
           sub == Method(r.markup.name, sm.name)
<1>1. r.markup.kind # "command-dispatch" /\ ArgsFit(sm)
  <2>1. ResourceFits(spec, r)
    BY DEF Input
  <2> QED
    BY <2>1 DEF ResourceFits
<1>2. sm.args \in Seq(STRING \X STRING \X BOOLEAN)
  BY DEF Input, MarkupShape
<1>3. SetIsMade(spec, r, made, k) /\ EmitResource(spec, r).path = BasePath(spec, r)
  BY <1>1, ResourceMade
<1>4. /\ class.path = BasePath(spec, r) /\ DOMAIN class.subs = DOMAIN made
      /\ \A x \in DOMAIN made : class.subs[x] = made[x].sub
  BY <1>3 DEF ClassOf
<1>5. sub = SetSub(spec, r, sm)
  <2>1. sm.name \in DOMAIN made /\ made[sm.name] = EmitSetMethod(spec, r, sm)
    BY <1>3 DEF SetIsMade
  <2>2. sub = class.subs[sm.name]
    BY <1>4, <2>1 DEF Method
  <2> QED
    BY <1>4, <2>1, <2>2 DEF SetSub
<1>6. /\ call'.did = Perform(class, sub,
                       IdAtoms(1) \o Positional(sm, some) \o Pairs(g) \o WithOptions(ro))
      /\ call'.should = SetIntended(spec, r, sm, some, g, ro)
  BY DEF CallSet
<1> HIDE DEF sub, class, sm
<1>7. Agree(Perform(class, SetSub(spec, r, sm),
                    IdAtoms(1) \o Positional(sm, some) \o Pairs(g) \o WithOptions(ro)),
            SetIntended(spec, r, sm, some, g, ro))
  BY <1>1, <1>2, <1>4, SetAgrees DEF Unmarked
<1> QED
  BY <1>5, <1>6, <1>7

(* Calling a command, for any parameters.                                  *)
LEMMA CommandCalled ==
  ASSUME NEW spec, NEW r, Input(spec, r), classes[r.markup.name] = ClassOf(spec, r),
         NEW k \in DOMAIN r.markup.mapping,
         NEW S, NEW g \in Seq(S), Unmarked(g), NEW ro \in BOOLEAN,
         CallCommand(spec, r, r.markup.mapping[k], g, ro)
  PROVE  Agree(call'.did, call'.should)
<1> DEFINE entry == r.markup.mapping[k]
           class == classes[r.markup.name]
           made == EmitResource(spec, r).made
           sub == Method(r.markup.name, CommandName(entry[1]))
           hasId == CommandHasId(spec.schemas, Lookup(spec.schemas, entry[2]))
           path == IF "call-commands" \in DOMAIN Ops(spec)
                   THEN Ops(spec)["call-commands"].path ELSE r.path
<1>1. r.markup.kind = "command-dispatch"
  <2>1. ResourceFits(spec, r)
    BY DEF Input
  <2>2. r.markup.kind # "command-dispatch" => r.markup.mapping = <<>>
    BY <2>1 DEF ResourceFits
  <2> QED
    BY <2>2
<1>2. CommandIsMade(spec, r, made, k)
  BY <1>1, DispatchMade
<1>3. EmitResource(spec, r).path = ServerPath(spec) \o path
  BY <1>1 DEF EmitResource, EmitCommandDispatch
<1>4. path \in Seq(Segments) /\ ServerPath(spec) \in Seq(Segments)
  BY DEF Input
<1>5. IsList(ServerPath(spec) \o path)
  <2> DEFINE whole == ServerPath(spec) \o path
  <2> HIDE DEF path
  <2>1. whole \in Seq(Segments)
    BY <1>4
  <2> QED
    BY ONLY <2>1, SeqIsList
<1>6. /\ class.path = ServerPath(spec) \o path /\ DOMAIN class.subs = DOMAIN made
      /\ \A x \in DOMAIN made : class.subs[x] = made[x].sub
  BY <1>3 DEF ClassOf
<1>7. sub = EmitCommand(spec, entry).sub
  <2>1. CommandName(entry[1]) \in DOMAIN made /\ made[CommandName(entry[1])] = EmitCommand(spec, entry)
    BY <1>2 DEF CommandIsMade
  <2>2. sub = class.subs[CommandName(entry[1])]
    BY <1>6, <2>1 DEF Method
  <2> QED
    BY <1>6, <2>1, <2>2
<1>8. /\ call'.did = Perform(class, sub, CommandHead(hasId) \o Pairs(g) \o WithOptions(ro))
      /\ call'.should = Intended("post", ServerPath(spec) \o path,
           Over(ParamValues(g),
           Over(IdValue(hasId), Only(Key("command"), <<"val", entry[1]>>))), <<>>, ro)
  <2> DEFINE did == Perform(class, sub, CommandHead(hasId) \o Pairs(g) \o WithOptions(ro))
             should == Intended("post", ServerPath(spec) \o path,
               Over(ParamValues(g),
               Over(IdValue(hasId), Only(Key("command"), <<"val", entry[1]>>))), <<>>, ro)
  <2>1. call' = [what |-> "command", did |-> did, should |-> should]
    BY Zenon DEF CallCommand, CommandHead, ParamValues, IdValue
  <2> HIDE DEF did, should
  <2>2. call'.did = did /\ call'.should = should
    BY <2>1
  <2> QED
    BY <2>2 DEF did, should
<1> HIDE DEF class, sub, path
<1>9. IsList(class.path)
  BY <1>5, <1>6
<1>10. Agree(Perform(class, EmitCommand(spec, entry).sub,
                     CommandHead(hasId) \o Pairs(g) \o WithOptions(ro)),
             Intended("post", class.path,
               Over(ParamValues(g),
               Over(IdValue(hasId), Only(Key("command"), <<"val", entry[1]>>))), <<>>, ro))
  <2>1. Unmarked(g)
    OBVIOUS
  <2> QED
    BY <1>9, <2>1, CommandAgrees DEF Unmarked
<1> QED
  BY <1>6, <1>7, <1>8, <1>10

(* Whatever a client calls once the build has ended, but a set method by   *)
(* name.                                                                   *)
LEMMA CallsAgree ==
  ASSUME BuildInv, CallSomething
  PROVE  call'.what # "named_set" => Agree(call'.did, call'.should)
<1>1. stage = "built"
  BY DEF CallSomething
<1>2. /\ docs \in Documents
      /\ \A i \in DOMAIN AllResources(docs) :
           SoundAt(docs, i) /\ classes[NameAt(docs, i)] = ClassAt(docs, i)
  BY <1>1, BuiltIs
<1>3. PICK i \in DOMAIN AllResources(docs), ro \in BOOLEAN,
           given \in {<<>>, <<"one">>, <<"one", "two">>} :
        LET spec == AllResources(docs)[i][1]
            r == AllResources(docs)[i][2]
            m == r.markup
        IN  \/ \E k \in DOMAIN m.methods :
                 /\ m.methods[k][2] \in DOMAIN Ops(spec)
                 /\ Can(m.name, m.methods[k][1])
                 /\ CallMethod(spec, r, m.methods[k], given, ro)
            \/ \E k \in DOMAIN m.sets : \E some \in SUBSET Optionals(m.sets[k]) :
                 \/ CallSet(spec, r, m.sets[k], some, given, ro)
                 \/ CallSetNamed(spec, r, m.sets[k], some)
            \/ \E k \in DOMAIN m.mapping : CallCommand(spec, r, m.mapping[k], given, ro)
  BY Zenon DEF CallSomething
<1> DEFINE spec == AllResources(docs)[i][1]
           r == AllResources(docs)[i][2]
           m == r.markup
           S == {"one", "two"}
<1>4. Input(spec, r)
  BY <1>2, <1>3, InputOf
<1>5. MarkupIsSound(spec, r) /\ classes[m.name] = ClassOf(spec, r)
  BY <1>2, <1>3 DEF SoundAt, NameAt, ClassAt
<1>6. given \in Seq(S) /\ Unmarked(given)
  <2>1. <<>> \in Seq(S) /\ <<"one">> \in Seq(S) /\ <<"one", "two">> \in Seq(S)
    OBVIOUS
  <2>2. Unmarked(<<>>) /\ Unmarked(<<"one">>) /\ Unmarked(<<"one", "two">>)
    BY DEF Unmarked
  <2> QED
    BY <1>3, <2>1, <2>2
<1>7. ro \in BOOLEAN
  BY <1>3
<1>8. \/ \E k \in DOMAIN m.methods : /\ m.methods[k][2] \in DOMAIN Ops(spec)
                                     /\ CallMethod(spec, r, m.methods[k], given, ro)
      \/ \E k \in DOMAIN m.sets : \E some \in SUBSET Optionals(m.sets[k]) :
           \/ CallSet(spec, r, m.sets[k], some, given, ro)
           \/ CallSetNamed(spec, r, m.sets[k], some)
      \/ \E k \in DOMAIN m.mapping : CallCommand(spec, r, m.mapping[k], given, ro)
  BY <1>3, Zenon
<1> HIDE DEF spec, r, S
<1>9. ASSUME NEW k \in DOMAIN m.methods, m.methods[k][2] \in DOMAIN Ops(spec),
             CallMethod(spec, r, m.methods[k], given, ro)
      PROVE  Agree(call'.did, call'.should)
  BY <1>4, <1>5, <1>6, <1>7, <1>9, MethodCalled
<1>10. ASSUME NEW k \in DOMAIN m.sets, NEW some, CallSet(spec, r, m.sets[k], some, given, ro)
       PROVE  Agree(call'.did, call'.should)
  BY <1>4, <1>5, <1>6, <1>7, <1>10, SetCalled
<1>11. ASSUME NEW k \in DOMAIN m.mapping, CallCommand(spec, r, m.mapping[k], given, ro)
       PROVE  Agree(call'.did, call'.should)
  BY <1>4, <1>5, <1>6, <1>7, <1>11, CommandCalled
<1>12. ASSUME NEW k \in DOMAIN m.sets, NEW some, CallSetNamed(spec, r, m.sets[k], some)
       PROVE  call'.what = "named_set"
  BY <1>12 DEF CallSetNamed
<1> QED
  BY <1>8, <1>9, <1>10, <1>11, <1>12

\* What a call sends is what it should send, but for a set method called by
\* argument name.
CallInv == BuildInv /\ (Faithful => Agree(call.did, call.should))

(* Each step keeps CallInv: only a call changes what was sent.             *)
LEMMA CallsGoOn == CallInv /\ [BuildNext]_buildVars => CallInv'
<1> SUFFICES ASSUME CallInv, [BuildNext]_buildVars PROVE CallInv'
  OBVIOUS
<1>1. BuildInv'
  BY BuildGoesOn DEF CallInv
<1>2. CASE CallSomething
  <2>1. call'.what # "named_set" => Agree(call'.did, call'.should)
    BY <1>2, CallsAgree DEF CallInv
  <2>2. Faithful' => call'.what # "named_set"
    BY DEF Faithful
  <2> QED
    BY <1>1, <2>1, <2>2 DEF CallInv
<1>3. CASE UNCHANGED call
  BY <1>1, <1>3 DEF CallInv, Faithful
<1>4. LoadBases \/ Discover \/ EmitOne \/ PlaceAll \/ UNCHANGED buildVars => UNCHANGED call
  BY DEF LoadBases, Discover, EmitOne, PlaceAll, buildVars
<1> QED
  BY <1>2, <1>3, <1>4 DEF BuildNext

(* CallInv holds before anything is called.                                *)
LEMMA CallsStart == BuildInit => CallInv
BY BuildStarts DEF CallInv, Faithful, BuildInit

(* For any documents the assumptions admit, a call of a declared method,   *)
(* of a set method or of a command has the verb of its operation and its   *)
(* path, the ids in the places and in the order of the path's parameters,  *)
(* emitted or inherited, below the base path of its resource or not.       *)
THEOREM PathCorrect == BuildSpec => []PathFaithful
<1>1. CallInv => PathFaithful
  BY DEF CallInv, PathFaithful, Agree
<1> QED
  BY <1>1, CallsStart, CallsGoOn, PTL DEF BuildSpec

(* For the same documents and calls, the body and the query hold what the  *)
(* caller named and nothing else, and request_options reach the transport  *)
(* and are never part of what is sent.                                     *)
THEOREM PayloadCorrect == BuildSpec => []PayloadFaithful
<1>1. CallInv => PayloadFaithful
  BY DEF CallInv, PayloadFaithful, Agree
<1> QED
  BY <1>1, CallsStart, CallsGoOn, PTL DEF BuildSpec

-----------------------------------------------------------------------------
(* The fields of a generated class.                                        *)
Attributes(props) ==
  UNION {{Suffixed(PerlAttrName(props[i][1]), Pad, k) : k \in 0..Len(props)} : i \in DOMAIN props}

(* For any properties of a schema, hidden by the overlay or not: the class *)
(* has a field for each property that is not hidden, and no two fields     *)
(* have one reader, provided that no attribute is called get_ and a name   *)
(* Moo reserves.                                                           *)
THEOREM FieldsCorrect ==
  ASSUME NEW S, NEW props \in Seq(STRING \X S), NEW schemaName, NEW hiding \in BOOLEAN,
         \A i \in DOMAIN props : \A a, b \in 0..Len(props) :
           Suffixed(PerlAttrName(props[i][1]), Pad, a) = Suffixed(PerlAttrName(props[i][1]), Pad, b)
             => a = b,
         \A x, y \in Attributes(props) : Reader(x) = Reader(y) => x = y
  PROVE  /\ ReadersApart(EmitFields(props, schemaName, hiding))
         /\ Covers(EmitFields(props, schemaName, hiding),
                   {k \in Keys(props) : ~hiding \/ ~Overlaid(Hidden, k, schemaName)})
<1> DEFINE Shows(k) == ~hiding \/ ~Overlaid(Hidden, k, schemaName)
           I == {i \in DOMAIN props : Shows(props[i][1])}
           shown == Picked(props, I)
           n == Cardinality(I)
           names == [i \in DOMAIN shown |-> PerlAttrName(shown[i][1])]
           attr == InTurn(names, Pad)
           fields == EmitFields(props, schemaName, hiding)
<1>1. I \in SUBSET DOMAIN props /\ DOMAIN props = 1..Len(props) /\ Len(props) \in Nat
  OBVIOUS
<1>2. /\ DOMAIN fields = DOMAIN shown
      /\ \A i \in DOMAIN shown : fields[i].key = shown[i][1] /\ fields[i].reader = Reader(attr[i])
  BY DEF EmitFields
<1>3. \A i \in DOMAIN props : i \in I <=> Shows(props[i][1])
  OBVIOUS
<1>4. n \in Nat /\ n <= Len(props)
  <2> HIDE DEF I
  <2>1. IsFiniteSet(1..Len(props)) /\ Cardinality(1..Len(props)) = Len(props)
    BY <1>1, FS_Interval
  <2>2. I \subseteq 1..Len(props)
    BY <1>1
  <2> DEFINE T == 1..Len(props)
  <2> HIDE DEF T
  <2>3. IsFiniteSet(I) /\ Cardinality(I) <= Cardinality(T)
    BY <2>1, <2>2, FS_Subset DEF T
  <2>4. Cardinality(I) \in Nat
    BY <2>3, FS_CardinalityType
  <2> QED
    BY <2>1, <2>3, <2>4 DEF T
<1> HIDE DEF I, fields
<1>5. /\ DOMAIN shown = 1..n
      /\ \A k \in 1..n : Place(I, k) \in I /\ shown[k] = props[Place(I, k)]
      /\ \A i \in I : Rank(I, i) \in 1..n /\ shown[Rank(I, i)] = props[i]
  BY <1>1, PickedEntries
<1> HIDE DEF shown
<1>6. DOMAIN names = 1..n /\ \A i \in 1..n : names[i] = PerlAttrName(shown[i][1])
  BY <1>5
<1>7. \A i \in 1..n : \E x \in DOMAIN props : names[i] = PerlAttrName(props[x][1])
  BY <1>1, <1>5, <1>6
<1> HIDE DEF names, n
<1>8. \A i \in 1..n : \A a, b \in 0..Len(props) :
        Suffixed(names[i], Pad, a) = Suffixed(names[i], Pad, b) => a = b
  BY <1>7
<1>9. /\ \A i, j \in 1..n : attr[i] = attr[j] => i = j
      /\ \A i \in 1..n : \E k \in 0..Len(props) : attr[i] = Suffixed(names[i], Pad, k)
  <2> HIDE DEF attr
  <2>1. SuffixesApart(names, Pad, n, Len(props))
    BY <1>8 DEF SuffixesApart
  <2>2. GivenApart(attr, names, Pad, n, Len(props))
    BY <1>1, <1>4, <1>6, <2>1, InTurnApart DEF attr
  <2> QED
    BY <2>2 DEF GivenApart
<1> HIDE DEF attr
<1>10. \A i \in 1..n : attr[i] \in Attributes(props)
  BY <1>7, <1>9 DEF Attributes
<1>11. \A i, j \in 1..n : Reader(attr[i]) = Reader(attr[j]) => i = j
  BY <1>9, <1>10
<1>12. ReadersApart(fields)
  BY <1>2, <1>5, <1>11 DEF ReadersApart
<1>13. {fields[i].key : i \in DOMAIN fields} = {k \in Keys(props) : Shows(k)}
  <2> HIDE DEF Shows
  <2>1. ASSUME NEW i \in 1..n PROVE fields[i].key \in Keys(props) /\ Shows(fields[i].key)
    <3>1. Place(I, i) \in I /\ fields[i].key = props[Place(I, i)][1]
      BY <1>2, <1>5
    <3>2. Place(I, i) \in DOMAIN props /\ Shows(props[Place(I, i)][1])
      BY <1>1, <1>3, <3>1
    <3>3. props[Place(I, i)][1] \in Keys(props)
      BY <3>2 DEF Keys
    <3> QED
      BY <3>1, <3>2, <3>3
  <2>2. ASSUME NEW i \in DOMAIN props, Shows(props[i][1])
        PROVE  \E x \in 1..n : fields[x].key = props[i][1]
    <3>1. i \in I /\ Rank(I, i) \in 1..n /\ shown[Rank(I, i)] = props[i]
      BY <1>3, <1>5, <2>2
    <3> QED
      BY <1>2, <1>5, <3>1
  <2>3. DOMAIN fields = 1..n
    BY <1>2, <1>5
  <2>4. \A k \in Keys(props) : \E i \in DOMAIN props : k = props[i][1]
    BY DEF Keys
  <2> DEFINE have == {fields[i].key : i \in DOMAIN fields}
             want == {k \in Keys(props) : Shows(k)}
  <2>5. \A k \in have : \E i \in 1..n : k = fields[i].key
    BY <2>3
  <2>6. \A i \in 1..n : fields[i].key \in have
    BY <2>3
  <2> HIDE DEF have, fields, Shows
  <2>7. \A k : k \in want <=> k \in Keys(props) /\ Shows(k)
    OBVIOUS
  <2> HIDE DEF want
  <2>8. ASSUME NEW k \in have PROVE k \in want
    <3>1. PICK i \in 1..n : k = fields[i].key
      BY <2>5, <2>8
    <3> QED
      BY <2>1, <2>7, <3>1
  <2>9. ASSUME NEW k \in want PROVE k \in have
    <3>1. k \in Keys(props) /\ Shows(k)
      BY <2>7, <2>9
    <3>2. PICK i \in DOMAIN props : k = props[i][1]
      BY <2>4, <3>1
    <3>3. \E x \in 1..n : fields[x].key = props[i][1]
      BY <2>2, <3>1, <3>2
    <3> QED
      BY <2>6, <3>2, <3>3
  <2>10. have = want
    BY <2>8, <2>9
  <2> QED
    BY <2>10 DEF have, want
<1> QED
  BY <1>12, <1>13 DEF fields, Covers
=============================================================================
