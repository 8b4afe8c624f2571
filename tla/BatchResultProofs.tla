------------------------- MODULE BatchResultProofs -------------------------
(***************************************************************************)
(* Proofs about BatchResult for any number of requests, prompts of any     *)
(* number of chunks, runs of any length, with and without the overlap      *)
(* scheduler and grammars, and any number of retractions.  The invariant   *)
(* comes in two layers: which results name which request, and on top of    *)
(* it what the tokens in them are.                                         *)
(***************************************************************************)
EXTENDS BatchResult, FiniteSetTheorems, SequenceTheorems, WellFoundedInduction, TLAPS

Tokens == (0 .. NReqs) \X Int
ReqStates ==
  [out : Seq(Tokens), inflight : Nat, finished : BOOLEAN, finLen : Nat \cup {None},
   toFinish : BOOLEAN, retracted : BOOLEAN, committed : Nat, fsm : Nat, kv : Int,
   aux : Int]
Results ==
  [kind : {"extend", "decode"}, reqs : Seq(Reqs), mixed : SUBSET Reqs,
   tokens : Seq(Tokens), accept : Seq(Nat), stride : Nat, middle : SUBSET Reqs,
   base : [Reqs -> Nat], copied : BOOLEAN, bad : BOOLEAN, advanced : BOOLEAN,
   retained : Seq(Seq(Tokens)), hasGrammar : BOOLEAN]
Types ==
  /\ mode \in Modes /\ req \in [Reqs -> ReqStates] /\ queue \in Seq(Results)
  /\ phase \in {"plan", "retract", "verify", "process"}
  /\ launched \in [Reqs -> Nat] /\ gen \in [Reqs -> Nat]
  /\ fault \in BOOLEAN /\ raised \in {"no", "roce", "grammar", "backwards"}
  /\ retracts \in 0 .. MaxRetracts

\* A batch names a request once; the run of each is where the stride says, and
\* consists of its tokens from base on, unless the chunk is a middle one.
Shape(res) ==
  /\ \A i, j \in 1 .. Len(res.reqs) : res.reqs[i] = res.reqs[j] => i = j
  /\ Len(res.accept) = Len(res.reqs) /\ Len(res.tokens) = Len(res.reqs) * res.stride
  /\ \A i \in 1 .. Len(res.reqs) :
       /\ res.accept[i] \in 1 .. res.stride
       /\ \A j \in 1 .. res.accept[i] :
            res.tokens[(i - 1) * res.stride + j] =
              IF res.reqs[i] \in res.middle THEN Junk
              ELSE <<res.reqs[i], res.base[res.reqs[i]] + j>>
  /\ \A r \in res.middle \cup res.mixed : Contains(res.reqs, r)
  /\ res.middle \cap res.mixed = {}
  /\ res.kind = "decode" => res.middle = {} /\ res.mixed = {}
  /\ res.kind = "extend" => res.stride = 1
  /\ res.hasGrammar <=> Carried /\ HasGrammar(res.reqs)
  /\ res.advanced => Len(res.retained) = Len(res.reqs)

\* The i-th result of the queue names r, as a middle chunk or with a run.
Names(i, r) == i <= Len(queue) /\ Contains(queue[i].reqs, r)
Middle(i, r) == i <= Len(queue) /\ r \in queue[i].middle
Emits(i, r) == Names(i, r) /\ ~Middle(i, r)

\* How long the queue is in each phase of the scheduler loop.
Phased == /\ Len(queue) \in 0 .. 2
          /\ phase \in {"plan", "retract"} => Len(queue) \in 0 .. 1
          /\ phase \in {"verify", "process"} => Len(queue) \in 1 .. 2

\* A retracted request is named by no result launched after its retraction.
Drained(r) == req[r].retracted =>
  /\ ~Middle(1, r) /\ ~Names(2, r)
  /\ Names(1, r) => phase \in {"retract", "process"} \/ (phase = "verify" /\ Len(queue) = 2)

\* Where the prompt of r is: what the results in the queue say of it.
Prompted(r) ==
  /\ launched[r] <= Chunks[r]
  /\ req[r].retracted => launched[r] = Chunks[r] - 1 /\ ~req[r].finished
  /\ Middle(2, r) => launched[r] < Chunks[r]
  /\ Middle(1, r) /\ Len(queue) = 1 => launched[r] < Chunks[r]
  /\ Emits(1, r) => ~Middle(2, r)
  /\ \A i \in 1 .. 2 : Emits(i, r) /\ ~req[r].retracted => launched[r] = Chunks[r]
  /\ launched[r] = 0 /\ ~req[r].retracted => ~Names(1, r) /\ ~Names(2, r)
  /\ Emits(1, r) /\ Names(2, r) /\ queue[2].kind = "extend" => r \in queue[2].mixed

Count(b) == IF b THEN 1 ELSE 0
Balanced(r) ==
  /\ req[r].kv = IF req[r].finished \/ req[r].retracted \/ launched[r] = 0 THEN 0 ELSE 1
  /\ req[r].inflight = Count(Middle(1, r)) + Count(Middle(2, r))

Frame == /\ Types /\ Phased /\ \A i \in 1 .. Len(queue) : Shape(queue[i])
         /\ \A r \in Reqs : Drained(r) /\ Prompted(r) /\ Balanced(r)

-----------------------------------------------------------------------------
(* The tokens.                                                             *)

\* The run of the i-th request, once the device has finished and all is well.
Run(res, i) == SubSeq(res.tokens, (i - 1) * res.stride + 1,
                      (i - 1) * res.stride + res.accept[i])

\* How many tokens of r the i-th result brings.
Brings(i, r) == IF Emits(i, r) THEN queue[i].accept[Position(queue[i], r)] ELSE 0

\* The results in the queue continue the output where it ends.
Continues(r) ==
  /\ \A k \in 1 .. Len(req[r].out) : req[r].out[k] = <<r, k>>
  /\ req[r].retracted => gen[r] = Len(req[r].out)
  /\ ~Ended(req[r]) =>
       /\ Emits(1, r) => queue[1].base[r] = Len(req[r].out)
       /\ Emits(2, r) => queue[2].base[r] = Len(req[r].out) + Brings(1, r)
       /\ gen[r] = Len(req[r].out) + Brings(1, r) + Brings(2, r)

\* An unfinished request has not reached its limit; the observer has been given
\* what is visible.
Limited(r) ==
  /\ ~req[r].finished => req[r].finLen = None /\ Len(req[r].out) < Limit[r]
  /\ req[r].finLen \in {None, Limit[r]} /\ req[r].aux = Visible(req[r])
  /\ r \in Grammar => Len(req[r].out) <= Limit[r]

\* Only the head of the queue is advanced, by the barrier of the next.
Advancing ==
  /\ \A i \in 1 .. Len(queue) :
       queue[i].advanced => i = 1 /\ phase = "process" /\ Len(queue) = 2
  /\ \A i \in 1 .. Len(queue) : queue[i].bad => fault

\* What was retained of the head is the accepted prefix of its run.
Retained(r) == Len(queue) >= 1 /\ queue[1].advanced /\ r \in Grammar /\ ~Ended(req[r])
               /\ Emits(1, r) =>
  LET run == Run(queue[1], Position(queue[1], r)) IN
  /\ queue[1].retained[Position(queue[1], r)] = Retain(r, run)
  /\ Illegal(r, run) => req[r].toFinish

\* Tokens of the head that the grammar has accepted and the output has not.
Ahead(r) == IF Len(queue) >= 1 /\ queue[1].advanced /\ Emits(1, r) /\ ~Ended(req[r])
            THEN Len(queue[1].retained[Position(queue[1], r)]) ELSE 0
Fsm(r) == r \in Grammar /\ ~req[r].finished /\ ~req[r].toFinish =>
            req[r].fsm = Len(req[r].out) + Ahead(r)

\* Where the flag is carried, every verify with a grammar has passed the barrier.
Masked(r) ==
  Carried /\ Len(queue) = 2 /\ phase = "process" /\ r \in Grammar
  /\ queue[2].kind = "decode" /\ Emits(1, r) /\ Emits(2, r) /\ ~Ended(req[r]) => queue[1].advanced

Prefill(i, r) == Names(i, r) /\ queue[i].kind = "extend" /\ r \notin queue[i].mixed
Committed(r) ==
  /\ Middle(1, r) => launched[r] < Chunks[r] \/ Prefill(2, r)
  /\ Running(r) =>
       req[r].committed = Chunks[r] + Len(req[r].out)
                          - (IF Prefill(1, r) \/ Prefill(2, r) THEN 0 ELSE 1)

Content == /\ Advancing /\ NoAlarm
           /\ \A r \in Reqs : /\ Continues(r) /\ Limited(r) /\ Retained(r) /\ Fsm(r)
                              /\ Masked(r) /\ Committed(r)

IInv == Frame /\ Content

-----------------------------------------------------------------------------
(* Numbers, sets and sequences.                                            *)

\* A set of numbers has a least element.
LEMMA MinOf ==
  ASSUME NEW S \in SUBSET Nat, S # {}
  PROVE  Min(S) \in S /\ \A x \in S : Min(S) <= x
<1>1. PICK x \in S : \A y \in S : ~ (<<y, x>> \in OpToRel(<, Nat))
  BY NatLessThanWellFounded, WFMin
<1>2. \A y \in S : ~ (y < x)  BY <1>1 DEF OpToRel
<1>3. \A y \in S : x <= y  BY <1>2
<1> QED  BY <1>3 DEF Min

\* The a-th token of the i-th of n runs, each padded to the stride s, is among
\* the tokens; its run and its place in it are found by division.
LEMMA InPlace ==
  ASSUME NEW s \in Nat \ {0}, NEW n \in Nat, NEW i \in 1 .. n, NEW a \in 1 .. s
  PROVE  (i - 1) * s + a \in 1 .. n * s
<1>1. (i - 1) * s \in Nat /\ (n - i) * s \in Nat  OBVIOUS
<1>2. n * s = (i - 1) * s + s + (n - i) * s  OBVIOUS
<1> QED  BY <1>1, <1>2

LEMMA Strides ==
  ASSUME NEW s \in Nat \ {0}, NEW i \in Nat \ {0}, NEW a \in 1 .. s
  PROVE  /\ ((i - 1) * s + a - 1) \div s = i - 1
         /\ ((i - 1) * s + a - 1) % s = a - 1
<1> DEFINE x == (i - 1) * s + a - 1
           q == x \div s
           m == x % s
<1>1. (i - 1) * s \in Nat  OBVIOUS
<1>2. x \in Nat  BY <1>1
<1>3. q \in Int /\ m \in 0 .. s - 1 /\ x = s * q + m  BY <1>2
<1>4. x = s * (i - 1) + (a - 1)  OBVIOUS
<1> HIDE DEF x, q, m
<1>5. s * (i - 1 - q) = m - (a - 1)  BY <1>2, <1>3, <1>4
<1>6. i - 1 - q >= 1 => s * (i - 1 - q) >= s  BY <1>3
<1>7. i - 1 - q <= -1 => s * (i - 1 - q) <= -s  BY <1>3
<1>8. q = i - 1  BY <1>3, <1>5, <1>6, <1>7
<1>9. m = a - 1  BY <1>3, <1>4, <1>8
<1> QED  BY <1>8, <1>9 DEF x, q, m

\* A finite set as a sequence.
LEMMA Enumerated ==
  ASSUME NEW S, IsFiniteSet(S)
  PROVE  /\ SetToSeq(S) \in Seq(S)
         /\ \A i, j \in 1 .. Len(SetToSeq(S)) : SetToSeq(S)[i] = SetToSeq(S)[j] => i = j
         /\ \A x : Contains(SetToSeq(S), x) <=> x \in S
<1> DEFINE n == Cardinality(S)
<1>1. n \in Nat /\ ExistsBijection(1 .. n, S)  BY FS_CardinalityType
<1>2. PICK f \in [1 .. n -> S] : IsInjective(f)
  BY <1>1 DEF ExistsBijection, Bijection, Injection
<1>3. SetToSeq(S) \in [1 .. n -> S] /\ IsInjective(SetToSeq(S))
  BY <1>2 DEF SetToSeq
<1>4. SetToSeq(S) \in Surjection(1 .. n, S)
  <2>1. IsFiniteSet(1 .. n) /\ Cardinality(1 .. n) = n  BY <1>1, FS_Interval
  <2>2. SetToSeq(S) \in Injection(1 .. n, S)  BY <1>3 DEF Injection
  <2> QED  BY <2>1, <2>2, FS_Injection
<1>5. SetToSeq(S) \in Seq(S) /\ Len(SetToSeq(S)) = n  BY <1>1, <1>3
<1> HIDE DEF n
<1>6. \A x \in S : \E i \in 1 .. n : SetToSeq(S)[i] = x  BY <1>4 DEF Surjection
<1>7. \A i \in 1 .. n : SetToSeq(S)[i] \in S  BY <1>3
<1> QED  BY <1>3, <1>5, <1>6, <1>7 DEF IsInjective, Contains

\* Two sets one after the other.
LEMMA EnumeratedBoth ==
  ASSUME NEW S, IsFiniteSet(S), NEW T, IsFiniteSet(T), S \cap T = {}
  PROVE  LET s == SetToSeq(S) \o SetToSeq(T) IN
         /\ s \in Seq(S \cup T)
         /\ \A i, j \in 1 .. Len(s) : s[i] = s[j] => i = j
         /\ \A x : Contains(s, x) <=> x \in S \cup T
<1> DEFINE a == SetToSeq(S)
           b == SetToSeq(T)
           s == a \o b
<1>1. /\ a \in Seq(S) /\ \A x : Contains(a, x) <=> x \in S
      /\ \A i, j \in 1 .. Len(a) : a[i] = a[j] => i = j
      /\ b \in Seq(T) /\ \A x : Contains(b, x) <=> x \in T
      /\ \A i, j \in 1 .. Len(b) : b[i] = b[j] => i = j
  BY Enumerated
<1> HIDE DEF a, b
<1>2. a \in Seq(S \cup T) /\ b \in Seq(S \cup T) /\ Len(a) \in Nat /\ Len(b) \in Nat
  BY <1>1
<1>3. /\ s \in Seq(S \cup T) /\ Len(s) = Len(a) + Len(b)
      /\ \A i \in 1 .. Len(s) : s[i] = IF i <= Len(a) THEN a[i] ELSE b[i - Len(a)]
  BY <1>2, ConcatProperties
<1>4. /\ \A i \in 1 .. Len(a) : a[i] \in S
      /\ \A i \in 1 .. Len(b) : b[i] \in T
  BY <1>1
<1> HIDE DEF s
<1>5. ASSUME NEW i \in 1 .. Len(s), NEW j \in 1 .. Len(s), s[i] = s[j]
      PROVE  i = j
  <2>1. CASE i <= Len(a) /\ j <= Len(a)  BY <1>1, <1>2, <1>3, <1>5, <2>1
  <2>2. CASE i > Len(a) /\ j > Len(a)
    <3>1. i - Len(a) \in 1 .. Len(b) /\ j - Len(a) \in 1 .. Len(b)
      BY <1>2, <1>3, <2>2
    <3>2. i - Len(a) = j - Len(a)  BY <1>1, <1>2, <1>3, <1>5, <2>2, <3>1
    <3> QED  BY <1>2, <3>2
  <2>3. CASE i <= Len(a) /\ j > Len(a)
    <3>1. i \in 1 .. Len(a) /\ j - Len(a) \in 1 .. Len(b)  BY <1>2, <1>3, <2>3
    <3>2. s[i] \in S /\ s[j] \in T  BY <1>2, <1>3, <1>4, <2>3, <3>1
    <3> QED  BY <1>5, <3>2
  <2>4. CASE i > Len(a) /\ j <= Len(a)
    <3>1. j \in 1 .. Len(a) /\ i - Len(a) \in 1 .. Len(b)  BY <1>2, <1>3, <2>4
    <3>2. s[j] \in S /\ s[i] \in T  BY <1>2, <1>3, <1>4, <2>4, <3>1
    <3> QED  BY <1>5, <3>2
  <2> QED  BY <1>2, <2>1, <2>2, <2>3, <2>4
<1>6. ASSUME NEW x  PROVE Contains(s, x) <=> x \in S \cup T
  <2>1. ASSUME Contains(s, x)  PROVE x \in S \cup T
    <3>1. PICK i \in 1 .. Len(s) : s[i] = x  BY <2>1 DEF Contains
    <3> QED  BY <1>3, <3>1
  <2>2. ASSUME x \in S  PROVE Contains(s, x)
    <3>1. PICK i \in 1 .. Len(a) : a[i] = x  BY <1>1, <2>2 DEF Contains
    <3>2. i \in 1 .. Len(s) /\ s[i] = x  BY <1>2, <1>3, <3>1
    <3> QED  BY <3>2 DEF Contains
  <2>3. ASSUME x \in T  PROVE Contains(s, x)
    <3>1. PICK i \in 1 .. Len(b) : b[i] = x  BY <1>1, <2>3 DEF Contains
    <3>2. i + Len(a) \in 1 .. Len(s) /\ ~(i + Len(a) <= Len(a)) /\ i + Len(a) - Len(a) = i
      BY <1>2, <1>3, <3>1
    <3>3. s[i + Len(a)] = x  BY <1>3, <3>1, <3>2
    <3> QED  BY <3>2, <3>3 DEF Contains
  <2> QED  BY <2>1, <2>2, <2>3
<1> QED  BY <1>3, <1>5, <1>6 DEF s, a, b

LEMMA SomeReqs == ASSUME NEW S \in SUBSET Reqs  PROVE IsFiniteSet(S)
<1>1. IsFiniteSet(Reqs)  BY FS_Interval, BatchAssumption DEF Reqs
<1> QED  BY <1>1, FS_Subset

-----------------------------------------------------------------------------
(* The queue.                                                              *)

LEMMA Appended ==
  ASSUME queue \in Seq(Results), Len(queue) \in 0 .. 1, NEW res \in Results,
         queue' = Append(queue, res)
  PROVE  /\ queue' \in Seq(Results) /\ Len(queue') = Len(queue) + 1
         /\ \A i \in 1 .. Len(queue) : queue'[i] = queue[i]
         /\ queue'[Len(queue) + 1] = res
         /\ \A r : Len(queue) = 0 =>
              /\ Names(1, r)' <=> Contains(res.reqs, r)
              /\ Middle(1, r)' <=> r \in res.middle
              /\ ~Names(2, r)' /\ ~Middle(2, r)' /\ ~Names(1, r) /\ ~Middle(1, r)
         /\ \A r : Len(queue) = 1 =>
              /\ Names(1, r)' <=> Names(1, r)
              /\ Middle(1, r)' <=> Middle(1, r)
              /\ Names(2, r)' <=> Contains(res.reqs, r)
              /\ Middle(2, r)' <=> r \in res.middle
         /\ \A r : ~Names(2, r) /\ ~Middle(2, r)
<1>1. /\ queue' \in Seq(Results) /\ Len(queue') = Len(queue) + 1
      /\ \A i \in 1 .. Len(queue) : queue'[i] = queue[i]
      /\ queue'[Len(queue) + 1] = res
  BY AppendProperties
<1>3. ASSUME NEW r, Len(queue) = 0
      PROVE  /\ Names(1, r)' <=> Contains(res.reqs, r)
             /\ Middle(1, r)' <=> r \in res.middle
             /\ ~Names(2, r)' /\ ~Middle(2, r)' /\ ~Names(1, r) /\ ~Middle(1, r)
  <2>1. queue'[1] = res /\ Len(queue') = 1  BY <1>1, <1>3
  <2> QED  BY <1>3, <2>1 DEF Names, Middle
<1>4. ASSUME NEW r, Len(queue) = 1
      PROVE  /\ Names(1, r)' <=> Names(1, r)
             /\ Middle(1, r)' <=> Middle(1, r)
             /\ Names(2, r)' <=> Contains(res.reqs, r)
             /\ Middle(2, r)' <=> r \in res.middle
  <2>1. queue'[1] = queue[1] /\ queue'[2] = res /\ Len(queue') = 2  BY <1>1, <1>4
  <2> QED  BY <1>4, <2>1 DEF Names, Middle
<1>5. \A r : ~Names(2, r) /\ ~Middle(2, r)  BY DEF Names, Middle
<1> QED  BY <1>1, <1>3, <1>4, <1>5

LEMMA Popped ==
  ASSUME queue \in Seq(Results), Len(queue) \in 1 .. 2, queue' = Tail(queue)
  PROVE  /\ queue' \in Seq(Results) /\ Len(queue') = Len(queue) - 1
         /\ queue # << >> /\ Head(queue) = queue[1] /\ queue[1] \in Results
         /\ Len(queue) = 2 => queue'[1] = queue[2] /\ queue[2] \in Results
         /\ \A r : /\ Names(1, r)' <=> Names(2, r)
                   /\ Middle(1, r)' <=> Middle(2, r)
                   /\ ~Names(2, r)' /\ ~Middle(2, r)'
<1>0. queue # << >>
  <2>1. Len(<< >>) = 0  BY EmptySeq
  <2>2. 0 \notin 1 .. 2  OBVIOUS
  <2> QED  BY <2>1, <2>2
<1>1. /\ queue' \in Seq(Results) /\ Len(queue') = Len(queue) - 1
      /\ \A i \in 1 .. Len(queue') : queue'[i] = queue[i + 1]
  BY <1>0, HeadTailProperties
<1>2. queue # << >> /\ Head(queue) = queue[1]  BY <1>0
<1>3. Len(queue) = 2 => queue'[1] = queue[2] /\ queue[2] \in Results
  <2> SUFFICES ASSUME Len(queue) = 2  PROVE queue'[1] = queue[2] /\ queue[2] \in Results
    OBVIOUS
  <2>1. 1 \in 1 .. Len(queue') /\ 2 \in 1 .. Len(queue)  BY <1>1
  <2>2. queue[2] \in Results  BY <2>1, ElementOfSeq
  <2> QED  BY <1>1, <2>1, <2>2
<1>4. queue[1] \in Results  BY <1>2
<1>5. ASSUME NEW r
      PROVE  /\ Names(1, r)' <=> Names(2, r)
             /\ Middle(1, r)' <=> Middle(2, r)
             /\ ~Names(2, r)' /\ ~Middle(2, r)'
  BY <1>1, <1>2, <1>3 DEF Names, Middle
<1> QED  BY <1>1, <1>2, <1>3, <1>4, <1>5

\* A step that keeps which results name whom.
SameQueue ==
  /\ queue' \in Seq(Results) /\ Len(queue') = Len(queue)
  /\ \A i \in 1 .. Len(queue) :
       /\ queue'[i].reqs = queue[i].reqs /\ queue'[i].middle = queue[i].middle
       /\ queue'[i].kind = queue[i].kind /\ queue'[i].mixed = queue[i].mixed

LEMMA SameNames ==
  ASSUME SameQueue, queue \in Seq(Results), NEW i \in {1, 2}, NEW r
  PROVE  (Names(i, r)' <=> Names(i, r)) /\ (Middle(i, r)' <=> Middle(i, r))
<1>1. Len(queue) \in Nat  OBVIOUS
<1>2. CASE i <= Len(queue)
  <2>1. i \in 1 .. Len(queue)  BY <1>1, <1>2
  <2> QED  BY <2>1 DEF SameQueue, Names, Middle
<1>3. CASE ~(i <= Len(queue))  BY <1>3 DEF SameQueue, Names, Middle
<1> QED  BY <1>2, <1>3

-----------------------------------------------------------------------------
(* Runs of tokens.                                                         *)

LEMMA Placed ==
  ASSUME NEW res \in Results, NEW r \in Reqs, Contains(res.reqs, r)
  PROVE  Position(res, r) \in 1 .. Len(res.reqs) /\ res.reqs[Position(res, r)] = r
<1>1. DOMAIN res.reqs = 1 .. Len(res.reqs)  BY DEF Results
<1>2. \E i \in DOMAIN res.reqs : res.reqs[i] = r  BY <1>1 DEF Contains
<1> QED  BY <1>1, <1>2 DEF Position

LEMMA AcceptedRun ==
  ASSUME NEW res \in Results, Shape(res), NEW i \in 1 .. Len(res.reqs)
  PROVE  /\ Accepted(res, i) \in Seq(Tokens) /\ Len(Accepted(res, i)) = res.accept[i]
         /\ res.copied /\ ~res.bad => Accepted(res, i) = Run(res, i)
         /\ res.accept[i] \in Nat \ {0}
         /\ Len(Run(res, i)) = res.accept[i] /\ Run(res, i) \in Seq(Tokens)
         /\ \A j \in 1 .. res.accept[i] : Run(res, i)[j] =
              IF res.reqs[i] \in res.middle THEN Junk
              ELSE <<res.reqs[i], res.base[res.reqs[i]] + j>>
<1> DEFINE n == Len(res.reqs)
           s == res.stride
           a == res.accept[i]
           m == (i - 1) * s
<1>1. n \in Nat /\ s \in Nat /\ res.tokens \in Seq(Tokens)  BY DEF Results
<1>2. a \in 1 .. s /\ s \in Nat \ {0} /\ Len(res.tokens) = n * s  BY <1>1 DEF Shape
<1>3. m \in Nat  BY <1>1
<1>4. \A j \in 1 .. a : m + j \in 1 .. Len(res.tokens)
  <2> SUFFICES ASSUME NEW j \in 1 .. a  PROVE m + j \in 1 .. Len(res.tokens)  OBVIOUS
  <2>1. j \in 1 .. s  BY <1>2
  <2> QED  BY <1>1, <1>2, <2>1, InPlace
<1>5. \A j \in 1 .. a : res.tokens[m + j] =
        IF res.reqs[i] \in res.middle THEN Junk
        ELSE <<res.reqs[i], res.base[res.reqs[i]] + j>>
  BY DEF Shape
<1>6. Bad \in Tokens  BY BatchAssumption DEF Bad, Tokens
<1> HIDE DEF n, s, a, m
<1>7. \A j \in 1 .. a : HostTokens(res)[m + j] \in Tokens /\ res.tokens[m + j] \in Tokens
  BY <1>1, <1>4, <1>6 DEF HostTokens
<1> DEFINE lo == m + 1
           hi == m + a
<1>8. /\ lo \in Int /\ hi \in Int /\ lo <= hi /\ hi - lo + 1 = a /\ a \in Nat \ {0}
      /\ \A k \in lo .. hi : k - m \in 1 .. a /\ m + (k - m) = k
      /\ \A j \in 1 .. a : lo + j - 1 = m + j
  BY <1>2, <1>3
<1> HIDE DEF lo, hi
<1>9. \A k \in lo .. hi : HostTokens(res)[k] \in Tokens /\ res.tokens[k] \in Tokens
  <2> SUFFICES ASSUME NEW k \in lo .. hi
               PROVE  HostTokens(res)[k] \in Tokens /\ res.tokens[k] \in Tokens
    OBVIOUS
  <2> QED  BY <1>7, <1>8
<1>10. ASSUME NEW t, \A k \in lo .. hi : t[k] \in Tokens
       PROVE  /\ SubSeq(t, lo, hi) \in Seq(Tokens) /\ Len(SubSeq(t, lo, hi)) = a
              /\ \A j \in 1 .. a : SubSeq(t, lo, hi)[j] = t[m + j]
  <2>1. /\ SubSeq(t, lo, hi) \in Seq(Tokens)
        /\ Len(SubSeq(t, lo, hi)) = IF lo <= hi THEN hi - lo + 1 ELSE 0
        /\ \A j \in 1 .. hi - lo + 1 : SubSeq(t, lo, hi)[j] = t[lo + j - 1]
    BY <1>8, <1>10, SubSeqProperties
  <2> QED  BY <1>8, <2>1
<1>11. /\ SubSeq(HostTokens(res), lo, hi) \in Seq(Tokens)
       /\ Len(SubSeq(HostTokens(res), lo, hi)) = a
  BY <1>9, <1>10
<1>12. /\ SubSeq(res.tokens, lo, hi) \in Seq(Tokens)
       /\ Len(SubSeq(res.tokens, lo, hi)) = a
       /\ \A j \in 1 .. a : SubSeq(res.tokens, lo, hi)[j] = res.tokens[m + j]
  BY <1>9, <1>10
<1>13. /\ Accepted(res, i) = SubSeq(HostTokens(res), lo, hi)
       /\ Run(res, i) = SubSeq(res.tokens, lo, hi)
  BY DEF Accepted, Run, m, s, a, lo, hi
<1>14. res.copied /\ ~res.bad => HostTokens(res) = res.tokens  BY DEF HostTokens
<1> QED  BY <1>5, <1>8, <1>11, <1>12, <1>13, <1>14 DEF a

\* What the grammar retains is a prefix.
LEMMA Retaining ==
  ASSUME NEW r, NEW run \in Seq(Tokens)
  PROVE  /\ Retain(r, run) \in Seq(Tokens) /\ Len(Retain(r, run)) <= Len(run)
         /\ \A j \in 1 .. Len(Retain(r, run)) : Retain(r, run)[j] = run[j]
<1>1. CASE Stops(r, run) = {}  BY <1>1 DEF Retain
<1>2. CASE Stops(r, run) # {}
  <2> DEFINE k == Min(Stops(r, run))
             n == IF run[k] = <<r, IllegalAt[r]>> THEN k - 1 ELSE k
  <2>1. Stops(r, run) \in SUBSET (1 .. Len(run)) /\ Len(run) \in Nat  BY DEF Stops
  <2>2. Stops(r, run) \in SUBSET Nat  BY <2>1
  <2>3. k \in Stops(r, run)  BY <1>2, <2>2, MinOf
  <2>4. k \in 1 .. Len(run)  BY <2>1, <2>3
  <2>5. Retain(r, run) = SubSeq(run, 1, n)  BY <1>2 DEF Retain
  <2> HIDE DEF k
  <2>6. n \in 0 .. Len(run) /\ n \in Int  BY <2>1, <2>4
  <2> HIDE DEF n
  <2>7. \A j \in 1 .. n : run[j] \in Tokens /\ 1 + j - 1 = j  BY <2>1, <2>6
  <2>8. /\ SubSeq(run, 1, n) \in Seq(Tokens)
        /\ Len(SubSeq(run, 1, n)) = IF 1 <= n THEN n - 1 + 1 ELSE 0
        /\ \A j \in 1 .. n - 1 + 1 : SubSeq(run, 1, n)[j] = run[1 + j - 1]
    BY <2>6, <2>7, SubSeqProperties
  <2>9. n - 1 + 1 = n /\ Len(SubSeq(run, 1, n)) = n  BY <2>6, <2>8
  <2> QED  BY <2>1, <2>5, <2>6, <2>7, <2>8, <2>9
<1> QED  BY <1>1, <1>2

-----------------------------------------------------------------------------
(* What processing does with one request.                                  *)

LEMMA NoneIsNoLimit == ASSUME NEW r \in Reqs  PROVE Limit[r] \in Nat \ {0} /\ None \notin Nat
  BY BatchAssumption DEF None

LEMMA FinishFacts ==
  ASSUME NEW r \in Reqs, NEW q \in ReqStates, Limit[r] \in Nat
  PROVE  /\ Finish(r, q) \in ReqStates
         /\ Finish(r, q).finished <=> q.finished \/ q.toFinish \/ Len(q.out) >= Limit[r]
         /\ Finish(r, q).finLen =
              IF ~q.toFinish /\ Len(q.out) >= Limit[r] THEN Limit[r] ELSE q.finLen
         /\ Finish(r, q).out = q.out /\ Finish(r, q).inflight = q.inflight
         /\ Finish(r, q).toFinish = q.toFinish /\ Finish(r, q).retracted = q.retracted
         /\ Finish(r, q).committed = q.committed /\ Finish(r, q).fsm = q.fsm
         /\ Finish(r, q).kv = q.kv /\ Finish(r, q).aux = q.aux
<1>1. CASE q.toFinish  BY <1>1 DEF Finish, ReqStates
<1>2. CASE ~q.toFinish /\ Len(q.out) >= Limit[r]  BY <1>2 DEF Finish, ReqStates
<1>3. CASE ~q.toFinish /\ ~(Len(q.out) >= Limit[r])  BY <1>3 DEF Finish, ReqStates
<1> QED  BY <1>1, <1>2, <1>3

LEMMA ReleaseFacts ==
  ASSUME NEW q \in ReqStates
  PROVE  /\ Release(q) \in ReqStates /\ Release(q).kv = q.kv - Count(q.finished)
         /\ Release(q).out = q.out /\ Release(q).inflight = q.inflight
         /\ Release(q).finished = q.finished /\ Release(q).finLen = q.finLen
         /\ Release(q).toFinish = q.toFinish /\ Release(q).retracted = q.retracted
         /\ Release(q).committed = q.committed /\ Release(q).fsm = q.fsm
         /\ Release(q).aux = q.aux
<1>1. q.kv \in Int /\ q.kv - 1 \in Int /\ q.kv - 0 = q.kv  BY DEF ReqStates
<1>2. CASE q.finished  BY <1>1, <1>2 DEF Release, ReqStates, Count
<1>3. CASE ~q.finished  BY <1>1, <1>3 DEF Release, Count
<1> QED  BY <1>2, <1>3

LEMMA AcceptFacts ==
  ASSUME NEW r \in Reqs, NEW q \in ReqStates, NEW run \in Seq(Tokens)
  PROVE  LET n == AcceptGrammar(r, q, run) IN
         /\ n \in ReqStates /\ n.fsm = q.fsm + Len(Retain(r, run))
         /\ n.toFinish <=> q.toFinish \/ Illegal(r, run)
         /\ n.out = q.out /\ n.inflight = q.inflight /\ n.finished = q.finished
         /\ n.finLen = q.finLen /\ n.retracted = q.retracted
         /\ n.committed = q.committed /\ n.kv = q.kv /\ n.aux = q.aux
<1>1. q.fsm \in Nat /\ Len(Retain(r, run)) \in Nat
  BY Retaining, LenProperties DEF ReqStates
<1>2. q.fsm + Len(Retain(r, run)) \in Nat  BY <1>1
<1> DEFINE k == q.fsm + Len(Retain(r, run))
           t == q.toFinish \/ Illegal(r, run)
<1>3. k \in Nat /\ t \in BOOLEAN  BY <1>2
<1>4. AcceptGrammar(r, q, run) = [q EXCEPT !.fsm = k, !.toFinish = t]  BY DEF AcceptGrammar
<1> HIDE DEF k, t
<1>5. [q EXCEPT !.fsm = k, !.toFinish = t] \in ReqStates  BY <1>3 DEF ReqStates
<1>6. LET n == [q EXCEPT !.fsm = k, !.toFinish = t] IN
         /\ n.fsm = k /\ n.toFinish = t
         /\ n.out = q.out /\ n.inflight = q.inflight /\ n.finished = q.finished
         /\ n.finLen = q.finLen /\ n.retracted = q.retracted
         /\ n.committed = q.committed /\ n.kv = q.kv /\ n.aux = q.aux
  BY DEF ReqStates
<1> QED  BY <1>4, <1>5, <1>6 DEF k, t

\* The output of a request after a run, and the end it may have reached.
Grown(r, q, c, run) == Release(Finish(r, [q EXCEPT !.committed = c, !.out = @ \o run]))

LEMMA Extends ==
  ASSUME NEW r \in Reqs, NEW q \in ReqStates, NEW run \in Seq(Tokens), NEW c \in Nat,
         Limit[r] \in Nat, ~q.finished
  PROVE  LET n == Grown(r, q, c, run) IN
         /\ n \in ReqStates /\ n.out = q.out \o run /\ n.committed = c
         /\ n.finished <=> q.toFinish \/ Len(q.out \o run) >= Limit[r]
         /\ n.finLen = IF ~q.toFinish /\ Len(q.out \o run) >= Limit[r]
                       THEN Limit[r] ELSE q.finLen
         /\ n.kv = q.kv - Count(n.finished)
         /\ n.inflight = q.inflight /\ n.toFinish = q.toFinish
         /\ n.retracted = q.retracted /\ n.fsm = q.fsm /\ n.aux = q.aux
<1> DEFINE m == [q EXCEPT !.committed = c, !.out = @ \o run]
<1>1. q.out \o run \in Seq(Tokens)  BY ConcatProperties DEF ReqStates
<1>2. /\ m \in ReqStates /\ m.out = q.out \o run /\ m.committed = c
      /\ m.finished = q.finished /\ m.finLen = q.finLen /\ m.kv = q.kv
      /\ m.inflight = q.inflight /\ m.toFinish = q.toFinish
      /\ m.retracted = q.retracted /\ m.fsm = q.fsm /\ m.aux = q.aux
  BY <1>1 DEF ReqStates
<1> HIDE DEF m
<1> DEFINE f == Finish(r, m)
<1>3. /\ f \in ReqStates
      /\ f.finished <=> m.finished \/ m.toFinish \/ Len(m.out) >= Limit[r]
      /\ f.finLen = IF ~m.toFinish /\ Len(m.out) >= Limit[r] THEN Limit[r] ELSE m.finLen
      /\ f.out = m.out /\ f.inflight = m.inflight /\ f.toFinish = m.toFinish
      /\ f.retracted = m.retracted /\ f.committed = m.committed /\ f.fsm = m.fsm
      /\ f.kv = m.kv /\ f.aux = m.aux
  BY <1>2, FinishFacts
<1> HIDE DEF f
<1> DEFINE n == Release(f)
<1>4. /\ n \in ReqStates /\ n.kv = f.kv - Count(f.finished)
      /\ n.out = f.out /\ n.inflight = f.inflight /\ n.finished = f.finished
      /\ n.finLen = f.finLen /\ n.toFinish = f.toFinish /\ n.retracted = f.retracted
      /\ n.committed = f.committed /\ n.fsm = f.fsm /\ n.aux = f.aux
  BY <1>3, ReleaseFacts
<1> HIDE DEF n
<1>5. /\ n \in ReqStates /\ n.out = q.out \o run /\ n.committed = c
      /\ n.finished <=> q.toFinish \/ Len(q.out \o run) >= Limit[r]
      /\ n.finLen = IF ~q.toFinish /\ Len(q.out \o run) >= Limit[r]
                    THEN Limit[r] ELSE q.finLen
      /\ n.kv = q.kv - Count(n.finished)
      /\ n.inflight = q.inflight /\ n.toFinish = q.toFinish
      /\ n.retracted = q.retracted /\ n.fsm = q.fsm /\ n.aux = q.aux
  BY <1>2, <1>3, <1>4
<1> QED  BY <1>5 DEF n, f, m, Grown

\* The token of an extend batch.
LEMMA EmittedFacts ==
  ASSUME NEW res \in Results, Shape(res), NEW r \in Reqs, Contains(res.reqs, r),
         NEW q \in ReqStates, Limit[r] \in Nat, ~q.finished
  PROVE  LET run == Accepted(res, Position(res, r))
             n == Emitted(res, r, q) IN
         /\ n \in ReqStates /\ n.out = q.out \o run
         /\ n.committed = IF ~n.finished /\ r \in res.mixed THEN q.committed + 1
                          ELSE q.committed
         /\ n.finished <=> q.toFinish \/ Len(q.out \o run) >= Limit[r]
         /\ n.finLen = IF ~q.toFinish /\ Len(q.out \o run) >= Limit[r]
                       THEN Limit[r] ELSE q.finLen
         /\ n.kv = q.kv - Count(n.finished)
         /\ n.inflight = q.inflight /\ n.toFinish = q.toFinish
         /\ n.retracted = q.retracted /\ n.fsm = q.fsm /\ n.aux = q.aux
<1> DEFINE run == Accepted(res, Position(res, r))
           m == [q EXCEPT !.out = @ \o run]
<1>0. run \in Seq(Tokens)  BY Placed, AcceptedRun
<1> HIDE DEF run
<1>1. q.out \o run \in Seq(Tokens)  BY <1>0, ConcatProperties DEF ReqStates
<1>2. /\ m \in ReqStates /\ m.out = q.out \o run /\ m.committed = q.committed
      /\ m.finished = q.finished /\ m.finLen = q.finLen /\ m.kv = q.kv
      /\ m.inflight = q.inflight /\ m.toFinish = q.toFinish
      /\ m.retracted = q.retracted /\ m.fsm = q.fsm /\ m.aux = q.aux
  BY <1>1 DEF ReqStates
<1> HIDE DEF m
<1> DEFINE f == Finish(r, m)
           c == IF ~f.finished /\ r \in res.mixed THEN f.committed + 1 ELSE f.committed
           g == [f EXCEPT !.committed = c]
<1>3. /\ f \in ReqStates
      /\ f.finished <=> m.finished \/ m.toFinish \/ Len(m.out) >= Limit[r]
      /\ f.finLen = IF ~m.toFinish /\ Len(m.out) >= Limit[r] THEN Limit[r] ELSE m.finLen
      /\ f.out = m.out /\ f.inflight = m.inflight /\ f.toFinish = m.toFinish
      /\ f.retracted = m.retracted /\ f.committed = m.committed /\ f.fsm = m.fsm
      /\ f.kv = m.kv /\ f.aux = m.aux
  BY <1>2, FinishFacts
<1> HIDE DEF f
<1>4. c \in Nat  BY <1>3 DEF ReqStates
<1>5. c = IF ~f.finished /\ r \in res.mixed THEN f.committed + 1 ELSE f.committed
  OBVIOUS
<1> HIDE DEF c
<1>6. /\ g \in ReqStates /\ g.out = f.out /\ g.committed = c
      /\ g.finished = f.finished /\ g.finLen = f.finLen /\ g.kv = f.kv
      /\ g.inflight = f.inflight /\ g.toFinish = f.toFinish
      /\ g.retracted = f.retracted /\ g.fsm = f.fsm /\ g.aux = f.aux
  BY <1>3, <1>4 DEF ReqStates
<1> HIDE DEF g
<1> DEFINE n == Release(g)
<1>7. /\ n \in ReqStates /\ n.kv = g.kv - Count(g.finished)
      /\ n.out = g.out /\ n.inflight = g.inflight /\ n.finished = g.finished
      /\ n.finLen = g.finLen /\ n.toFinish = g.toFinish /\ n.retracted = g.retracted
      /\ n.committed = g.committed /\ n.fsm = g.fsm /\ n.aux = g.aux
  BY <1>6, ReleaseFacts
<1> HIDE DEF n
<1>8. /\ n \in ReqStates /\ n.out = q.out \o run
      /\ n.committed = IF ~n.finished /\ r \in res.mixed THEN q.committed + 1
                       ELSE q.committed
      /\ n.finished <=> q.toFinish \/ Len(q.out \o run) >= Limit[r]
      /\ n.finLen = IF ~q.toFinish /\ Len(q.out \o run) >= Limit[r]
                    THEN Limit[r] ELSE q.finLen
      /\ n.kv = q.kv - Count(n.finished)
      /\ n.inflight = q.inflight /\ n.toFinish = q.toFinish
      /\ n.retracted = q.retracted /\ n.fsm = q.fsm /\ n.aux = q.aux
  BY <1>2, <1>3, <1>5, <1>6, <1>7
<1>9. Emitted(res, r, q) = n  BY DEF Emitted, n, g, c, f, m, run
<1> QED  BY <1>8, <1>9 DEF run

LEMMA VisibleFacts ==
  ASSUME NEW q \in ReqStates  PROVE Visible(q) \in Nat
  BY LenProperties DEF ReqStates, Visible

LEMMA ObservedFacts ==
  ASSUME NEW old \in ReqStates, NEW new \in ReqStates
  PROVE  LET n == Observed(old, new) IN
         /\ n \in ReqStates
         /\ n.aux = IF Visible(new) = Visible(old) THEN new.aux
                    ELSE IF Visible(old) = new.aux THEN Visible(new) ELSE None
         /\ n.out = new.out /\ n.inflight = new.inflight /\ n.finished = new.finished
         /\ n.finLen = new.finLen /\ n.toFinish = new.toFinish
         /\ n.retracted = new.retracted /\ n.committed = new.committed
         /\ n.fsm = new.fsm /\ n.kv = new.kv
<1> DEFINE x == IF Visible(new) = Visible(old) THEN new.aux
                ELSE IF Visible(old) = new.aux THEN Visible(new) ELSE None
<1>1. x \in Int  BY VisibleFacts DEF ReqStates, None
<1>2. Observed(old, new) = [new EXCEPT !.aux = x]  BY DEF Observed, SnapshotStart
<1> HIDE DEF x
<1>3. LET n == [new EXCEPT !.aux = x] IN
      /\ n \in ReqStates /\ n.aux = x
      /\ n.out = new.out /\ n.inflight = new.inflight /\ n.finished = new.finished
      /\ n.finLen = new.finLen /\ n.toFinish = new.toFinish
      /\ n.retracted = new.retracted /\ n.committed = new.committed
      /\ n.fsm = new.fsm /\ n.kv = new.kv
  BY <1>1 DEF ReqStates
<1> QED  BY <1>2, <1>3 DEF x

-----------------------------------------------------------------------------
(* What is launched.                                                       *)

\* The batches as LaunchExtend and LaunchDecode build them.
ExtendOrder(P, M) == SetToSeq(P) \o SetToSeq(M)
ExtendToken(M, order) ==
  [i \in DOMAIN order |-> IF order[i] \in M THEN <<order[i], gen[order[i]] + 1>>
                          ELSE FirstToken(order[i])]
Extension(P, M) ==
  Result("extend", ExtendOrder(P, M), M, ExtendToken(M, ExtendOrder(P, M)),
         [i \in DOMAIN ExtendOrder(P, M) |-> 1], 1)

DecodeOrder == SetToSeq({r \in Reqs : Running(r)})
DecodeTokens(order, accept) ==
  [k \in 1 .. Len(order) * MaxAccept |-> DecodeToken(order, accept, k)]
Decoding(accept) ==
  Result("decode", DecodeOrder, {}, DecodeTokens(DecodeOrder, accept),
         [i \in DOMAIN DecodeOrder |-> accept[DecodeOrder[i]]], MaxAccept)

LEMMA ExtendResult ==
  ASSUME Types, NEW P \in SUBSET Reqs, NEW M \in SUBSET Reqs,
         \A r \in P : Prefilling(r), \A r \in M : Running(r)
  PROVE  LET res == Extension(P, M) IN
         /\ res \in Results /\ Shape(res)
         /\ \A r : Contains(res.reqs, r) <=> r \in P \cup M
         /\ res.middle = {r \in P : launched[r] + 1 < Chunks[r]}
         /\ res.kind = "extend" /\ res.mixed = M /\ res.base = gen /\ res.stride = 1
         /\ \A i \in 1 .. Len(res.reqs) : res.accept[i] = 1
         /\ ~res.advanced /\ ~res.copied /\ res.bad = fault /\ P \cap M = {}
<1> DEFINE order == ExtendOrder(P, M)
           token == ExtendToken(M, order)
           ones == [i \in DOMAIN order |-> 1]
           res == Extension(P, M)
<1>0. /\ order = SetToSeq(P) \o SetToSeq(M)
      /\ token = [i \in DOMAIN order |-> IF order[i] \in M THEN <<order[i], gen[order[i]] + 1>>
                                         ELSE FirstToken(order[i])]
      /\ res = Result("extend", order, M, token, ones, 1)
      /\ ones = [i \in DOMAIN order |-> 1]
  BY DEF ExtendOrder, ExtendToken, Extension
<1> HIDE DEF order, token, ones, res
<1>1. P \cap M = {}  BY BatchAssumption DEF Prefilling, Running, Types
<1>2. /\ order \in Seq(P \cup M) /\ \A x : Contains(order, x) <=> x \in P \cup M
      /\ \A i, j \in 1 .. Len(order) : order[i] = order[j] => i = j
  <2>1. IsFiniteSet(P) /\ IsFiniteSet(M)  BY SomeReqs
  <2>2. LET s == SetToSeq(P) \o SetToSeq(M) IN
         /\ s \in Seq(P \cup M)
         /\ \A i, j \in 1 .. Len(s) : s[i] = s[j] => i = j
         /\ \A x : Contains(s, x) <=> x \in P \cup M
    BY <1>1, <2>1, EnumeratedBoth
  <2> QED  BY <1>0, <2>2
<1>3. /\ order \in Seq(Reqs) /\ Len(order) \in Nat /\ DOMAIN order = 1 .. Len(order)
      /\ \A i \in 1 .. Len(order) : order[i] \in P \cup M
  BY <1>2
<1>4. \A r \in Reqs : r \in Nat /\ r <= NReqs /\ r > 0 /\ gen[r] + 1 \in Int
  BY BatchAssumption DEF Reqs, Types
<1>5. \A r \in P : FirstToken(r) = IF launched[r] + 1 < Chunks[r] THEN Junk
                                   ELSE <<r, gen[r] + 1>>
  BY DEF FirstToken
<1>6. Junk \in Tokens /\ \A r \in Reqs : <<r, gen[r] + 1>> \in Tokens
  BY <1>4, BatchAssumption DEF Junk, Tokens
<1>7. \A i \in 1 .. Len(order) :
        token[i] = IF order[i] \in P /\ launched[order[i]] + 1 < Chunks[order[i]]
                   THEN Junk ELSE <<order[i], gen[order[i]] + 1>>
  BY <1>0, <1>1, <1>3, <1>5
<1>8. token \in Seq(Tokens) /\ Len(token) = Len(order)
  <2>1. \A i \in 1 .. Len(order) : token[i] \in Tokens  BY <1>3, <1>6, <1>7
  <2>2. token \in [1 .. Len(order) -> Tokens]  BY <1>0, <1>3, <2>1
  <2> QED  BY <1>3, <2>2
<1>9. ones \in Seq(Nat) /\ Len(ones) = Len(order) /\ \A i \in 1 .. Len(order) : ones[i] = 1
  BY <1>0, <1>3
<1>10. /\ res.kind = "extend" /\ res.reqs = order /\ res.mixed = M /\ res.tokens = token
       /\ res.accept = ones /\ res.stride = 1
       /\ res.middle = {r \in Reqs : /\ "extend" = "extend" /\ Contains(order, r)
                                     /\ r \notin M /\ launched[r] + 1 < Chunks[r]}
       /\ res.base = gen /\ res.copied = FALSE /\ res.bad = fault /\ res.advanced = FALSE
       /\ res.retained = << >> /\ res.hasGrammar = (Carried /\ HasGrammar(order))
       /\ res = [kind |-> res.kind, reqs |-> res.reqs, mixed |-> res.mixed,
                 tokens |-> res.tokens, accept |-> res.accept, stride |-> res.stride,
                 middle |-> res.middle, base |-> res.base, copied |-> res.copied,
                 bad |-> res.bad, advanced |-> res.advanced,
                 retained |-> res.retained, hasGrammar |-> res.hasGrammar]
  BY <1>0 DEF Result
<1>11. res.middle = {r \in P : launched[r] + 1 < Chunks[r]}
  BY <1>1, <1>2, <1>10
<1>12. (Carried /\ HasGrammar(order)) \in BOOLEAN  OBVIOUS
<1>13. res \in Results
  <2>1. gen \in [Reqs -> Nat] /\ fault \in BOOLEAN /\ << >> \in Seq(Seq(Tokens))
        /\ res.middle \in SUBSET Reqs
    BY <1>11 DEF Types
  <2>2. {"extend", "decode"} = {"extend"} \cup {"decode"} /\ 1 \in Nat  OBVIOUS
  <2>3. /\ res.kind \in {"extend", "decode"} /\ res.reqs \in Seq(Reqs)
        /\ res.mixed \in SUBSET Reqs /\ res.tokens \in Seq(Tokens)
        /\ res.accept \in Seq(Nat) /\ res.stride \in Nat /\ res.base \in [Reqs -> Nat]
        /\ res.copied \in BOOLEAN /\ res.bad \in BOOLEAN /\ res.advanced \in BOOLEAN
        /\ res.retained \in Seq(Seq(Tokens)) /\ res.hasGrammar \in BOOLEAN
    BY <1>3, <1>8, <1>9, <1>10, <1>12, <2>1, <2>2
  <2> QED  BY <1>10, <2>1, <2>3 DEF Results
<1>14. Shape(res)
  <2>1. \A i \in 1 .. Len(order) :
          /\ ones[i] \in 1 .. 1
          /\ \A j \in 1 .. ones[i] : token[(i - 1) * 1 + j] =
               IF order[i] \in res.middle THEN Junk ELSE <<order[i], gen[order[i]] + j>>
    <3> SUFFICES ASSUME NEW i \in 1 .. Len(order), NEW j \in 1 .. 1
                 PROVE  token[(i - 1) * 1 + j] =
                   IF order[i] \in res.middle THEN Junk ELSE <<order[i], gen[order[i]] + j>>
      BY <1>9
    <3>1. j = 1 /\ (i - 1) * 1 + j = i  OBVIOUS
    <3> QED  BY <1>7, <1>11, <3>1
  <2>2. Len(token) = Len(order) * 1
    <3>1. \A n \in Nat : n * 1 = n  OBVIOUS
    <3> QED  BY <1>3, <1>8, <3>1
  <2>3. \A r \in res.middle \cup M : Contains(order, r)  BY <1>2, <1>11
  <2>4. res.middle \cap M = {}  BY <1>1, <1>11
  <2>5. /\ res.reqs = order /\ res.accept = ones /\ res.tokens = token /\ res.stride = 1
        /\ res.base = gen /\ res.mixed = M /\ res.kind = "extend" /\ ~res.advanced
        /\ res.hasGrammar <=> Carried /\ HasGrammar(res.reqs)
    BY <1>10
  <2> QED  BY <1>2, <1>9, <2>1, <2>2, <2>3, <2>4, <2>5 DEF Shape
<1>15. /\ \A r : Contains(res.reqs, r) <=> r \in P \cup M
       /\ \A i \in 1 .. Len(res.reqs) : res.accept[i] = 1
  BY <1>2, <1>9, <1>10
<1> QED  BY <1>1, <1>10, <1>11, <1>13, <1>14, <1>15 DEF res

LEMMA DecodeResult ==
  ASSUME Types, NEW accept \in [Reqs -> 1 .. MaxAccept]
  PROVE  LET res == Decoding(accept) IN
         /\ res \in Results /\ Shape(res)
         /\ \A r : Contains(res.reqs, r) <=> r \in Reqs /\ Running(r)
         /\ res.middle = {} /\ res.kind = "decode" /\ res.mixed = {} /\ res.base = gen
         /\ \A i \in 1 .. Len(res.reqs) : res.accept[i] = accept[res.reqs[i]]
         /\ ~res.advanced /\ ~res.copied /\ res.bad = fault
<1> DEFINE D == {r \in Reqs : Running(r)}
           order == DecodeOrder
           tokens == DecodeTokens(order, accept)
           lens == [i \in DOMAIN order |-> accept[order[i]]]
           res == Decoding(accept)
<1>0. /\ order = SetToSeq(D) /\ D \in SUBSET Reqs
      /\ tokens = [k \in 1 .. Len(order) * MaxAccept |-> DecodeToken(order, accept, k)]
      /\ res = Result("decode", order, {}, tokens, lens, MaxAccept)
      /\ lens = [i \in DOMAIN order |-> accept[order[i]]]
      /\ \A r : r \in D <=> r \in Reqs /\ Running(r)
  BY DEF DecodeOrder, DecodeTokens, Decoding
<1> HIDE DEF D, order, tokens, lens, res
<1>1. /\ order \in Seq(D) /\ \A x : Contains(order, x) <=> x \in D
      /\ \A i, j \in 1 .. Len(order) : order[i] = order[j] => i = j
  <2>1. IsFiniteSet(D)  BY <1>0, SomeReqs
  <2> QED  BY <1>0, <2>1, Enumerated
<1>2. /\ order \in Seq(Reqs) /\ Len(order) \in Nat /\ DOMAIN order = 1 .. Len(order)
      /\ \A i \in 1 .. Len(order) : order[i] \in Reqs
  BY <1>0, <1>1
<1>3. MaxAccept \in Nat \ {0}  BY BatchAssumption
<1>4. ASSUME NEW i \in 1 .. Len(order), NEW j \in 1 .. MaxAccept
      PROVE  /\ (i - 1) * MaxAccept + j \in 1 .. Len(order) * MaxAccept
             /\ tokens[(i - 1) * MaxAccept + j] =
                  IF j <= accept[order[i]] THEN <<order[i], gen[order[i]] + j>> ELSE Junk
  <2> DEFINE k == (i - 1) * MaxAccept + j
  <2>1. k \in 1 .. Len(order) * MaxAccept  BY <1>2, <1>3, InPlace
  <2>2. (k - 1) \div MaxAccept = i - 1 /\ (k - 1) % MaxAccept = j - 1
    <3>1. i \in Nat \ {0}  OBVIOUS
    <3>2. /\ ((i - 1) * MaxAccept + j - 1) \div MaxAccept = i - 1
          /\ ((i - 1) * MaxAccept + j - 1) % MaxAccept = j - 1
      BY <1>3, <3>1, Strides
    <3> DEFINE x == (i - 1) * MaxAccept + j - 1
    <3>3. k - 1 = x  BY <1>3
    <3>4. x \div MaxAccept = i - 1 /\ x % MaxAccept = j - 1  BY <3>2
    <3> HIDE DEF k, x
    <3> QED  BY <3>3, <3>4
  <2> HIDE DEF k
  <2>3. ((k - 1) \div MaxAccept) + 1 = i /\ ((k - 1) % MaxAccept) + 1 = j  BY <2>2
  <2>4. tokens[k] = DecodeToken(order, accept, k)  BY <1>0, <2>1
  <2> QED  BY <2>1, <2>3, <2>4 DEF DecodeToken, k
<1>5. ASSUME NEW k \in 1 .. Len(order) * MaxAccept  PROVE tokens[k] \in Tokens
  <2> DEFINE i == ((k - 1) \div MaxAccept) + 1
             j == ((k - 1) % MaxAccept) + 1
             n == Len(order)
  <2>1. n * MaxAccept \in Nat /\ k - 1 \in Nat  BY <1>2, <1>3
  <2>2. k - 1 = MaxAccept * (i - 1) + (j - 1) /\ i \in Int /\ j \in 1 .. MaxAccept
    BY <1>3, <2>1
  <2> HIDE DEF i, j, n
  <2>3. i >= 1
    <3>1. i - 1 <= -1 => MaxAccept * (i - 1) <= -MaxAccept  BY <1>3, <2>2
    <3> QED  BY <1>3, <2>1, <2>2, <3>1
  <2>4. i <= n
    <3>1. n \in Nat /\ k <= n * MaxAccept  BY <1>2 DEF n
    <3>2. i - 1 >= n => MaxAccept * (i - 1) >= MaxAccept * n  BY <1>3, <2>2, <3>1
    <3>3. MaxAccept * n = n * MaxAccept  BY <1>3, <3>1
    <3> QED  BY <1>3, <2>1, <2>2, <3>1, <3>2, <3>3
  <2>5. i \in 1 .. Len(order) /\ (i - 1) * MaxAccept + j = k
    BY <1>3, <2>2, <2>3, <2>4 DEF n
  <2>6. tokens[k] = IF j <= accept[order[i]] THEN <<order[i], gen[order[i]] + j>> ELSE Junk
    BY <1>4, <2>2, <2>5
  <2>7. order[i] \in Reqs /\ gen[order[i]] + j \in Int /\ order[i] \in 0 .. NReqs
    <3>1. order[i] \in Reqs /\ j \in Int  BY <1>2, <1>3, <2>2, <2>5
    <3>2. gen[order[i]] \in Nat  BY <3>1 DEF Types
    <3> QED  BY <3>1, <3>2, BatchAssumption DEF Reqs
  <2> QED  BY <2>6, <2>7, BatchAssumption DEF Tokens, Junk
<1>6. Len(order) * MaxAccept \in Nat  BY <1>2, <1>3
<1>7. tokens \in Seq(Tokens) /\ Len(tokens) = Len(order) * MaxAccept
  <2>1. tokens \in [1 .. Len(order) * MaxAccept -> Tokens]  BY <1>0, <1>5
  <2> QED  BY <1>6, <2>1
<1>8. /\ lens \in Seq(Nat) /\ Len(lens) = Len(order)
      /\ \A i \in 1 .. Len(order) : lens[i] = accept[order[i]] /\ lens[i] \in 1 .. MaxAccept
  <2>1. \A i \in 1 .. Len(order) : accept[order[i]] \in 1 .. MaxAccept  BY <1>2
  <2>2. lens \in [1 .. Len(order) -> Nat]  BY <1>0, <1>2, <1>3, <2>1
  <2> QED  BY <1>0, <1>2, <2>1, <2>2
<1>9. /\ res.kind = "decode" /\ res.reqs = order /\ res.mixed = {} /\ res.tokens = tokens
      /\ res.accept = lens /\ res.stride = MaxAccept
      /\ res.middle = {r \in Reqs : /\ "decode" = "extend" /\ Contains(order, r)
                                    /\ r \notin {} /\ launched[r] + 1 < Chunks[r]}
      /\ res.base = gen /\ res.copied = FALSE /\ res.bad = fault /\ res.advanced = FALSE
      /\ res.retained = << >> /\ res.hasGrammar = (Carried /\ HasGrammar(order))
      /\ res = [kind |-> res.kind, reqs |-> res.reqs, mixed |-> res.mixed,
                tokens |-> res.tokens, accept |-> res.accept, stride |-> res.stride,
                middle |-> res.middle, base |-> res.base, copied |-> res.copied,
                bad |-> res.bad, advanced |-> res.advanced,
                retained |-> res.retained, hasGrammar |-> res.hasGrammar]
  BY <1>0 DEF Result
<1>10. res.middle = {}  BY <1>9
<1>11. res \in Results
  <2>1. gen \in [Reqs -> Nat] /\ fault \in BOOLEAN /\ << >> \in Seq(Seq(Tokens))
    BY DEF Types
  <2>2. (Carried /\ HasGrammar(order)) \in BOOLEAN  OBVIOUS
  <2> QED  BY <1>2, <1>3, <1>7, <1>8, <1>9, <1>10, <2>1, <2>2 DEF Results
<1>12. Shape(res)
  <2>1. \A i \in 1 .. Len(order) : \A j \in 1 .. lens[i] :
          tokens[(i - 1) * MaxAccept + j] = <<order[i], gen[order[i]] + j>>
    <3> SUFFICES ASSUME NEW i \in 1 .. Len(order), NEW j \in 1 .. lens[i]
                 PROVE  tokens[(i - 1) * MaxAccept + j] = <<order[i], gen[order[i]] + j>>
      OBVIOUS
    <3>1. j \in 1 .. MaxAccept /\ j <= accept[order[i]]  BY <1>3, <1>8
    <3> QED  BY <1>4, <3>1
  <2> QED  BY <1>1, <1>7, <1>8, <1>9, <1>10, <2>1 DEF Shape
<1>13. /\ \A r : Contains(res.reqs, r) <=> r \in Reqs /\ Running(r)
       /\ \A i \in 1 .. Len(res.reqs) : res.accept[i] = accept[res.reqs[i]]
  <2>1. \A r : Contains(res.reqs, r) <=> r \in D  BY <1>1, <1>9
  <2>2. \A r : Contains(res.reqs, r) <=> r \in Reqs /\ Running(r)  BY <1>0, <2>1
  <2>3. \A i \in 1 .. Len(res.reqs) : res.accept[i] = accept[res.reqs[i]]  BY <1>8, <1>9
  <2> QED  BY <2>2, <2>3
<1> QED  BY <1>9, <1>10, <1>11, <1>12, <1>13 DEF res

-----------------------------------------------------------------------------
(* The first layer: which results name which request.                      *)

LEMMA MiddleNames ==
  ASSUME Frame, NEW i \in {1, 2}, NEW r
  PROVE  /\ Middle(i, r) => Names(i, r)
         /\ i <= Len(queue) => Shape(queue[i]) /\ queue[i] \in Results
         /\ i <= Len(queue) /\ queue[i].kind = "decode" => ~Middle(i, r)
<1>1. queue \in Seq(Results) /\ Len(queue) \in Nat  BY DEF Frame, Types
<1>2. CASE i <= Len(queue)
  <2>1. i \in 1 .. Len(queue)  BY <1>1, <1>2
  <2>2. Shape(queue[i]) /\ queue[i] \in Results  BY <1>1, <2>1 DEF Frame
  <2> QED  BY <2>2 DEF Shape, Names, Middle
<1>3. CASE ~(i <= Len(queue))  BY <1>3 DEF Middle
<1> QED  BY <1>2, <1>3

\* Which requests have a grammar, and whether a batch says so, does not change.
LEMMA ShapeKept ==
  ASSUME UNCHANGED mode, \A i \in 1 .. Len(queue') : Shape(queue'[i])
  PROVE  (\A i \in 1 .. Len(queue) : Shape(queue[i]))'
<1> SUFFICES ASSUME NEW i \in 1 .. Len(queue')  PROVE Shape(queue[i])'  OBVIOUS
<1>1. Shape(queue'[i])  OBVIOUS
<1> QED  BY <1>1 DEF Shape, HasGrammar, Grammar, Carried, Overlap

LEMMA InitFrame == Init => Frame
<1> SUFFICES ASSUME Init  PROVE Frame  OBVIOUS
<1>1. NewReq \in ReqStates  BY DEF NewReq, ReqStates, None
<1>2. Types
  <2>1. << >> \in Seq(Results)  OBVIOUS
  <2>2. req \in [Reqs -> ReqStates]  BY <1>1 DEF Init
  <2>3. 0 \in 0 .. MaxRetracts  BY BatchAssumption
  <2>4. launched \in [Reqs -> Nat] /\ gen \in [Reqs -> Nat]  BY DEF Init
  <2>5. /\ mode \in Modes /\ queue \in Seq(Results) /\ retracts \in 0 .. MaxRetracts
        /\ phase = "plan" /\ fault = FALSE /\ raised = "no"
    BY <2>1, <2>3 DEF Init
  <2> QED  BY <2>2, <2>4, <2>5 DEF Types
<1>3. Len(queue) = 0  BY EmptySeq DEF Init
<1>4. \A r : \A i \in {1, 2} : ~Names(i, r) /\ ~Middle(i, r)  BY <1>3 DEF Names, Middle
<1>5. ASSUME NEW r \in Reqs  PROVE Drained(r) /\ Prompted(r) /\ Balanced(r)
  <2>1. req[r] = NewReq /\ launched[r] = 0 /\ Chunks[r] \in Nat \ {0}
    BY BatchAssumption DEF Init
  <2> QED  BY <1>3, <1>4, <2>1 DEF Drained, Prompted, Balanced, Emits, Count, NewReq
<1>6. Phased  BY <1>3 DEF Phased, Init
<1>7. \A i \in 1 .. Len(queue) : Shape(queue[i])  BY <1>3
<1> QED  BY <1>2, <1>5, <1>6, <1>7 DEF Frame

\* A step that appends a result: what has to hold of one request.
LEMMA LaunchedFrame ==
  ASSUME Frame, NEW res \in Results, Shape(res), queue' = Append(queue, res),
         Len(queue) \in 0 .. 1, NEW r \in Reqs,
         launched'[r] \in Nat, launched'[r] <= Chunks[r],
         phase = "plan" \/ (phase = "retract" /\ phase' = "verify"),
         r \in res.middle => ~req'[r].retracted /\ launched'[r] < Chunks[r]
                             /\ ~Emits(1, r),
         Contains(res.reqs, r) /\ r \notin res.middle =>
           ~req'[r].retracted /\ launched'[r] = Chunks[r],
         Contains(res.reqs, r) /\ Emits(1, r) => r \in res.mixed \/ res.kind = "decode",
         req'[r].retracted => req[r].retracted /\ launched'[r] = launched[r]
                              /\ ~req'[r].finished,
         Emits(1, r) => req'[r].retracted = req[r].retracted /\ launched'[r] = launched[r],
         launched'[r] = 0 => ~Contains(res.reqs, r) /\ launched[r] = 0
                             /\ (~req'[r].retracted => ~req[r].retracted),
         req'[r].kv = IF req'[r].finished \/ req'[r].retracted \/ launched'[r] = 0
                      THEN 0 ELSE 1,
         req'[r].inflight = req[r].inflight + Count(r \in res.middle)
  PROVE  Drained(r)' /\ Prompted(r)' /\ Balanced(r)'
<1>1. queue \in Seq(Results) /\ Chunks[r] \in Nat \ {0}  BY BatchAssumption DEF Frame, Types
<1>2. /\ Len(queue') = Len(queue) + 1 /\ queue'[Len(queue) + 1] = res
      /\ Len(queue) = 0 =>
              /\ Names(1, r)' <=> Contains(res.reqs, r)
              /\ Middle(1, r)' <=> r \in res.middle
              /\ ~Names(2, r)' /\ ~Middle(2, r)' /\ ~Names(1, r) /\ ~Middle(1, r)
      /\ Len(queue) = 1 =>
              /\ Names(1, r)' <=> Names(1, r)
              /\ Middle(1, r)' <=> Middle(1, r)
              /\ Names(2, r)' <=> Contains(res.reqs, r)
              /\ Middle(2, r)' <=> r \in res.middle
      /\ ~Names(2, r) /\ ~Middle(2, r)
  BY <1>1, Appended
<1>3. Drained(r) /\ Prompted(r) /\ Balanced(r)  BY DEF Frame
<1>4. Middle(1, r) => Names(1, r)  BY MiddleNames
<1>5. r \in res.middle => Contains(res.reqs, r)  BY DEF Shape
<1>6. CASE Len(queue) = 0
  <2>1. Drained(r)'  BY <1>2, <1>5, <1>6 DEF Drained
  <2>2. Prompted(r)'  BY <1>1, <1>2, <1>3, <1>5, <1>6 DEF Prompted, Emits
  <2>3. Balanced(r)'  BY <1>2, <1>3, <1>6 DEF Balanced, Count
  <2> QED  BY <2>1, <2>2, <2>3
<1>7. CASE Len(queue) = 1
  <2>0. queue'[2] = res /\ Len(queue') = 2  BY <1>2, <1>7
  <2>1. Drained(r)'  BY <1>2, <1>3, <1>5, <1>7, <2>0 DEF Drained
  <2>2. Prompted(r)'  BY <1>1, <1>2, <1>3, <1>4, <1>5, <1>7, <2>0 DEF Prompted, Emits
  <2>3. Balanced(r)'  BY <1>2, <1>3, <1>7 DEF Balanced, Count
  <2> QED  BY <2>1, <2>2, <2>3
<1> QED  BY <1>6, <1>7

LEMMA LaunchedQueue ==
  ASSUME Frame, NEW res \in Results, Shape(res), queue' = Append(queue, res),
         Len(queue) \in 0 .. 1
  PROVE  /\ queue' \in Seq(Results) /\ Len(queue') = Len(queue) + 1
         /\ \A i \in 1 .. Len(queue') : Shape(queue'[i])
<1>1. queue \in Seq(Results) /\ Len(queue) \in Nat  BY DEF Frame, Types
<1>2. /\ queue' \in Seq(Results) /\ Len(queue') = Len(queue) + 1
      /\ \A i \in 1 .. Len(queue) : queue'[i] = queue[i]
      /\ queue'[Len(queue) + 1] = res
  BY <1>1, Appended
<1>3. ASSUME NEW i \in 1 .. Len(queue')  PROVE Shape(queue'[i])
  <2>1. CASE i \in 1 .. Len(queue)
    <3>1. Shape(queue[i])  BY <2>1 DEF Frame
    <3> QED  BY <1>2, <2>1, <3>1
  <2>2. CASE i = Len(queue) + 1  BY <1>2, <2>2
  <2> QED  BY <1>1, <1>2, <2>1, <2>2
<1> QED  BY <1>2, <1>3

LEMMA AdmittedFacts ==
  ASSUME Types, NEW r \in Reqs
  PROVE  LET last == launched[r] + 1 = Chunks[r]
             q == req[r]
             n == Admitted(r) IN
         /\ n \in ReqStates /\ n.kv = 1 /\ n.retracted = FALSE
         /\ n.inflight = IF last THEN q.inflight ELSE q.inflight + 1
         /\ n.committed = IF last THEN Chunks[r] + Len(q.out) ELSE launched[r] + 1
         /\ n.out = q.out /\ n.finished = q.finished /\ n.finLen = q.finLen
         /\ n.toFinish = q.toFinish /\ n.fsm = q.fsm /\ n.aux = q.aux
<1> DEFINE q == req[r]
           last == launched[r] + 1 = Chunks[r]
           f == IF last THEN q.inflight ELSE q.inflight + 1
           c == IF last THEN Chunks[r] + Len(q.out) ELSE launched[r] + 1
           n == [q EXCEPT !.kv = 1, !.retracted = FALSE, !.inflight = f, !.committed = c]
<1>1. q \in ReqStates /\ launched[r] \in Nat /\ Chunks[r] \in Nat
  BY BatchAssumption DEF Types
<1>2. Len(q.out) \in Nat /\ q.inflight \in Nat  BY <1>1, LenProperties DEF ReqStates
<1>3. f \in Nat /\ c \in Nat  BY <1>1, <1>2
<1>4. Admitted(r) = n  BY DEF Admitted
<1> HIDE DEF q, f, c
<1>5. n \in ReqStates
  <2>1. 1 \in Int /\ FALSE \in BOOLEAN  OBVIOUS
  <2> QED  BY <1>1, <1>3, <2>1 DEF ReqStates
<1>6. /\ n.kv = 1 /\ n.retracted = FALSE /\ n.inflight = f
      /\ n.committed = c /\ n.out = q.out /\ n.finished = q.finished
      /\ n.finLen = q.finLen /\ n.toFinish = q.toFinish /\ n.fsm = q.fsm /\ n.aux = q.aux
  BY <1>1 DEF ReqStates
<1> QED  BY <1>4, <1>5, <1>6 DEF q, f, c

LEMMA ExtendFrame ==
  ASSUME Frame, NEW P \in SUBSET Reqs, NEW M \in SUBSET Reqs, LaunchExtend(P, M),
         UNCHANGED mode
  PROVE  Frame'
<1> DEFINE res == Extension(P, M)
<1>0. Types /\ Phased  BY DEF Frame
<1>1. /\ phase = "plan" /\ \A r \in P : Prefilling(r)
      /\ \A r \in M : Running(r)
      /\ queue' = Append(queue, res)
      /\ req' = [r \in Reqs |-> IF r \in P THEN Admitted(r) ELSE req[r]]
      /\ launched' = [r \in Reqs |-> IF r \in P THEN launched[r] + 1 ELSE launched[r]]
      /\ gen' = [r \in Reqs |-> IF r \in M \/ (r \in P /\ launched[r] + 1 = Chunks[r])
                                THEN gen[r] + 1 ELSE gen[r]]
      /\ phase' = AfterLaunch /\ UNCHANGED <<fault, raised, retracts>>
  BY DEF LaunchExtend, Extension, ExtendOrder, ExtendToken
<1>2. /\ res \in Results /\ Shape(res)
      /\ \A r : Contains(res.reqs, r) <=> r \in P \cup M
      /\ res.middle = {r \in P : launched[r] + 1 < Chunks[r]}
      /\ res.mixed = M /\ P \cap M = {}
  BY <1>0, <1>1, ExtendResult
<1> HIDE DEF res
<1>3. Len(queue) \in 0 .. 1  BY <1>0, <1>1 DEF Phased
<1>4. /\ queue' \in Seq(Results) /\ Len(queue') = Len(queue) + 1
      /\ \A i \in 1 .. Len(queue') : Shape(queue'[i])
  BY <1>1, <1>2, <1>3, LaunchedQueue
<1>5. Types'
  <2>1. \A r \in Reqs : Admitted(r) \in ReqStates  BY <1>0, AdmittedFacts
  <2>2. req' \in [Reqs -> ReqStates]  BY <1>0, <1>1, <2>1 DEF Types
  <2>3. launched' \in [Reqs -> Nat] /\ gen' \in [Reqs -> Nat]  BY <1>0, <1>1 DEF Types
  <2>4. phase' \in {"plan", "process"}  BY <1>1 DEF AfterLaunch
  <2> QED  BY <1>0, <1>1, <1>4, <2>2, <2>3, <2>4 DEF Types
<1>6. Phased'
  <2>1. queue = << >> => Len(queue) = 0  BY EmptySeq
  <2>2. phase' = "plan" => Len(queue) = 0  BY <1>1, <2>1 DEF AfterLaunch
  <2>3. phase' \in {"plan", "process"}  BY <1>1 DEF AfterLaunch
  <2>4. Len(queue') \in 1 .. 2 /\ Len(queue') \in 0 .. 2
    <3>1. \A n : n \in 0 .. 1 => n + 1 \in 1 .. 2 /\ n + 1 \in 0 .. 2  OBVIOUS
    <3> QED  BY <1>3, <1>4, <3>1
  <2>5. Len(queue) = 0 => Len(queue') \in 0 .. 1  BY <1>4
  <2> QED  BY <2>2, <2>3, <2>4, <2>5 DEF Phased
<1>7. ASSUME NEW r \in Reqs  PROVE Drained(r)' /\ Prompted(r)' /\ Balanced(r)'
  <2>1. /\ Drained(r) /\ Prompted(r) /\ Balanced(r) /\ launched[r] \in Nat
        /\ Chunks[r] \in Nat \ {0} /\ req[r].inflight \in Nat
    BY <1>0, BatchAssumption DEF Frame, Types, ReqStates
  <2>2. ~req[r].retracted \/ ~Emits(1, r)  BY <1>1, <2>1 DEF Drained, Emits
  <2>3. Emits(1, r) => launched[r] = Chunks[r]  BY <2>1, <2>2 DEF Prompted
  <2>4. CASE r \in P
    <3>1. /\ ~req[r].finished /\ launched[r] + 1 <= Chunks[r] /\ r \notin M
          /\ launched'[r] = launched[r] + 1 /\ req'[r] = Admitted(r)
      BY <1>1, <1>2, <2>1, <2>4 DEF Prefilling
    <3>2. LET n == Admitted(r) IN
          /\ n.kv = 1 /\ n.retracted = FALSE /\ n.finished = req[r].finished
          /\ n.inflight = IF launched[r] + 1 = Chunks[r] THEN req[r].inflight
                          ELSE req[r].inflight + 1
      BY <1>0, AdmittedFacts
    <3>3. ~Emits(1, r)  BY <2>1, <2>3, <3>1
    <3>4. r \in res.middle <=> launched[r] + 1 < Chunks[r]  BY <1>2, <2>4
    <3>5. req'[r].inflight = req[r].inflight + Count(r \in res.middle)
      BY <2>1, <3>1, <3>2, <3>4 DEF Count
    <3>6. launched'[r] \in Nat \ {0}  BY <2>1, <3>1
    <3> QED  BY <1>1, <1>2, <1>3, <2>1, <3>1, <3>2, <3>3, <3>4, <3>5, <3>6, LaunchedFrame
  <2>5. CASE r \in M
    <3>1. /\ ~req[r].finished /\ ~req[r].retracted /\ launched[r] = Chunks[r]
          /\ launched'[r] = launched[r] /\ req'[r] = req[r]
          /\ r \notin res.middle /\ r \in res.mixed
      BY <1>1, <1>2, <2>5 DEF Running
    <3>2. req'[r].inflight = req[r].inflight + Count(r \in res.middle)
      BY <2>1, <3>1 DEF Count
    <3>3. req'[r].kv = IF req'[r].finished \/ req'[r].retracted \/ launched'[r] = 0
                       THEN 0 ELSE 1
      BY <2>1, <3>1 DEF Balanced
    <3>4. /\ launched'[r] \in Nat /\ launched'[r] <= Chunks[r] /\ launched'[r] # 0
          /\ launched'[r] = Chunks[r] /\ ~req'[r].retracted
          /\ req'[r].retracted = req[r].retracted
      BY <2>1, <3>1
    <3> QED  BY <1>1, <1>2, <1>3, <3>1, <3>2, <3>3, <3>4, LaunchedFrame
  <2>6. CASE r \notin P \cup M
    <3>1. /\ launched'[r] = launched[r] /\ req'[r] = req[r]
          /\ ~Contains(res.reqs, r) /\ r \notin res.middle
      BY <1>1, <1>2, <2>6
    <3>2. req'[r].inflight = req[r].inflight + Count(r \in res.middle)
      BY <2>1, <3>1 DEF Count
    <3>3. /\ req'[r].kv = IF req'[r].finished \/ req'[r].retracted \/ launched'[r] = 0
                          THEN 0 ELSE 1
          /\ launched[r] <= Chunks[r] /\ (req[r].retracted => ~req[r].finished)
      BY <2>1, <3>1 DEF Balanced, Prompted
    <3> QED  BY <1>1, <1>2, <1>3, <2>1, <3>1, <3>2, <3>3, LaunchedFrame
  <2> QED  BY <2>4, <2>5, <2>6
<1> QED  BY <1>4, <1>5, <1>6, <1>7, ShapeKept DEF Frame

LEMMA DecodeFrame ==
  ASSUME Frame, NEW accept \in [Reqs -> 1 .. MaxAccept], LaunchDecode(accept),
         UNCHANGED mode
  PROVE  Frame'
<1> DEFINE res == Decoding(accept)
<1>0. Types /\ Phased  BY DEF Frame
<1>1. /\ phase \in {"plan", "retract"} /\ queue' = Append(queue, res)
      /\ gen' = [r \in Reqs |-> IF r \in {s \in Reqs : Running(s)} THEN gen[r] + accept[r]
                                ELSE gen[r]]
      /\ phase' = "verify" /\ UNCHANGED <<req, launched, fault, raised, retracts>>
  BY DEF LaunchDecode, Decoding, DecodeOrder, DecodeTokens
<1>2. /\ res \in Results /\ Shape(res)
      /\ \A r : Contains(res.reqs, r) <=> r \in Reqs /\ Running(r)
      /\ res.middle = {} /\ res.kind = "decode"
  BY <1>0, DecodeResult
<1> HIDE DEF res
<1>3. Len(queue) \in 0 .. 1  BY <1>0, <1>1 DEF Phased
<1>4. /\ queue' \in Seq(Results) /\ Len(queue') = Len(queue) + 1
      /\ \A i \in 1 .. Len(queue') : Shape(queue'[i])
  BY <1>1, <1>2, <1>3, LaunchedQueue
<1>5. Types'
  <2>1. \A r \in Reqs : gen[r] \in Nat /\ accept[r] \in Nat
    BY <1>0, BatchAssumption DEF Types
  <2>2. gen' \in [Reqs -> Nat]  BY <1>1, <2>1
  <2> QED  BY <1>0, <1>1, <1>4, <2>2 DEF Types
<1>6. Phased'  BY <1>1, <1>3, <1>4 DEF Phased
<1>7. ASSUME NEW r \in Reqs  PROVE Drained(r)' /\ Prompted(r)' /\ Balanced(r)'
  <2>1. /\ Drained(r) /\ Prompted(r) /\ Balanced(r) /\ launched[r] \in Nat
        /\ Chunks[r] \in Nat \ {0} /\ req[r].inflight \in Nat
    BY <1>0, BatchAssumption DEF Frame, Types, ReqStates
  <2>2. /\ launched'[r] = launched[r] /\ req'[r] = req[r] /\ r \notin res.middle
        /\ Contains(res.reqs, r) =>
             ~req[r].finished /\ ~req[r].retracted /\ launched[r] = Chunks[r]
    BY <1>1, <1>2 DEF Running
  <2>3. req'[r].inflight = req[r].inflight + Count(r \in res.middle)
    BY <2>1, <2>2 DEF Count
  <2>4. /\ req'[r].kv = IF req'[r].finished \/ req'[r].retracted \/ launched'[r] = 0
                        THEN 0 ELSE 1
        /\ launched[r] <= Chunks[r] /\ (req[r].retracted => ~req[r].finished)
    BY <2>1, <2>2 DEF Balanced, Prompted
  <2> QED  BY <1>1, <1>2, <1>3, <2>1, <2>2, <2>3, <2>4, LaunchedFrame
<1> QED  BY <1>4, <1>5, <1>6, <1>7, ShapeKept DEF Frame

LEMMA LaunchNoneFrame ==
  ASSUME Frame, LaunchNone, UNCHANGED mode
  PROVE  Frame'
<1>1. /\ phase \in {"plan", "retract"} /\ queue # << >> /\ phase' = "process"
      /\ UNCHANGED <<req, queue, launched, gen, fault, raised, retracts>>
  BY DEF LaunchNone
<1>2. Types' /\ queue \in Seq(Results)  BY <1>1 DEF Frame, Types
<1>3. Len(queue) \in 1 .. 2 /\ Len(queue) \in 0 .. 2
  <2>1. Len(queue) \in 0 .. 1  BY <1>1 DEF Frame, Phased
  <2>2. Len(queue) # 0  BY <1>1, <1>2, EmptySeq
  <2> QED  BY <2>1, <2>2
<1>4. Phased'  BY <1>1, <1>3 DEF Phased
<1>5. \A i \in 1 .. Len(queue') : Shape(queue'[i])  BY <1>1 DEF Frame
<1>6. SameQueue  BY <1>1, <1>2 DEF SameQueue
<1>7. ASSUME NEW r \in Reqs  PROVE Drained(r)' /\ Prompted(r)' /\ Balanced(r)'
  <2>1. Drained(r) /\ Prompted(r) /\ Balanced(r)  BY DEF Frame
  <2>2. \A i \in {1, 2} : (Names(i, r)' <=> Names(i, r)) /\ (Middle(i, r)' <=> Middle(i, r))
    BY <1>2, <1>6, SameNames
  <2>3. Drained(r)'  BY <1>1, <2>1, <2>2 DEF Drained
  <2>4. Prompted(r)'  BY <1>1, <2>1, <2>2 DEF Prompted, Emits
  <2>5. Balanced(r)'  BY <1>1, <2>1, <2>2 DEF Balanced, Count
  <2> QED  BY <2>3, <2>4, <2>5
<1> QED  BY <1>2, <1>4, <1>5, <1>7, ShapeKept DEF Frame

LEMMA RetractFrame ==
  ASSUME Frame, NEW s \in Reqs, Retract(s), UNCHANGED mode
  PROVE  Frame'
<1>1. /\ phase \in {"plan", "retract"} /\ Running(s)
      /\ retracts < MaxRetracts /\ retracts' = retracts + 1
      /\ req' = [req EXCEPT ![s].retracted = TRUE, ![s].kv = @ - 1, ![s].committed = 0]
      /\ launched' = [launched EXCEPT ![s] = Chunks[s] - 1]
      /\ gen' = [gen EXCEPT ![s] = Len(req[s].out)]
      /\ phase' = "retract" /\ UNCHANGED <<queue, fault, raised>>
  BY DEF Retract
<1>2. Types /\ Phased /\ queue \in Seq(Results)  BY DEF Frame, Types
<1> DEFINE q == req[s]
           k == q.kv - 1
           n == [q EXCEPT !.retracted = TRUE, !.kv = k, !.committed = 0]
<1>3. /\ q \in ReqStates /\ launched[s] \in Nat /\ Chunks[s] \in Nat \ {0}
      /\ Len(q.out) \in Nat /\ k \in Int
  <2>1. q \in ReqStates  BY <1>2 DEF Types
  <2>2. q.out \in Seq(Tokens) /\ q.kv \in Int  BY <2>1 DEF ReqStates
  <2> QED  BY <1>2, <2>1, <2>2, LenProperties, BatchAssumption DEF Types
<1>4. req' = [req EXCEPT ![s] = n]  BY <1>1, <1>2 DEF Types
<1>5. Len(queue) \in 0 .. 1  BY <1>1, <1>2 DEF Phased
<1> HIDE DEF k
<1>6. n \in ReqStates  BY <1>3 DEF ReqStates
<1>7. /\ n.retracted = TRUE /\ n.kv = k /\ n.finished = q.finished
      /\ n.inflight = q.inflight
  BY <1>3 DEF ReqStates
<1> HIDE DEF n
<1>8. req'[s] = n /\ \A r \in Reqs : r # s => req'[r] = req[r]  BY <1>2, <1>4 DEF Types
<1>9. /\ launched'[s] = Chunks[s] - 1
      /\ \A r \in Reqs : r # s => launched'[r] = launched[r]
  BY <1>1, <1>2 DEF Types
<1>10. Types'
  <2>1. req' \in [Reqs -> ReqStates]  BY <1>2, <1>4, <1>6 DEF Types
  <2>2. launched' \in [Reqs -> Nat] /\ gen' \in [Reqs -> Nat]
    <3>1. Chunks[s] - 1 \in Nat  BY <1>3
    <3> QED  BY <1>1, <1>2, <1>3, <3>1 DEF Types
  <2>3. retracts' \in 0 .. MaxRetracts  BY <1>1, <1>2, BatchAssumption DEF Types
  <2> QED  BY <1>1, <1>2, <2>1, <2>2, <2>3 DEF Types
<1>11. Phased'  BY <1>1, <1>2, <1>5 DEF Phased
<1>12. \A i \in 1 .. Len(queue') : Shape(queue'[i])  BY <1>1 DEF Frame
<1>13. SameQueue  BY <1>1, <1>2 DEF SameQueue
<1>14. ASSUME NEW r \in Reqs  PROVE Drained(r)' /\ Prompted(r)' /\ Balanced(r)'
  <2>1. Drained(r) /\ Prompted(r) /\ Balanced(r)  BY DEF Frame
  <2>2. \A i \in {1, 2} : (Names(i, r)' <=> Names(i, r)) /\ (Middle(i, r)' <=> Middle(i, r))
    BY <1>2, <1>13, SameNames
  <2>3. ~Names(2, r) /\ ~Middle(2, r)  BY <1>5 DEF Names, Middle
  <2>4. /\ queue' = queue /\ phase' = "retract" /\ Len(queue') = Len(queue)
        /\ Middle(1, r) => Len(queue) = 1
    BY <1>1, <1>5 DEF Middle
  <2>5. CASE r = s
    <3>1. ~q.finished /\ ~q.retracted /\ launched[s] = Chunks[s]  BY <1>1 DEF Running
    <3>2. ~Middle(1, r)  BY <1>3, <2>1, <2>4, <2>5, <3>1 DEF Prompted
    <3>3. Drained(r)'  BY <1>1, <2>2, <2>3, <3>2 DEF Drained
    <3>4. Prompted(r)'
      BY <1>3, <1>7, <1>8, <1>9, <2>2, <2>3, <2>5, <3>1, <3>2 DEF Prompted, Emits
    <3>5. k = 0 /\ q.inflight = 0
      BY <1>3, <2>1, <2>3, <2>5, <3>1, <3>2 DEF Balanced, Count, k
    <3>6. Balanced(r)'
      BY <1>7, <1>8, <2>2, <2>3, <2>5, <3>2, <3>5 DEF Balanced, Count
    <3> QED  BY <3>3, <3>4, <3>6
  <2>6. CASE r # s
    <3>1. req'[r] = req[r] /\ launched'[r] = launched[r]  BY <1>8, <1>9, <2>6
    <3>2. Drained(r)'  BY <2>1, <2>2, <2>4, <3>1 DEF Drained
    <3>3. Prompted(r)'  BY <2>1, <2>2, <2>4, <3>1 DEF Prompted, Emits
    <3>4. Balanced(r)'  BY <2>1, <2>2, <3>1 DEF Balanced, Count
    <3> QED  BY <3>2, <3>3, <3>4
  <2> QED  BY <2>5, <2>6
<1> QED  BY <1>10, <1>11, <1>12, <1>14, ShapeKept DEF Frame

\* A step that keeps the queue and where every prompt is.
LEMMA SteadyFrame ==
  ASSUME Frame, Types', SameQueue, UNCHANGED <<mode, launched>>,
         \A i \in 1 .. Len(queue') : Shape(queue'[i]), Phased',
         \A r \in Reqs :
           /\ req'[r].retracted = req[r].retracted /\ req'[r].inflight = req[r].inflight
           /\ req[r].retracted => ~req'[r].finished
           /\ req'[r].kv = IF req'[r].finished \/ req'[r].retracted \/ launched[r] = 0
                           THEN 0 ELSE 1,
         \/ phase' \in {phase, "process"}
         \/ phase' = "plan" /\ phase = "verify" /\ Len(queue) = 1
  PROVE  Frame'
<1>1. queue \in Seq(Results) /\ Len(queue') = Len(queue) /\ Len(queue) \in Nat
  BY DEF Frame, Types, SameQueue
<1>2. ASSUME NEW r \in Reqs  PROVE Drained(r)' /\ Prompted(r)' /\ Balanced(r)'
  <2>1. Drained(r) /\ Prompted(r) /\ Balanced(r)  BY DEF Frame
  <2>2. \A i \in {1, 2} : (Names(i, r)' <=> Names(i, r)) /\ (Middle(i, r)' <=> Middle(i, r))
    BY <1>1, SameNames
  <2>3. Names(2, r) => queue'[2].kind = queue[2].kind /\ queue'[2].mixed = queue[2].mixed
    <3>1. Names(2, r) => 2 \in 1 .. Len(queue)  BY <1>1 DEF Names
    <3> QED  BY <3>1 DEF SameQueue
  <2>4. /\ req'[r].retracted = req[r].retracted /\ req'[r].inflight = req[r].inflight
        /\ req[r].retracted => ~req'[r].finished
        /\ req'[r].kv = IF req'[r].finished \/ req'[r].retracted \/ launched[r] = 0
                        THEN 0 ELSE 1
        /\ launched'[r] = launched[r]
    OBVIOUS
  <2>5. Drained(r)'  BY <1>1, <2>1, <2>2, <2>4 DEF Drained
  <2>6. Prompted(r)'  BY <1>1, <2>1, <2>2, <2>3, <2>4 DEF Prompted, Emits
  <2>7. Balanced(r)'  BY <2>1, <2>2, <2>4 DEF Balanced, Count
  <2> QED  BY <2>5, <2>6, <2>7
<1> QED  BY <1>2, ShapeKept DEF Frame

LEMMA AbortFrame ==
  ASSUME Frame, NEW s \in Reqs, Abort(s), UNCHANGED mode
  PROVE  Frame'
<1> DEFINE q == req[s]
           k == q.kv - 1
           gone == [q EXCEPT !.finished = TRUE, !.kv = k]
           ending == [q EXCEPT !.toFinish = TRUE]
           n == IF launched[s] < Chunks[s] THEN gone ELSE ending
<1>1. /\ phase = "plan" /\ ~q.finished /\ ~q.retracted /\ q.kv = 1
      /\ req' = [req EXCEPT ![s] = n]
      /\ UNCHANGED <<queue, phase, launched, gen, fault, raised, retracts>>
  BY DEF Abort
<1>2. Types /\ Phased /\ queue \in Seq(Results)  BY DEF Frame, Types
<1>3. q \in ReqStates /\ k = 0 /\ Chunks[s] \in Nat \ {0}
  BY <1>1, <1>2, BatchAssumption DEF Types
<1> HIDE DEF k
<1>4. /\ gone \in ReqStates /\ gone.finished = TRUE /\ gone.kv = 0
      /\ gone.retracted = q.retracted /\ gone.inflight = q.inflight
  <2>1. k \in Int  BY <1>3
  <2>2. gone \in ReqStates  BY <1>3, <2>1 DEF ReqStates
  <2>3. /\ gone.finished = TRUE /\ gone.kv = k
        /\ gone.retracted = q.retracted /\ gone.inflight = q.inflight
    BY <1>3 DEF ReqStates
  <2> QED  BY <1>3, <2>2, <2>3
<1>5. /\ ending \in ReqStates /\ ending.finished = q.finished /\ ending.kv = q.kv
      /\ ending.retracted = q.retracted /\ ending.inflight = q.inflight
  BY <1>3 DEF ReqStates
<1>6. n = gone \/ (n = ending /\ ~(launched[s] < Chunks[s]))  OBVIOUS
<1> HIDE DEF q, gone, ending, n
<1>7. n \in ReqStates  BY <1>4, <1>5, <1>6
<1>8. req'[s] = n /\ \A r \in Reqs : r # s => req'[r] = req[r]  BY <1>1, <1>2 DEF Types
<1>9. Types'  BY <1>1, <1>2, <1>7 DEF Types
<1>10. Phased'  BY <1>1, <1>2 DEF Phased
<1>11. \A i \in 1 .. Len(queue') : Shape(queue'[i])  BY <1>1 DEF Frame
<1>12. SameQueue  BY <1>1, <1>2 DEF SameQueue
<1>13. ASSUME NEW r \in Reqs
       PROVE  /\ req'[r].retracted = req[r].retracted /\ req'[r].inflight = req[r].inflight
              /\ req[r].retracted => ~req'[r].finished
              /\ req'[r].kv = IF req'[r].finished \/ req'[r].retracted \/ launched[r] = 0
                              THEN 0 ELSE 1
  <2>1. Balanced(r) /\ Prompted(r) /\ launched[r] \in Nat  BY <1>2 DEF Frame, Types
  <2>2. CASE r # s  BY <1>8, <2>1, <2>2 DEF Balanced, Prompted
  <2>3. CASE r = s
    <3>1. q.finished = FALSE /\ q.retracted = FALSE /\ q.kv = 1 /\ req[r] = q
      BY <1>1, <1>3, <2>3 DEF q, ReqStates
    <3>2. n = gone \/ (n = ending /\ launched[r] # 0)  BY <1>3, <1>6, <2>1, <2>3
    <3> QED  BY <1>4, <1>5, <1>8, <2>3, <3>1, <3>2
  <2> QED  BY <2>2, <2>3
<1> QED  BY <1>1, <1>9, <1>10, <1>11, <1>12, <1>13, SteadyFrame

\* A step that changes no more of a result than its flags.
LEMMA FlagShape ==
  ASSUME NEW res \in Results, NEW n \in Results, Shape(res),
         n.reqs = res.reqs, n.accept = res.accept, n.tokens = res.tokens,
         n.stride = res.stride, n.middle = res.middle, n.mixed = res.mixed,
         n.base = res.base, n.kind = res.kind, n.hasGrammar = res.hasGrammar,
         n.advanced => Len(n.retained) = Len(n.reqs)
  PROVE  Shape(n)
  BY DEF Shape

LEMMA CopiedFrame ==
  ASSUME Frame, Copied, UNCHANGED mode
  PROVE  Frame'
<1>1. PICK k \in DOMAIN queue : queue' = [queue EXCEPT ![k].copied = TRUE]  BY DEF Copied
<1>2. UNCHANGED <<req, phase, launched, gen, fault, raised, retracts>>  BY DEF Copied
<1>3. Types /\ Phased /\ queue \in Seq(Results)  BY DEF Frame, Types
<1> DEFINE n == [queue[k] EXCEPT !.copied = TRUE]
<1>4. k \in 1 .. Len(queue) /\ queue[k] \in Results /\ Shape(queue[k])
  BY <1>3 DEF Frame
<1>5. /\ n \in Results /\ n.reqs = queue[k].reqs /\ n.accept = queue[k].accept
      /\ n.tokens = queue[k].tokens /\ n.stride = queue[k].stride
      /\ n.middle = queue[k].middle /\ n.mixed = queue[k].mixed
      /\ n.base = queue[k].base /\ n.kind = queue[k].kind
      /\ n.hasGrammar = queue[k].hasGrammar /\ n.advanced = queue[k].advanced
      /\ n.retained = queue[k].retained
  BY <1>4 DEF Results
<1>6. queue' = [queue EXCEPT ![k] = n]  BY <1>1
<1> HIDE DEF n
<1>7. Shape(n)
  <2>1. n.advanced => Len(n.retained) = Len(n.reqs)  BY <1>4, <1>5 DEF Shape
  <2> QED  BY <1>4, <1>5, <2>1, FlagShape
<1>8. /\ queue' \in Seq(Results) /\ Len(queue') = Len(queue)
      /\ \A i \in 1 .. Len(queue) : queue'[i] = IF i = k THEN n ELSE queue[i]
  BY <1>3, <1>4, <1>5, <1>6, ExceptSeq
<1>9. SameQueue
  <2>1. \A i \in 1 .. Len(queue) :
          /\ queue'[i].reqs = queue[i].reqs /\ queue'[i].middle = queue[i].middle
          /\ queue'[i].kind = queue[i].kind /\ queue'[i].mixed = queue[i].mixed
    BY <1>5, <1>8
  <2> QED  BY <1>8, <2>1 DEF SameQueue
<1>10. Types'  BY <1>2, <1>3, <1>8 DEF Types
<1>11. Phased'  BY <1>2, <1>3, <1>8 DEF Phased
<1>12. \A i \in 1 .. Len(queue') : Shape(queue'[i])
  <2>1. \A i \in 1 .. Len(queue) : Shape(queue[i])  BY DEF Frame
  <2> QED  BY <1>7, <1>8, <2>1
<1>13. \A r \in Reqs : Balanced(r) /\ Prompted(r)  BY DEF Frame
<1>14. \A r \in Reqs :
         /\ req'[r].retracted = req[r].retracted /\ req'[r].inflight = req[r].inflight
         /\ req[r].retracted => ~req'[r].finished
         /\ req'[r].kv = IF req'[r].finished \/ req'[r].retracted \/ launched[r] = 0
                         THEN 0 ELSE 1
  BY <1>2, <1>13 DEF Balanced, Prompted
<1> QED  BY <1>2, <1>9, <1>10, <1>11, <1>12, <1>14, SteadyFrame

LEMMA FaultFrame ==
  ASSUME Frame, TransportFault, UNCHANGED mode
  PROVE  Frame'
<1>1. /\ fault' = TRUE /\ UNCHANGED <<req, phase, launched, gen, raised, retracts>>
      /\ queue' = [i \in DOMAIN queue |->
                     [queue[i] EXCEPT !.bad = @ \/ ~queue[i].copied]]
  BY DEF TransportFault
<1>2. Types /\ Phased /\ queue \in Seq(Results) /\ DOMAIN queue = 1 .. Len(queue)
  BY DEF Frame, Types
<1>3. ASSUME NEW i \in 1 .. Len(queue)
      PROVE  /\ queue'[i] \in Results /\ Shape(queue'[i])
             /\ queue'[i].reqs = queue[i].reqs /\ queue'[i].middle = queue[i].middle
             /\ queue'[i].kind = queue[i].kind /\ queue'[i].mixed = queue[i].mixed
  <2> DEFINE q == queue[i]
             b == q.bad \/ ~q.copied
             n == [q EXCEPT !.bad = b]
  <2>1. queue'[i] = n /\ q \in Results /\ Shape(q) /\ b \in BOOLEAN  BY <1>1, <1>2 DEF Frame
  <2> HIDE DEF q, b
  <2>2. /\ n \in Results /\ n.reqs = q.reqs /\ n.accept = q.accept
        /\ n.tokens = q.tokens /\ n.stride = q.stride /\ n.middle = q.middle
        /\ n.mixed = q.mixed /\ n.base = q.base /\ n.kind = q.kind
        /\ n.hasGrammar = q.hasGrammar /\ n.advanced = q.advanced
        /\ n.retained = q.retained
    BY <2>1 DEF Results
  <2> HIDE DEF n
  <2>3. Shape(n)
    <3>1. n.advanced => Len(n.retained) = Len(n.reqs)  BY <2>1, <2>2 DEF Shape
    <3> QED  BY <2>1, <2>2, <3>1, FlagShape
  <2> QED  BY <2>1, <2>2, <2>3 DEF q
<1>4. queue' \in Seq(Results) /\ Len(queue') = Len(queue)
  <2>1. Len(queue) \in Nat  BY <1>2
  <2>2. queue' \in [1 .. Len(queue) -> Results]  BY <1>1, <1>2, <1>3
  <2> QED  BY <2>1, <2>2
<1>5. SameQueue  BY <1>3, <1>4 DEF SameQueue
<1>6. Types'  BY <1>1, <1>2, <1>4 DEF Types
<1>7. Phased'  BY <1>1, <1>2, <1>4 DEF Phased
<1>8. \A i \in 1 .. Len(queue') : Shape(queue'[i])  BY <1>3, <1>4
<1>9. \A r \in Reqs : Balanced(r) /\ Prompted(r)  BY DEF Frame
<1>10. \A r \in Reqs :
         /\ req'[r].retracted = req[r].retracted /\ req'[r].inflight = req[r].inflight
         /\ req[r].retracted => ~req'[r].finished
         /\ req'[r].kv = IF req'[r].finished \/ req'[r].retracted \/ launched[r] = 0
                         THEN 0 ELSE 1
  BY <1>1, <1>9 DEF Balanced, Prompted
<1> QED  BY <1>1, <1>5, <1>6, <1>7, <1>8, <1>10, SteadyFrame

\* The grammar state of a request after the barrier or the processor has
\* advanced it, and the result with the runs that were retained.
LEMMA AdvancedFacts ==
  ASSUME Types, NEW res \in Results, Shape(res), NEW r \in Reqs
  PROVE  LET n == Advanced(res, req)[r]
             q == req[r]
             run == Accepted(res, Position(res, r)) IN
         /\ n \in ReqStates /\ n.out = q.out /\ n.inflight = q.inflight
         /\ n.finished = q.finished /\ n.finLen = q.finLen /\ n.retracted = q.retracted
         /\ n.committed = q.committed /\ n.kv = q.kv /\ n.aux = q.aux
         /\ IF AdvancesFsm(res) /\ Contains(res.reqs, r) /\ Advances(res, r, q)
            THEN /\ n.fsm = q.fsm + Len(Retain(r, run))
                 /\ n.toFinish <=> q.toFinish \/ Illegal(r, run)
            ELSE n = q
<1> DEFINE q == req[r]
           run == Accepted(res, Position(res, r))
           does == AdvancesFsm(res) /\ Contains(res.reqs, r) /\ Advances(res, r, q)
           n == Advanced(res, req)[r]
<1>1. q \in ReqStates  BY DEF Types
<1>2. n = IF does THEN AcceptGrammar(r, q, run) ELSE q  BY DEF Advanced
<1>3. does => Contains(res.reqs, r)  OBVIOUS
<1> HIDE DEF n, does
<1>4. CASE ~does
  <2>1. n = q  BY <1>2, <1>4
  <2> QED  BY <1>1, <1>4, <2>1 DEF does, n
<1>5. CASE does
  <2>1. run \in Seq(Tokens)  BY <1>3, <1>5, Placed, AcceptedRun
  <2> HIDE DEF run, q
  <2>2. LET m == AcceptGrammar(r, q, run) IN
        /\ m \in ReqStates /\ m.fsm = q.fsm + Len(Retain(r, run))
        /\ m.toFinish <=> q.toFinish \/ Illegal(r, run)
        /\ m.out = q.out /\ m.inflight = q.inflight /\ m.finished = q.finished
        /\ m.finLen = q.finLen /\ m.retracted = q.retracted
        /\ m.committed = q.committed /\ m.kv = q.kv /\ m.aux = q.aux
    BY <1>1, <2>1, AcceptFacts
  <2>3. n = AcceptGrammar(r, q, run)  BY <1>2, <1>5
  <2>4. /\ n \in ReqStates /\ n.fsm = q.fsm + Len(Retain(r, run))
        /\ n.toFinish <=> q.toFinish \/ Illegal(r, run)
        /\ n.out = q.out /\ n.inflight = q.inflight /\ n.finished = q.finished
        /\ n.finLen = q.finLen /\ n.retracted = q.retracted
        /\ n.committed = q.committed /\ n.kv = q.kv /\ n.aux = q.aux
    BY <2>2, <2>3
  <2> QED  BY <1>5, <2>4 DEF does, n, q, run
<1> QED  BY <1>4, <1>5

LEMMA MemoizedFacts ==
  ASSUME Types, NEW res \in Results, Shape(res)
  PROVE  LET n == Memoized(res, req) IN
         /\ n \in Results /\ Shape(n)
         /\ n.kind = res.kind /\ n.reqs = res.reqs /\ n.mixed = res.mixed
         /\ n.tokens = res.tokens /\ n.accept = res.accept /\ n.stride = res.stride
         /\ n.middle = res.middle /\ n.base = res.base /\ n.copied = res.copied
         /\ n.bad = res.bad /\ n.hasGrammar = res.hasGrammar
         /\ n.advanced <=> res.advanced \/ res.hasGrammar
         /\ IF AdvancesFsm(res)
            THEN \A i \in 1 .. Len(res.reqs) : n.retained[i] =
                   IF Advances(res, res.reqs[i], req[res.reqs[i]])
                   THEN Retain(res.reqs[i], Accepted(res, i)) ELSE << >>
            ELSE n = res
<1> DEFINE n == Memoized(res, req)
           kept == [i \in DOMAIN res.reqs |->
                      IF Advances(res, res.reqs[i], req[res.reqs[i]])
                      THEN Retain(res.reqs[i], Accepted(res, i)) ELSE << >>]
<1>1. n = IF ~AdvancesFsm(res) THEN res ELSE [res EXCEPT !.advanced = TRUE, !.retained = kept]
  BY DEF Memoized
<1>2. res.reqs \in Seq(Reqs) /\ DOMAIN res.reqs = 1 .. Len(res.reqs) /\ Len(res.reqs) \in Nat
  BY DEF Results
<1>3. kept \in Seq(Seq(Tokens)) /\ Len(kept) = Len(res.reqs)
  <2>1. \A i \in 1 .. Len(res.reqs) : kept[i] \in Seq(Tokens)
    <3> SUFFICES ASSUME NEW i \in 1 .. Len(res.reqs)  PROVE kept[i] \in Seq(Tokens)
      OBVIOUS
    <3>1. Accepted(res, i) \in Seq(Tokens)  BY AcceptedRun
    <3>2. Retain(res.reqs[i], Accepted(res, i)) \in Seq(Tokens)  BY <3>1, Retaining
    <3>3. << >> \in Seq(Tokens)  OBVIOUS
    <3> QED  BY <1>2, <3>2, <3>3
  <2>2. kept \in [1 .. Len(res.reqs) -> Seq(Tokens)]  BY <1>2, <2>1
  <2> QED  BY <1>2, <2>2
<1>4. \A i \in 1 .. Len(res.reqs) : kept[i] =
        IF Advances(res, res.reqs[i], req[res.reqs[i]])
        THEN Retain(res.reqs[i], Accepted(res, i)) ELSE << >>
  BY <1>2
<1> HIDE DEF n, kept
<1>5. CASE ~AdvancesFsm(res)
  <2>1. n = res /\ (res.advanced <=> res.advanced \/ res.hasGrammar)
    BY <1>1, <1>5 DEF AdvancesFsm
  <2> QED  BY <1>5, <2>1 DEF n
<1>6. CASE AdvancesFsm(res)
  <2> DEFINE m == [res EXCEPT !.advanced = TRUE, !.retained = kept]
  <2>1. n = m  BY <1>1, <1>6
  <2>2. m \in Results
    <3>1. TRUE \in BOOLEAN  OBVIOUS
    <3> QED  BY <1>3, <3>1 DEF Results
  <2>3. /\ m.kind = res.kind /\ m.reqs = res.reqs /\ m.mixed = res.mixed
        /\ m.tokens = res.tokens /\ m.accept = res.accept /\ m.stride = res.stride
        /\ m.middle = res.middle /\ m.base = res.base /\ m.copied = res.copied
        /\ m.bad = res.bad /\ m.hasGrammar = res.hasGrammar
        /\ m.advanced = TRUE /\ m.retained = kept
    BY DEF Results
  <2> HIDE DEF m
  <2>4. Shape(m)  BY <1>3, <2>2, <2>3, FlagShape
  <2>5. res.hasGrammar  BY <1>6 DEF AdvancesFsm
  <2>6. /\ n \in Results /\ Shape(n)
        /\ n.kind = res.kind /\ n.reqs = res.reqs /\ n.mixed = res.mixed
        /\ n.tokens = res.tokens /\ n.accept = res.accept /\ n.stride = res.stride
        /\ n.middle = res.middle /\ n.base = res.base /\ n.copied = res.copied
        /\ n.bad = res.bad /\ n.hasGrammar = res.hasGrammar
        /\ n.advanced <=> res.advanced \/ res.hasGrammar
        /\ n.retained = kept
    BY <2>1, <2>2, <2>3, <2>4, <2>5
  <2> QED  BY <1>4, <1>6, <2>6 DEF n
<1> QED  BY <1>5, <1>6

\* A step that changes nothing but the phase, or raises.
LEMMA StutterFrame ==
  ASSUME Frame, Types', UNCHANGED <<mode, launched, req, queue>>,
         \/ phase' \in {phase, "process"} /\ (phase' = "process" => Len(queue) \in 1 .. 2)
         \/ phase' = "plan" /\ phase = "verify" /\ Len(queue) = 1
  PROVE  Frame'
<1>1. queue \in Seq(Results) /\ Phased /\ Len(queue) \in 0 .. 2
  BY DEF Frame, Types, Phased
<1>2. SameQueue  BY <1>1 DEF SameQueue
<1>3. \A i \in 1 .. Len(queue') : Shape(queue'[i])  BY DEF Frame
<1>4. Phased'
  <2>1. CASE phase' = phase  BY <1>1, <2>1 DEF Phased
  <2>2. CASE phase' # phase  BY <1>1, <2>2 DEF Phased
  <2> QED  BY <2>1, <2>2
<1>5. \A r \in Reqs : Balanced(r) /\ Prompted(r)  BY DEF Frame
<1>6. \A r \in Reqs :
         /\ req'[r].retracted = req[r].retracted /\ req'[r].inflight = req[r].inflight
         /\ req[r].retracted => ~req'[r].finished
         /\ req'[r].kv = IF req'[r].finished \/ req'[r].retracted \/ launched[r] = 0
                         THEN 0 ELSE 1
  BY <1>5 DEF Balanced, Prompted
<1> QED  BY <1>2, <1>3, <1>4, <1>6, SteadyFrame

LEMMA BarrierFrame ==
  ASSUME Frame, Barrier, UNCHANGED mode
  PROVE  Frame'
<1> DEFINE res == Head(queue)
           behind == Len(queue) = 2 /\ HasGrammar(Last(queue).reqs) /\ AdvancesFsm(res)
<1>1. Types /\ Phased /\ queue \in Seq(Results)  BY DEF Frame, Types
<1>2. phase = "verify"  BY DEF Barrier
<1>3. Len(queue) \in 1 .. 2  BY <1>1, <1>2 DEF Phased
<1>4. queue # << >> /\ res = queue[1] /\ 1 \in 1 .. Len(queue)
  <2>1. Len(<< >>) = 0 /\ 0 \notin 1 .. 2  BY EmptySeq
  <2> QED  BY <1>3, <2>1
<1>5. res \in Results /\ Shape(res)  BY <1>1, <1>4 DEF Frame
<1>6. \/ behind /\ fault /\ raised' = "roce"
         /\ UNCHANGED <<req, queue, phase, launched, gen, fault, retracts>>
      \/ /\ behind /\ ~fault /\ req' = Advanced(res, req)
         /\ queue' = [queue EXCEPT ![1] = Memoized(res, req)]
         /\ phase' = "process" /\ UNCHANGED <<launched, gen, fault, raised, retracts>>
      \/ /\ ~behind
         /\ phase' = IF Overlap /\ Len(queue) = 1 THEN "plan" ELSE "process"
         /\ UNCHANGED <<req, queue, launched, gen, fault, raised, retracts>>
  BY DEF Barrier, Raise
<1> HIDE DEF res
<1>7. CASE /\ fault /\ raised' = "roce"
           /\ UNCHANGED <<req, queue, phase, launched, gen, fault, retracts>>
  <2>1. Types'  BY <1>1, <1>7 DEF Types
  <2> QED  BY <1>2, <1>7, <2>1, StutterFrame
<1>8. CASE /\ phase' = IF Overlap /\ Len(queue) = 1 THEN "plan" ELSE "process"
           /\ UNCHANGED <<req, queue, launched, gen, fault, raised, retracts>>
  <2>1. Types'  BY <1>1, <1>8 DEF Types
  <2> QED  BY <1>2, <1>3, <1>8, <2>1, StutterFrame
<1>9. CASE /\ behind /\ req' = Advanced(res, req)
           /\ queue' = [queue EXCEPT ![1] = Memoized(res, req)]
           /\ phase' = "process" /\ UNCHANGED <<launched, gen, fault, raised, retracts>>
  <2> DEFINE n == Memoized(res, req)
  <2>1. /\ n \in Results /\ Shape(n) /\ n.kind = res.kind /\ n.reqs = res.reqs
        /\ n.mixed = res.mixed /\ n.middle = res.middle
    BY <1>1, <1>5, MemoizedFacts
  <2> HIDE DEF n
  <2>2. /\ queue' \in Seq(Results) /\ Len(queue') = Len(queue)
        /\ \A i \in 1 .. Len(queue) : queue'[i] = IF i = 1 THEN n ELSE queue[i]
    BY <1>1, <1>4, <1>9, <2>1, ExceptSeq DEF n
  <2>3. SameQueue  BY <1>4, <2>1, <2>2 DEF SameQueue
  <2>4. \A i \in 1 .. Len(queue') : Shape(queue'[i])  BY <2>1, <2>2 DEF Frame
  <2>5. ASSUME NEW r \in Reqs
        PROVE  /\ req'[r] \in ReqStates /\ req'[r].finished = req[r].finished
               /\ req'[r].retracted = req[r].retracted
               /\ req'[r].inflight = req[r].inflight /\ req'[r].kv = req[r].kv
    BY <1>1, <1>5, <1>9, AdvancedFacts
  <2>6. Types'
    <3>1. req' = [r \in Reqs |-> req'[r]]  BY <1>9 DEF Advanced
    <3>2. req' \in [Reqs -> ReqStates]  BY <2>5, <3>1
    <3> QED  BY <1>1, <1>9, <2>2, <3>2 DEF Types
  <2>7. Phased'  BY <1>3, <1>9, <2>2 DEF Phased
  <2>8. \A r \in Reqs : Balanced(r) /\ Prompted(r)  BY DEF Frame
  <2>9. \A r \in Reqs :
         /\ req'[r].retracted = req[r].retracted /\ req'[r].inflight = req[r].inflight
         /\ req[r].retracted => ~req'[r].finished
         /\ req'[r].kv = IF req'[r].finished \/ req'[r].retracted \/ launched[r] = 0
                         THEN 0 ELSE 1
    BY <2>5, <2>8 DEF Balanced, Prompted
  <2> QED  BY <1>9, <2>3, <2>4, <2>6, <2>7, <2>9, SteadyFrame
<1> QED  BY <1>6, <1>7, <1>8, <1>9

-----------------------------------------------------------------------------
(* Processing the head of the queue.                                       *)

LEMMA ResolvedFacts ==
  ASSUME Frame, Len(queue) \in 1 .. 2
  PROVE  /\ Head(queue) = queue[1] /\ queue[1] \in Results /\ Shape(queue[1])
         /\ Resolved \in Results /\ Shape(Resolved)
         /\ Resolved.kind = queue[1].kind /\ Resolved.reqs = queue[1].reqs
         /\ Resolved.mixed = queue[1].mixed /\ Resolved.middle = queue[1].middle
         /\ queue[1].kind = "extend" => Resolved = queue[1] /\ Resolving = req
         /\ queue[1].kind = "decode" =>
              Resolved = Memoized(queue[1], req) /\ Resolving = Advanced(queue[1], req)
         /\ \A r \in Reqs : \A i : /\ Position(Resolved, r) = Position(queue[1], r)
                                   /\ Accepted(Resolved, i) = Accepted(queue[1], i)
<1>1. Types /\ queue \in Seq(Results)  BY DEF Frame, Types
<1>2. queue # << >> /\ Head(queue) = queue[1] /\ 1 \in 1 .. Len(queue)
  <2>1. Len(<< >>) = 0 /\ 0 \notin 1 .. 2  BY EmptySeq
  <2> QED  BY <2>1
<1>3. queue[1] \in Results /\ Shape(queue[1])  BY <1>1, <1>2 DEF Frame
<1>4. queue[1].kind \in {"extend", "decode"}  BY <1>3 DEF Results
<1>5. CASE queue[1].kind = "extend"
  <2>1. Resolved = queue[1] /\ Resolving = req  BY <1>2, <1>5 DEF Resolved, Resolving
  <2> QED  BY <1>2, <1>3, <1>5, <2>1
<1>6. CASE queue[1].kind = "decode"
  <2> DEFINE n == Memoized(queue[1], req)
  <2>1. Resolved = n /\ Resolving = Advanced(queue[1], req)
    BY <1>2, <1>6 DEF Resolved, Resolving
  <2>2. /\ n \in Results /\ Shape(n) /\ n.kind = queue[1].kind
        /\ n.reqs = queue[1].reqs /\ n.mixed = queue[1].mixed
        /\ n.tokens = queue[1].tokens /\ n.accept = queue[1].accept
        /\ n.stride = queue[1].stride /\ n.middle = queue[1].middle
        /\ n.copied = queue[1].copied /\ n.bad = queue[1].bad
    BY <1>1, <1>3, MemoizedFacts
  <2> HIDE DEF n
  <2>3. \A r : Position(n, r) = Position(queue[1], r)  BY <2>2 DEF Position
  <2>4. \A i : Accepted(n, i) = Accepted(queue[1], i)  BY <2>2 DEF Accepted, HostTokens
  <2> QED  BY <1>2, <1>3, <1>6, <2>1, <2>2, <2>3, <2>4 DEF n
<1> QED  BY <1>4, <1>5, <1>6

LEMMA AlarmFacts ==
  /\ Alarm \in {"no", "roce", "grammar", "backwards"}
  /\ Alarm \in {"no", "backwards"} =>
       /\ ~fault
       /\ \A r \in Reqs : Contains(Resolved.reqs, r) =>
            Resolved.kind # "decode" \/ Resolved.advanced \/ r \notin Grammar \/ Ended(req[r])
  /\ Alarm = "grammar" =>
       /\ Resolved.kind = "decode" /\ ~Resolved.advanced
       /\ \E r \in Reqs : Contains(Resolved.reqs, r) /\ r \in Grammar
  /\ Alarm = "backwards" =>
       \E r \in Reqs : /\ Contains(Resolved.reqs, r)
                       /\ Visible(Processed(r)) < Visible(req[r])
<1> DEFINE lost == /\ Resolved.kind = "decode" /\ ~Resolved.advanced
                   /\ \E r \in Reqs : /\ Contains(Resolved.reqs, r)
                                      /\ r \in Grammar /\ ~Ended(req[r])
           back == \E r \in Reqs : /\ Contains(Resolved.reqs, r)
                                   /\ Visible(Processed(r)) < Visible(req[r])
<1>1. Alarm = IF fault THEN "roce" ELSE IF lost THEN "grammar"
              ELSE IF back THEN "backwards" ELSE "no"
  BY DEF Alarm, SnapshotStart
<1>2. CASE fault  BY <1>1, <1>2
<1>3. CASE ~fault /\ lost  BY <1>1, <1>3
<1>4. CASE ~fault /\ ~lost /\ back  BY <1>1, <1>4
<1>5. CASE ~fault /\ ~lost /\ ~back  BY <1>1, <1>5
<1> QED  BY <1>2, <1>3, <1>4, <1>5

\* When no run is missing, one was retained of every request with a grammar.
LEMMA NoneMissing ==
  ASSUME Frame, Len(queue) \in 1 .. 2, Alarm \in {"no", "backwards"},
         NEW r \in Reqs, Emits(1, r), ~Ended(req[r])
  PROVE  ~fault /\ (queue[1].kind = "decode" /\ r \in Grammar => Resolved.advanced)
<1>1. Resolved.kind = queue[1].kind /\ Resolved.reqs = queue[1].reqs  BY ResolvedFacts
<1>2. Contains(Resolved.reqs, r)  BY <1>1 DEF Emits, Names
<1> QED  BY <1>1, <1>2, AlarmFacts

\* The tokens that the processor appends to the output of r.
Given(r) ==
  IF queue[1].kind = "decode" /\ r \in Grammar
    THEN Resolved.retained[Position(queue[1], r)]
    ELSE Accepted(queue[1], Position(queue[1], r))

LEMMA DecodedFacts ==
  ASSUME NEW res \in Results, Shape(res), NEW r \in Reqs, Contains(res.reqs, r),
         NEW q \in ReqStates, Limit[r] \in Nat, ~Ended(q), r \in Grammar => res.advanced
  PROVE  LET run == IF r \in Grammar THEN res.retained[Position(res, r)]
                    ELSE Accepted(res, Position(res, r))
             n == Decoded(res, r, q) IN
         /\ run \in Seq(Tokens) /\ n \in ReqStates /\ n.out = q.out \o run
         /\ n.committed = q.committed + Len(run)
         /\ n.finished <=> q.toFinish \/ Len(q.out \o run) >= Limit[r]
         /\ n.finLen = IF ~q.toFinish /\ Len(q.out \o run) >= Limit[r]
                       THEN Limit[r] ELSE q.finLen
         /\ n.kv = q.kv - Count(n.finished)
         /\ n.inflight = q.inflight /\ n.toFinish = q.toFinish
         /\ n.retracted = q.retracted /\ n.fsm = q.fsm /\ n.aux = q.aux
<1> DEFINE i == Position(res, r)
           run == IF r \in Grammar THEN res.retained[i] ELSE Accepted(res, i)
           c == q.committed + Len(run)
<1>1. i \in 1 .. Len(res.reqs)  BY Placed
<1>2. run \in Seq(Tokens)
  <2>1. CASE r \in Grammar
    <3>1. Len(res.retained) = Len(res.reqs)  BY <2>1 DEF Shape
    <3>2. res.retained \in Seq(Seq(Tokens))  BY DEF Results
    <3>3. res.retained[i] \in Seq(Tokens)  BY <1>1, <3>1, <3>2, ElementOfSeq
    <3> QED  BY <2>1, <3>3
  <2>2. CASE r \notin Grammar  BY <1>1, <2>2, AcceptedRun
  <2> QED  BY <2>1, <2>2
<1>3. Decoded(res, r, q) =
        Release(Finish(r, [q EXCEPT !.committed = @ + Len(run), !.out = @ \o run]))
  BY DEF Decoded
<1>4. [q EXCEPT !.committed = @ + Len(run), !.out = @ \o run]
        = [q EXCEPT !.committed = c, !.out = @ \o run]
  OBVIOUS
<1> HIDE DEF i, run
<1>5. c \in Nat  BY <1>2, LenProperties DEF ReqStates
<1> HIDE DEF c
<1>6. ~q.finished  BY DEF Ended
<1>7. LET n == Grown(r, q, c, run) IN
      /\ n \in ReqStates /\ n.out = q.out \o run /\ n.committed = c
      /\ n.finished <=> q.toFinish \/ Len(q.out \o run) >= Limit[r]
      /\ n.finLen = IF ~q.toFinish /\ Len(q.out \o run) >= Limit[r]
                    THEN Limit[r] ELSE q.finLen
      /\ n.kv = q.kv - Count(n.finished)
      /\ n.inflight = q.inflight /\ n.toFinish = q.toFinish
      /\ n.retracted = q.retracted /\ n.fsm = q.fsm /\ n.aux = q.aux
  BY <1>2, <1>5, <1>6, Extends
<1>8. Decoded(res, r, q) = Grown(r, q, c, run)  BY <1>3, <1>4 DEF Grown
<1> QED  BY <1>2, <1>7, <1>8 DEF c, run, i

\* What becomes visible is compared before and after; nothing else changes.
LEMMA ObservedSame ==
  ASSUME NEW old \in ReqStates, NEW new \in ReqStates, new.out = old.out,
         new.finLen = old.finLen
  PROVE  Observed(old, new) = new
<1>1. Visible(new) = Visible(old)  BY DEF Visible
<1>2. Observed(old, new) = [new EXCEPT !.aux = new.aux]
  BY <1>1 DEF Observed, SnapshotStart
<1>3. [new EXCEPT !.aux = new.aux] = new  BY DEF ReqStates
<1> QED  BY <1>2, <1>3

\* A request that the result does not name, and one that has finished or was
\* retracted before its run arrived, are left as they are.
LEMMA Skipped ==
  ASSUME Frame, Len(queue) \in 1 .. 2, NEW r \in Reqs,
         ~Names(1, r) \/ (Emits(1, r) /\ Ended(req[r]))
  PROVE  Processed(r) = req[r]
<1> DEFINE h == queue[1]
<1>1. /\ h \in Results /\ Shape(h) /\ Resolved.kind = h.kind /\ Resolved.reqs = h.reqs
      /\ h.kind = "extend" => Resolved = h /\ Resolving = req
      /\ h.kind = "decode" => Resolved = Memoized(h, req) /\ Resolving = Advanced(h, req)
  BY ResolvedFacts
<1>2. Names(1, r) <=> Contains(h.reqs, r)  BY DEF Names
<1>3. h.kind \in {"extend", "decode"} /\ Types /\ req[r] \in ReqStates
  BY <1>1 DEF Results, Frame, Types
<1>4. CASE ~Names(1, r)
  BY <1>1, <1>2, <1>4 DEF Processed
<1>5. CASE Names(1, r) /\ Emits(1, r) /\ Ended(req[r])
  <2>1. CASE h.kind = "decode"
    <3>1. Resolving[r] = req[r]
      <4>1. ~Advances(h, r, req[r])  BY <1>5 DEF Advances
      <4>2. Advanced(h, req)[r] = req[r]  BY <4>1 DEF Advanced
      <4> QED  BY <1>1, <2>1, <4>2
    <3>2. Decoded(Resolved, r, req[r]) = req[r]  BY <1>5 DEF Decoded
    <3>3. Processed(r) = Observed(req[r], req[r])
      BY <1>1, <1>2, <1>5, <2>1, <3>1, <3>2 DEF Processed
    <3> QED  BY <1>3, <3>3, ObservedSame
  <2>2. CASE h.kind = "extend"
    <3>1. Balanced(r) /\ Prompted(r)  BY DEF Frame
    <3>2. req[r].inflight = 0  BY <1>5, <3>1 DEF Balanced, Prompted, Emits, Count
    <3>3. Extended(h, r, req[r]) = req[r]  BY <1>5, <3>2 DEF Extended, Ended
    <3>4. Processed(r) = Observed(req[r], req[r])
      BY <1>1, <1>2, <1>5, <2>2, <3>3 DEF Processed
    <3> QED  BY <1>3, <3>4, ObservedSame
  <2> QED  BY <1>3, <2>1, <2>2
<1> QED  BY <1>4, <1>5

\* A middle chunk is counted off, of an aborted request as well.
LEMMA Chunked ==
  ASSUME Frame, Len(queue) \in 1 .. 2, NEW r \in Reqs, Middle(1, r)
  PROVE  LET n == Processed(r)
             o == req[r] IN
         /\ n \in ReqStates /\ n.inflight = o.inflight - 1
         /\ n.out = o.out /\ n.finished = o.finished /\ n.finLen = o.finLen
         /\ n.toFinish = o.toFinish /\ n.retracted = o.retracted
         /\ n.committed = o.committed /\ n.kv = o.kv /\ n.fsm = o.fsm /\ n.aux = o.aux
<1> DEFINE h == queue[1]
           o == req[r]
           k == o.inflight - 1
           n == [o EXCEPT !.inflight = k]
<1>1. /\ h \in Results /\ Shape(h) /\ Resolved.kind = h.kind /\ Resolved.reqs = h.reqs
      /\ h.kind = "extend" => Resolved = h /\ Resolving = req
  BY ResolvedFacts
<1>2. /\ Names(1, r) /\ h.kind # "decode"
  <2>1. 1 <= Len(queue)  OBVIOUS
  <2> QED  BY <2>1, MiddleNames
<1>3. h.kind = "extend" /\ Contains(h.reqs, r) /\ o \in ReqStates
  BY <1>1, <1>2 DEF Results, Names, Frame, Types
<1>4. Balanced(r) /\ Drained(r)  BY DEF Frame
<1>5. k \in Nat /\ ~o.retracted /\ ~(o.inflight <= 0)
  <2>1. Count(Middle(1, r)) = 1 /\ Count(Middle(2, r)) \in {0, 1}  BY DEF Count
  <2> QED  BY <1>4, <2>1 DEF Balanced, Drained
<1>6. Extended(h, r, o) = n  BY <1>5 DEF Extended
<1>7. Processed(r) = Observed(o, n)  BY <1>1, <1>3, <1>6 DEF Processed
<1> HIDE DEF k
<1>8. /\ n \in ReqStates /\ n.inflight = k
      /\ n.out = o.out /\ n.finished = o.finished /\ n.finLen = o.finLen
      /\ n.toFinish = o.toFinish /\ n.retracted = o.retracted
      /\ n.committed = o.committed /\ n.kv = o.kv /\ n.fsm = o.fsm /\ n.aux = o.aux
  BY <1>3, <1>5 DEF ReqStates
<1> HIDE DEF n
<1>9. Observed(o, n) = n  BY <1>3, <1>8, ObservedSame
<1> QED  BY <1>7, <1>8, <1>9 DEF k

\* What the grammar of r, the output and the observer are after its run.
LEMMA Output ==
  ASSUME Frame, Len(queue) \in 1 .. 2, Alarm \in {"no", "backwards"},
         NEW r \in Reqs, Emits(1, r), ~Ended(req[r])
  PROVE  LET n == Processed(r)
             o == req[r]
             q == Resolving[r]
             h == queue[1]
             run == Given(r) IN
         /\ run \in Seq(Tokens) /\ n \in ReqStates /\ n.out = o.out \o run
         /\ n.finished <=> q.toFinish \/ Len(n.out) >= Limit[r]
         /\ n.finLen = IF ~q.toFinish /\ Len(n.out) >= Limit[r]
                       THEN Limit[r] ELSE o.finLen
         /\ n.kv = o.kv - Count(n.finished)
         /\ n.inflight = o.inflight /\ n.retracted = o.retracted
         /\ n.committed = IF h.kind = "decode" THEN o.committed + Len(run)
                          ELSE IF ~n.finished /\ r \in h.mixed THEN o.committed + 1
                          ELSE o.committed
         /\ IF h.kind = "extend" /\ r \in Grammar /\ ~h.advanced
            THEN /\ n.fsm = o.fsm + Len(Retain(r, run))
                 /\ n.toFinish <=> o.toFinish \/ Illegal(r, run)
            ELSE n.fsm = q.fsm /\ n.toFinish = q.toFinish
         /\ n.aux = IF Visible(n) = Visible(o) THEN o.aux
                    ELSE IF Visible(o) = o.aux THEN Visible(n) ELSE None
<1> DEFINE h == queue[1]
           o == req[r]
           q == Resolving[r]
           run == Given(r)
           i == Position(h, r)
<1>1. /\ h \in Results /\ Shape(h) /\ Resolved \in Results /\ Shape(Resolved)
      /\ Resolved.kind = h.kind /\ Resolved.reqs = h.reqs
      /\ h.kind = "extend" => Resolved = h /\ Resolving = req
      /\ h.kind = "decode" => Resolved = Memoized(h, req) /\ Resolving = Advanced(h, req)
      /\ Position(Resolved, r) = Position(h, r)
      /\ \A j : Accepted(Resolved, j) = Accepted(h, j)
  BY ResolvedFacts
<1>2. Contains(h.reqs, r) /\ h.kind \in {"extend", "decode"} /\ o \in ReqStates
  BY <1>1 DEF Emits, Names, Results, Frame, Types
<1>3. Limit[r] \in Nat /\ Types  BY NoneIsNoLimit DEF Frame
<1>4. /\ q \in ReqStates /\ q.out = o.out /\ q.inflight = o.inflight
      /\ q.finished = o.finished /\ q.finLen = o.finLen /\ q.retracted = o.retracted
      /\ q.committed = o.committed /\ q.kv = o.kv /\ q.aux = o.aux
  <2>1. CASE h.kind = "extend"  BY <1>1, <1>2, <2>1
  <2>2. CASE h.kind = "decode"  BY <1>1, <1>3, <2>2, AdvancedFacts
  <2> QED  BY <1>2, <2>1, <2>2
<1>5. ~o.finished /\ ~o.retracted /\ ~Ended(q)  BY <1>4 DEF Ended
<1> HIDE DEF q
<1> DEFINE m == IF h.kind = "decode" THEN Decoded(Resolved, r, q) ELSE Extended(h, r, q)
<1>6. Processed(r) = Observed(o, m)  BY <1>1, <1>2 DEF Processed, q
<1>7. /\ run \in Seq(Tokens) /\ m \in ReqStates /\ m.out = o.out \o run
      /\ m.finished <=> q.toFinish \/ Len(m.out) >= Limit[r]
      /\ m.finLen = IF ~q.toFinish /\ Len(m.out) >= Limit[r] THEN Limit[r] ELSE o.finLen
      /\ m.kv = o.kv - Count(m.finished)
      /\ m.inflight = o.inflight /\ m.retracted = o.retracted /\ m.aux = o.aux
      /\ m.committed = IF h.kind = "decode" THEN o.committed + Len(run)
                       ELSE IF ~m.finished /\ r \in h.mixed THEN o.committed + 1
                       ELSE o.committed
      /\ IF h.kind = "extend" /\ r \in Grammar /\ ~h.advanced
         THEN /\ m.fsm = o.fsm + Len(Retain(r, run))
              /\ m.toFinish <=> o.toFinish \/ Illegal(r, run)
         ELSE m.fsm = q.fsm /\ m.toFinish = q.toFinish
  <2>1. CASE h.kind = "decode"
    <3>1. r \in Grammar => Resolved.advanced  BY <2>1, NoneMissing
    <3>2. run = IF r \in Grammar THEN Resolved.retained[Position(Resolved, r)]
                ELSE Accepted(Resolved, Position(Resolved, r))
      BY <1>1, <2>1 DEF Given
    <3> HIDE DEF run
    <3>3. LET n == Decoded(Resolved, r, q) IN
          /\ run \in Seq(Tokens) /\ n \in ReqStates /\ n.out = q.out \o run
          /\ n.committed = q.committed + Len(run)
          /\ n.finished <=> q.toFinish \/ Len(q.out \o run) >= Limit[r]
          /\ n.finLen = IF ~q.toFinish /\ Len(q.out \o run) >= Limit[r]
                        THEN Limit[r] ELSE q.finLen
          /\ n.kv = q.kv - Count(n.finished)
          /\ n.inflight = q.inflight /\ n.toFinish = q.toFinish
          /\ n.retracted = q.retracted /\ n.fsm = q.fsm /\ n.aux = q.aux
      <4>1. /\ Resolved \in Results /\ Shape(Resolved) /\ Contains(Resolved.reqs, r)
            /\ q \in ReqStates /\ ~Ended(q)
        BY <1>1, <1>2, <1>4, <1>5
      <4>2. LET w == IF r \in Grammar THEN Resolved.retained[Position(Resolved, r)]
                     ELSE Accepted(Resolved, Position(Resolved, r))
                n == Decoded(Resolved, r, q) IN
            /\ w \in Seq(Tokens) /\ n \in ReqStates /\ n.out = q.out \o w
            /\ n.committed = q.committed + Len(w)
            /\ n.finished <=> q.toFinish \/ Len(q.out \o w) >= Limit[r]
            /\ n.finLen = IF ~q.toFinish /\ Len(q.out \o w) >= Limit[r]
                          THEN Limit[r] ELSE q.finLen
            /\ n.kv = q.kv - Count(n.finished)
            /\ n.inflight = q.inflight /\ n.toFinish = q.toFinish
            /\ n.retracted = q.retracted /\ n.fsm = q.fsm /\ n.aux = q.aux
        BY <1>3, <3>1, <4>1, DecodedFacts
      <4> QED  BY <3>2, <4>2
    <3>4. m = Decoded(Resolved, r, q) /\ h.kind # "extend"  BY <2>1
    <3> HIDE DEF m
    <3> QED  BY <1>4, <2>1, <3>3, <3>4
  <2>2. CASE h.kind = "extend"
    <3> DEFINE e == Emitted(h, r, q)
    <3>1. q = o  BY <1>1, <2>2 DEF q
    <3>2. run = Accepted(h, i) /\ run \in Seq(Tokens)
      BY <1>1, <1>2, <2>2, Placed, AcceptedRun DEF Given
    <3> HIDE DEF run
    <3>3. /\ e \in ReqStates /\ e.out = q.out \o run
          /\ e.committed = IF ~e.finished /\ r \in h.mixed THEN q.committed + 1
                           ELSE q.committed
          /\ e.finished <=> q.toFinish \/ Len(q.out \o run) >= Limit[r]
          /\ e.finLen = IF ~q.toFinish /\ Len(q.out \o run) >= Limit[r]
                        THEN Limit[r] ELSE q.finLen
          /\ e.kv = q.kv - Count(e.finished)
          /\ e.inflight = q.inflight /\ e.toFinish = q.toFinish
          /\ e.retracted = q.retracted /\ e.fsm = q.fsm /\ e.aux = q.aux
      <4>1. /\ h \in Results /\ Shape(h) /\ Contains(h.reqs, r)
            /\ q \in ReqStates /\ ~q.finished
        BY <1>1, <1>2, <1>4, <1>5
      <4>2. LET w == Accepted(h, Position(h, r))
                n == Emitted(h, r, q) IN
            /\ n \in ReqStates /\ n.out = q.out \o w
            /\ n.committed = IF ~n.finished /\ r \in h.mixed THEN q.committed + 1
                             ELSE q.committed
            /\ n.finished <=> q.toFinish \/ Len(q.out \o w) >= Limit[r]
            /\ n.finLen = IF ~q.toFinish /\ Len(q.out \o w) >= Limit[r]
                          THEN Limit[r] ELSE q.finLen
            /\ n.kv = q.kv - Count(n.finished)
            /\ n.inflight = q.inflight /\ n.toFinish = q.toFinish
            /\ n.retracted = q.retracted /\ n.fsm = q.fsm /\ n.aux = q.aux
        BY <1>3, <4>1, EmittedFacts
      <4> QED  BY <3>2, <4>2
    <3>4. q.inflight <= 0
      <4>1. Balanced(r) /\ Prompted(r)  BY DEF Frame
      <4>2. o.inflight = 0  BY <4>1 DEF Balanced, Prompted, Emits, Count
      <4> QED  BY <1>4, <4>2
    <3>5. m = PrefillGrammar(h, r, e)
      BY <1>4, <1>5, <2>2, <3>4 DEF Extended
    <3> HIDE DEF e, m
    <3>6. CASE r \in Grammar /\ ~h.advanced
      <4> DEFINE g == AcceptGrammar(r, e, run)
      <4>1. m = g  BY <3>2, <3>5, <3>6 DEF PrefillGrammar
      <4>2. /\ g \in ReqStates /\ g.fsm = e.fsm + Len(Retain(r, run))
            /\ g.toFinish <=> e.toFinish \/ Illegal(r, run)
            /\ g.out = e.out /\ g.inflight = e.inflight /\ g.finished = e.finished
            /\ g.finLen = e.finLen /\ g.retracted = e.retracted
            /\ g.committed = e.committed /\ g.kv = e.kv /\ g.aux = e.aux
        BY <3>2, <3>3, AcceptFacts
      <4> HIDE DEF g
      <4> QED  BY <2>2, <3>1, <3>2, <3>3, <3>6, <4>1, <4>2
    <3>7. CASE ~(r \in Grammar /\ ~h.advanced)
      <4>1. m = e  BY <3>5, <3>7 DEF PrefillGrammar
      <4> QED  BY <2>2, <3>1, <3>2, <3>3, <3>7, <4>1
    <3> QED  BY <3>6, <3>7
  <2> QED  BY <1>2, <2>1, <2>2
<1> HIDE DEF m, run, o, h
<1> DEFINE n == Observed(o, m)
<1>8. /\ n \in ReqStates
      /\ n.aux = IF Visible(m) = Visible(o) THEN m.aux
                 ELSE IF Visible(o) = m.aux THEN Visible(m) ELSE None
      /\ n.out = m.out /\ n.inflight = m.inflight /\ n.finished = m.finished
      /\ n.finLen = m.finLen /\ n.toFinish = m.toFinish
      /\ n.retracted = m.retracted /\ n.committed = m.committed
      /\ n.fsm = m.fsm /\ n.kv = m.kv
  <2>1. o \in ReqStates  BY <1>2 DEF o
  <2>2. m \in ReqStates  BY <1>7
  <2>3. LET x == Observed(o, m) IN
        /\ x \in ReqStates
        /\ x.aux = IF Visible(m) = Visible(o) THEN m.aux
                   ELSE IF Visible(o) = m.aux THEN Visible(m) ELSE None
        /\ x.out = m.out /\ x.inflight = m.inflight /\ x.finished = m.finished
        /\ x.finLen = m.finLen /\ x.toFinish = m.toFinish
        /\ x.retracted = m.retracted /\ x.committed = m.committed
        /\ x.fsm = m.fsm /\ x.kv = m.kv
    BY <2>1, <2>2, ObservedFacts
  <2> QED  BY <2>3
<1> HIDE DEF n
<1>9. Visible(n) = Visible(m)  BY <1>8 DEF Visible
<1>10. Processed(r) = n  BY <1>6 DEF n
<1>11. /\ run \in Seq(Tokens) /\ n \in ReqStates /\ n.out = o.out \o run
       /\ n.finished <=> q.toFinish \/ Len(n.out) >= Limit[r]
       /\ n.finLen = IF ~q.toFinish /\ Len(n.out) >= Limit[r] THEN Limit[r] ELSE o.finLen
       /\ n.kv = o.kv - Count(n.finished)
       /\ n.inflight = o.inflight /\ n.retracted = o.retracted
       /\ n.committed = IF h.kind = "decode" THEN o.committed + Len(run)
                        ELSE IF ~n.finished /\ r \in h.mixed THEN o.committed + 1
                        ELSE o.committed
       /\ n.aux = IF Visible(n) = Visible(o) THEN o.aux
                  ELSE IF Visible(o) = o.aux THEN Visible(n) ELSE None
  BY <1>7, <1>8, <1>9
<1>12. IF h.kind = "extend" /\ r \in Grammar /\ ~h.advanced
       THEN /\ n.fsm = o.fsm + Len(Retain(r, run))
            /\ n.toFinish <=> o.toFinish \/ Illegal(r, run)
       ELSE n.fsm = q.fsm /\ n.toFinish = q.toFinish
  BY <1>7, <1>8
<1> QED  BY <1>10, <1>11, <1>12 DEF q, o, h, run

LEMMA ProcessSteps ==
  ASSUME Frame, Process
  PROVE  /\ phase = "process" /\ queue[1].copied /\ Len(queue) \in 1 .. 2
         /\ \/ /\ Alarm # "no" /\ raised' = Alarm
               /\ UNCHANGED <<req, queue, phase, launched, gen, fault, retracts>>
            \/ /\ Alarm = "no" /\ req' = [r \in Reqs |-> Processed(r)]
               /\ queue' = Tail(queue) /\ phase' = "plan"
               /\ UNCHANGED <<launched, gen, fault, raised, retracts>>
<1>1. phase = "process" /\ Len(queue) \in 1 .. 2  BY DEF Process, Frame, Phased
<1>2. Head(queue) = queue[1]  BY <1>1, ResolvedFacts
<1> QED  BY <1>1, <1>2 DEF Process, Raise, Synchronized

LEMMA ProcessFrame ==
  ASSUME Frame, Process, UNCHANGED mode
  PROVE  Frame'
<1>1. /\ phase = "process" /\ Len(queue) \in 1 .. 2 /\ Types /\ queue \in Seq(Results)
  BY ProcessSteps DEF Frame, Types
<1>2. CASE /\ Alarm # "no" /\ raised' = Alarm
           /\ UNCHANGED <<req, queue, phase, launched, gen, fault, retracts>>
  <2>1. Types'  BY <1>1, <1>2, AlarmFacts DEF Types
  <2> QED  BY <1>1, <1>2, <2>1, StutterFrame
<1>3. CASE /\ Alarm = "no" /\ req' = [r \in Reqs |-> Processed(r)]
           /\ queue' = Tail(queue) /\ phase' = "plan"
           /\ UNCHANGED <<launched, gen, fault, raised, retracts>>
  <2>1. /\ queue' \in Seq(Results) /\ Len(queue') = Len(queue) - 1
        /\ Len(queue) = 2 => queue'[1] = queue[2]
        /\ \A r : /\ Names(1, r)' <=> Names(2, r)
                  /\ Middle(1, r)' <=> Middle(2, r)
                  /\ ~Names(2, r)' /\ ~Middle(2, r)'
    BY <1>1, <1>3, Popped
  <2>2. \A i \in 1 .. Len(queue') : Shape(queue'[i])
    <3> SUFFICES ASSUME NEW i \in 1 .. Len(queue')  PROVE Shape(queue'[i])  OBVIOUS
    <3>1. i = 1 /\ Len(queue) = 2 /\ 2 \in 1 .. Len(queue)  BY <1>1, <2>1
    <3>2. Shape(queue[2])  BY <3>1 DEF Frame
    <3> QED  BY <2>1, <3>1, <3>2
  <2>3. Phased'
    <3>1. Len(queue') \in 0 .. 1 /\ Len(queue') \in 0 .. 2  BY <1>1, <2>1
    <3> QED  BY <1>3, <3>1 DEF Phased
  <2>4. ASSUME NEW r \in Reqs
        PROVE  req'[r] \in ReqStates /\ Drained(r)' /\ Prompted(r)' /\ Balanced(r)'
    <3> DEFINE o == req[r]
               n == Processed(r)
    <3>1. /\ Drained(r) /\ Prompted(r) /\ Balanced(r) /\ launched[r] \in Nat
          /\ o \in ReqStates /\ o.kv \in Int /\ Chunks[r] \in Nat \ {0}
      BY <1>1, BatchAssumption DEF Frame, Types, ReqStates
    <3>2. /\ Middle(1, r) => Names(1, r)
          /\ Middle(2, r) => Names(2, r)
      BY MiddleNames
    <3>3. req'[r] = n /\ launched'[r] = launched[r]  BY <1>3
    <3>4. /\ n \in ReqStates /\ n.retracted = o.retracted
          /\ n.inflight = Count(Middle(2, r))
          /\ n.retracted => ~n.finished
          /\ n.kv = IF n.finished \/ n.retracted \/ launched[r] = 0 THEN 0 ELSE 1
      <4>1. CASE ~Names(1, r)
        <5>1. n = o  BY <1>1, <4>1, Skipped
        <5>2. o.inflight = Count(Middle(2, r))  BY <3>1, <3>2, <4>1 DEF Balanced, Count
        <5> HIDE DEF n
        <5> QED  BY <3>1, <5>1, <5>2 DEF Balanced, Prompted
      <4>2. CASE Middle(1, r)
        <5>1. /\ n \in ReqStates /\ n.inflight = o.inflight - 1 /\ n.kv = o.kv
              /\ n.finished = o.finished /\ n.retracted = o.retracted
          BY <1>1, <4>2, Chunked
        <5>2. o.inflight - 1 = Count(Middle(2, r))  BY <3>1, <4>2 DEF Balanced, Count
        <5> HIDE DEF n
        <5> QED  BY <3>1, <5>1, <5>2 DEF Balanced, Prompted
      <4>3. CASE Emits(1, r) /\ Ended(o)
        <5>1. n = o  BY <1>1, <4>3, Skipped
        <5>2. o.inflight = Count(Middle(2, r))
          BY <3>1, <4>3 DEF Balanced, Count, Emits
        <5> HIDE DEF n
        <5> QED  BY <3>1, <5>1, <5>2 DEF Balanced, Prompted
      <4>4. CASE Emits(1, r) /\ ~Ended(o)
        <5>1. /\ n \in ReqStates /\ n.inflight = o.inflight
              /\ n.kv = o.kv - Count(n.finished) /\ n.retracted = o.retracted
          BY <1>1, <1>3, <4>4, Output
        <5>2. /\ o.inflight = Count(Middle(2, r)) /\ ~o.retracted
              /\ o.kv = 1 /\ launched[r] # 0
          BY <3>1, <4>4 DEF Balanced, Prompted, Count, Emits, Ended
        <5>3. n.finished \in BOOLEAN  BY <5>1 DEF ReqStates
        <5> HIDE DEF n
        <5> QED  BY <5>1, <5>2, <5>3 DEF Count
      <4> QED  BY <4>1, <4>2, <4>3, <4>4 DEF Emits
    <3> HIDE DEF n
    <3>5. Drained(r)'  BY <1>3, <2>1, <3>1, <3>2, <3>3, <3>4 DEF Drained
    <3>6. Prompted(r)'
      <4>1. /\ launched'[r] <= Chunks[r]
            /\ req'[r].retracted => launched'[r] = Chunks[r] - 1 /\ ~req'[r].finished
        BY <3>1, <3>3, <3>4 DEF Prompted
      <4>2. /\ Middle(1, r)' => launched'[r] < Chunks[r]
            /\ Emits(1, r)' /\ ~req'[r].retracted => launched'[r] = Chunks[r]
            /\ launched'[r] = 0 /\ ~req'[r].retracted => ~Names(1, r)'
            /\ ~Emits(2, r)'
        BY <2>1, <3>1, <3>3, <3>4 DEF Prompted, Emits
      <4> QED  BY <2>1, <4>1, <4>2 DEF Prompted
    <3>7. Balanced(r)'  BY <2>1, <3>3, <3>4 DEF Balanced, Count
    <3> QED  BY <3>3, <3>4, <3>5, <3>6, <3>7
  <2>5. Types'
    <3>1. req' \in [Reqs -> ReqStates]  BY <1>3, <2>4
    <3> QED  BY <1>1, <1>3, <2>1, <3>1 DEF Types
  <2> QED  BY <2>2, <2>3, <2>4, <2>5, ShapeKept DEF Frame
<1> QED  BY <1>2, <1>3, ProcessSteps

LEMMA FrameStep == Frame /\ [Next]_vars => Frame'
<1> SUFFICES ASSUME Frame, [Next]_vars  PROVE Frame'  OBVIOUS
<1>1. CASE UNCHANGED vars
  <2>1. /\ Types' /\ UNCHANGED <<mode, launched, req, queue, phase>>
    BY <1>1 DEF vars, Frame, Types
  <2>2. phase = "process" => Len(queue) \in 1 .. 2  BY DEF Frame, Phased
  <2> QED  BY <2>1, <2>2, StutterFrame
<1>2. CASE Next
  <2>0. UNCHANGED mode  BY <1>2 DEF Next
  <2>1. ASSUME NEW P \in SUBSET Reqs, NEW M \in SUBSET Reqs, LaunchExtend(P, M)
        PROVE Frame'
    BY <2>0, <2>1, ExtendFrame
  <2>2. ASSUME NEW accept \in [Reqs -> 1 .. MaxAccept], LaunchDecode(accept)
        PROVE Frame'
    BY <2>0, <2>2, DecodeFrame
  <2>3. CASE LaunchNone  BY <2>0, <2>3, LaunchNoneFrame
  <2>4. ASSUME NEW r \in Reqs, Retract(r)  PROVE Frame'  BY <2>0, <2>4, RetractFrame
  <2>5. ASSUME NEW r \in Reqs, Abort(r)  PROVE Frame'  BY <2>0, <2>5, AbortFrame
  <2>6. CASE Copied  BY <2>0, <2>6, CopiedFrame
  <2>7. CASE TransportFault  BY <2>0, <2>7, FaultFrame
  <2>8. CASE Barrier  BY <2>0, <2>8, BarrierFrame
  <2>9. CASE Process  BY <2>0, <2>9, ProcessFrame
  <2> QED  BY <1>2, <2>1, <2>2, <2>3, <2>4, <2>5, <2>6, <2>7, <2>8, <2>9 DEF Next, Step
<1> QED  BY <1>1, <1>2

\* In every reachable state the results in the queue name a request as its
\* prompt, its retraction and its end allow, and what is held for it agrees.
THEOREM FrameInvariance == Spec => []Frame
<1> QED  BY InitFrame, FrameStep, PTL DEF Spec

\* The KV cache of a request is allocated once and released once, by whichever
\* of a finished result, a retraction and an abort comes first, whatever results
\* launched before still name it.
THEOREM KVBalancedHolds == Spec => []KVBalanced
<1>1. Frame => KVBalanced  BY DEF Frame, Balanced, KVBalanced
<1> QED  BY <1>1, FrameInvariance, PTL

\* inflight_middle_chunks is the number of results in the queue in which the
\* request is a middle chunk: it returns to zero before the last chunk's result
\* is processed, and the chunks of an aborted prompt are all drained.
THEOREM InflightExactHolds == Spec => []InflightExact
<1>1. ASSUME Frame, NEW r \in Reqs
      PROVE  req[r].inflight = Cardinality({i \in DOMAIN queue :
               Contains(queue[i].reqs, r) /\ r \in queue[i].middle})
  <2> DEFINE S == {i \in DOMAIN queue : Contains(queue[i].reqs, r) /\ r \in queue[i].middle}
  <2>1. /\ queue \in Seq(Results) /\ Balanced(r) /\ Len(queue) \in 0 .. 2
        /\ DOMAIN queue = 1 .. Len(queue) /\ Len(queue) \in Nat
    BY <1>1 DEF Frame, Types, Phased
  <2>2. \A i \in {1, 2} : Middle(i, r) => Names(i, r)  BY <1>1, MiddleNames
  <2>3. \A i : i \in S <=> i \in {1, 2} /\ Middle(i, r)
    <3>1. \A i \in 1 .. Len(queue) : i \in {1, 2} /\ i <= Len(queue)  BY <2>1
    <3>2. \A i \in {1, 2} : i <= Len(queue) => i \in 1 .. Len(queue)  BY <2>1
    <3> QED  BY <2>1, <2>2, <3>1, <3>2 DEF Names, Middle
  <2> HIDE DEF S
  <2>4. Cardinality({}) = 0 /\ Cardinality({1}) = 1 /\ Cardinality({2}) = 1
        /\ Cardinality({1, 2}) = 2
    <3>1. Cardinality({1, 2}) = 2
      <4>1. IsFiniteSet({1}) /\ Cardinality({1}) = 1  BY FS_Singleton
      <4>2. {1, 2} = {1} \cup {2} /\ 2 \notin {1}  OBVIOUS
      <4> QED  BY <4>1, <4>2, FS_AddElement
    <3> QED  BY <3>1, FS_EmptySet, FS_Singleton
  <2>5. req[r].inflight = Count(Middle(1, r)) + Count(Middle(2, r))  BY <2>1 DEF Balanced
  <2>6. req[r].inflight = Cardinality(S)
    <3>1. CASE ~Middle(1, r) /\ ~Middle(2, r)
      <4>1. S = {}  BY <2>3, <3>1
      <4> QED  BY <2>4, <2>5, <3>1, <4>1 DEF Count
    <3>2. CASE Middle(1, r) /\ ~Middle(2, r)
      <4>1. S = {1}  BY <2>3, <3>2
      <4> QED  BY <2>4, <2>5, <3>2, <4>1 DEF Count
    <3>3. CASE ~Middle(1, r) /\ Middle(2, r)
      <4>1. S = {2}  BY <2>3, <3>3
      <4> QED  BY <2>4, <2>5, <3>3, <4>1 DEF Count
    <3>4. CASE Middle(1, r) /\ Middle(2, r)
      <4>1. S = {1, 2}  BY <2>3, <3>4
      <4> QED  BY <2>4, <2>5, <3>4, <4>1 DEF Count
    <3> QED  BY <3>1, <3>2, <3>3, <3>4
  <2> QED  BY <2>6 DEF S
<1>2. Frame => InflightExact  BY <1>1 DEF InflightExact, Queued
<1> QED  BY <1>2, FrameInvariance, PTL

-----------------------------------------------------------------------------
(* The second layer: the tokens.                                           *)

\* The first token at which the grammar stops.
LEMMA FirstStop ==
  ASSUME NEW r, NEW run \in Seq(Tokens), Stops(r, run) # {}
  PROVE  LET k == Min(Stops(r, run)) IN
         /\ k \in 1 .. Len(run) /\ \A x \in Stops(r, run) : k <= x
         /\ run[k] \in {<<r, Limit[r]>>, <<r, IllegalAt[r]>>}
         /\ Len(Retain(r, run)) = IF run[k] = <<r, IllegalAt[r]>> THEN k - 1 ELSE k
<1> DEFINE k == Min(Stops(r, run))
           n == IF run[k] = <<r, IllegalAt[r]>> THEN k - 1 ELSE k
<1>1. Stops(r, run) \in SUBSET (1 .. Len(run)) /\ Len(run) \in Nat  BY DEF Stops
<1>2. Stops(r, run) \in SUBSET Nat  BY <1>1
<1>3. k \in Stops(r, run) /\ \A x \in Stops(r, run) : k <= x  BY <1>2, MinOf
<1>4. k \in 1 .. Len(run)  BY <1>1, <1>3
<1>5. run[k] \in {<<r, Limit[r]>>, <<r, IllegalAt[r]>>}  BY <1>3 DEF Stops
<1>6. Retain(r, run) = SubSeq(run, 1, n)  BY DEF Retain
<1> HIDE DEF k
<1>7. n \in 0 .. Len(run) /\ n \in Int  BY <1>1, <1>4
<1>8. n = IF run[k] = <<r, IllegalAt[r]>> THEN k - 1 ELSE k  OBVIOUS
<1> HIDE DEF n
<1>9. \A j \in 1 .. n : run[j] \in Tokens  BY <1>1, <1>7
<1>10. Len(SubSeq(run, 1, n)) = IF 1 <= n THEN n - 1 + 1 ELSE 0
  BY <1>7, <1>9, SubSeqProperties
<1>11. Len(SubSeq(run, 1, n)) = n  BY <1>7, <1>10
<1> QED  BY <1>3, <1>4, <1>5, <1>6, <1>8, <1>11 DEF k

\* The grammar never retains more than its limit; a run that it shortens has
\* reached the limit or holds an illegal token.
LEMMA RetainedRun ==
  ASSUME NEW r \in Reqs, NEW run \in Seq(Tokens), NEW n \in Nat,
         \A j \in 1 .. Len(run) : run[j] = <<r, n + j>>
  PROVE  /\ n < Limit[r] => n + Len(Retain(r, run)) <= Limit[r]
         /\ ~Illegal(r, run) /\ n + Len(Retain(r, run)) # Limit[r] => Retain(r, run) = run
<1>0. Limit[r] \in Nat /\ Len(run) \in Nat  BY NoneIsNoLimit, LenProperties
<1>1. CASE Stops(r, run) = {}
  <2>1. Retain(r, run) = run  BY <1>1 DEF Retain
  <2>2. ASSUME n < Limit[r], n + Len(run) > Limit[r]  PROVE FALSE
    <3> DEFINE j == Limit[r] - n
    <3>1. j \in 1 .. Len(run) /\ n + j = Limit[r]  BY <1>0, <2>2
    <3> HIDE DEF j
    <3>2. run[j] = <<r, Limit[r]>>  BY <3>1
    <3>3. j \in DOMAIN run  BY <3>1
    <3>4. j \in Stops(r, run)  BY <3>2, <3>3 DEF Stops
    <3> QED  BY <1>1, <3>4
  <2> QED  BY <1>0, <2>1, <2>2
<1>2. CASE Stops(r, run) # {}
  <2> DEFINE k == Min(Stops(r, run))
  <2>1. /\ k \in 1 .. Len(run) /\ \A x \in Stops(r, run) : k <= x
        /\ run[k] \in {<<r, Limit[r]>>, <<r, IllegalAt[r]>>}
        /\ Len(Retain(r, run)) = IF run[k] = <<r, IllegalAt[r]>> THEN k - 1 ELSE k
    BY <1>2, FirstStop
  <2>2. Illegal(r, run) <=> run[k] = <<r, IllegalAt[r]>>  BY <1>2 DEF Illegal
  <2> HIDE DEF k
  <2>3. run[k] = <<r, n + k>>  BY <2>1
  <2>4. CASE run[k] = <<r, Limit[r]>> /\ run[k] # <<r, IllegalAt[r]>>
    <3>1. n + k = Limit[r]  BY <2>3, <2>4
    <3> QED  BY <1>0, <2>1, <2>4, <3>1
  <2>5. CASE run[k] = <<r, IllegalAt[r]>>
    <3>1. ASSUME n < Limit[r], n + (k - 1) > Limit[r]  PROVE FALSE
      <4> DEFINE j == Limit[r] - n
      <4>1. j \in 1 .. Len(run) /\ n + j = Limit[r] /\ j < k  BY <1>0, <2>1, <3>1
      <4> HIDE DEF j
      <4>2. run[j] = <<r, Limit[r]>> /\ j \in DOMAIN run  BY <4>1
      <4>3. j \in Stops(r, run)  BY <4>2 DEF Stops
      <4> QED  BY <2>1, <4>1, <4>3
    <3> QED  BY <1>0, <2>1, <2>2, <2>5, <3>1
  <2> QED  BY <2>1, <2>4, <2>5
<1> QED  BY <1>1, <1>2

LEMMA Continued ==
  ASSUME NEW r, NEW out \in Seq(Tokens), NEW run \in Seq(Tokens),
         \A k \in 1 .. Len(out) : out[k] = <<r, k>>,
         \A j \in 1 .. Len(run) : run[j] = <<r, Len(out) + j>>
  PROVE  /\ Len(out \o run) = Len(out) + Len(run) /\ Len(out) \in Nat /\ Len(run) \in Nat
         /\ \A k \in 1 .. Len(out \o run) : (out \o run)[k] = <<r, k>>
<1>1. /\ Len(out) \in Nat /\ Len(run) \in Nat /\ Len(out \o run) = Len(out) + Len(run)
      /\ \A k \in 1 .. Len(out) + Len(run) :
           (out \o run)[k] = IF k <= Len(out) THEN out[k] ELSE run[k - Len(out)]
  BY LenProperties, ConcatProperties
<1>2. ASSUME NEW k \in 1 .. Len(out) + Len(run)  PROVE (out \o run)[k] = <<r, k>>
  <2>1. CASE k <= Len(out)
    <3>1. k \in 1 .. Len(out)  BY <1>1, <2>1
    <3> QED  BY <1>1, <2>1, <3>1
  <2>2. CASE ~(k <= Len(out))
    <3> DEFINE j == k - Len(out)
    <3>1. j \in 1 .. Len(run) /\ Len(out) + j = k  BY <1>1, <2>2
    <3>2. (out \o run)[k] = run[j]  BY <1>1, <2>2
    <3> HIDE DEF j
    <3> QED  BY <3>1, <3>2
  <2> QED  BY <2>1, <2>2
<1> QED  BY <1>1, <1>2

\* A step that keeps the runs of the queue, and what was retained of them.
SameRuns ==
  /\ SameQueue
  /\ \A i \in 1 .. Len(queue) :
       /\ queue'[i].accept = queue[i].accept /\ queue'[i].tokens = queue[i].tokens
       /\ queue'[i].stride = queue[i].stride /\ queue'[i].base = queue[i].base

LEMMA SameRunFacts ==
  ASSUME SameRuns, queue \in Seq(Results), NEW i \in {1, 2}, NEW r
  PROVE  /\ Emits(i, r)' <=> Emits(i, r)
         /\ Brings(i, r)' = Brings(i, r)
         /\ Prefill(i, r)' <=> Prefill(i, r)
         /\ Emits(i, r) => /\ queue'[i].base = queue[i].base
                           /\ Position(queue'[i], r) = Position(queue[i], r)
                           /\ Run(queue'[i], Position(queue'[i], r))
                                = Run(queue[i], Position(queue[i], r))
<1>1. SameQueue /\ Len(queue) \in Nat /\ Len(queue') = Len(queue)
  BY DEF SameRuns, SameQueue
<1>2. (Names(i, r)' <=> Names(i, r)) /\ (Middle(i, r)' <=> Middle(i, r))
  BY <1>1, SameNames
<1>3. Emits(i, r)' <=> Emits(i, r)  BY <1>2 DEF Emits
<1>4. CASE i <= Len(queue)
  <2>1. i \in 1 .. Len(queue)  BY <1>1, <1>4
  <2>2. /\ queue'[i].reqs = queue[i].reqs /\ queue'[i].accept = queue[i].accept
        /\ queue'[i].tokens = queue[i].tokens /\ queue'[i].stride = queue[i].stride
        /\ queue'[i].base = queue[i].base /\ queue'[i].kind = queue[i].kind
        /\ queue'[i].mixed = queue[i].mixed
    BY <2>1 DEF SameRuns, SameQueue
  <2>3. Position(queue'[i], r) = Position(queue[i], r)  BY <2>2 DEF Position
  <2>4. Run(queue'[i], Position(queue'[i], r)) = Run(queue[i], Position(queue[i], r))
    BY <2>2, <2>3 DEF Run
  <2>5. Brings(i, r)' = Brings(i, r)  BY <1>3, <2>2, <2>3 DEF Brings
  <2>6. Prefill(i, r)' <=> Prefill(i, r)  BY <1>2, <2>2 DEF Prefill
  <2> QED  BY <1>3, <2>2, <2>3, <2>4, <2>5, <2>6
<1>5. CASE ~(i <= Len(queue))
  <2>1. ~Names(i, r) /\ ~Names(i, r)'  BY <1>1, <1>5 DEF Names
  <2> QED  BY <1>3, <2>1 DEF Emits, Brings, Prefill
<1> QED  BY <1>4, <1>5

\* A request whose output and prompt a step does not touch, when it keeps the runs.
LEMMA SteadyOutput ==
  ASSUME Frame, Content, SameRuns, UNCHANGED mode, NEW r \in Reqs,
         req'[r].out = req[r].out, req'[r].finished = req[r].finished,
         req'[r].finLen = req[r].finLen, req'[r].retracted = req[r].retracted,
         req'[r].committed = req[r].committed, req'[r].aux = req[r].aux,
         launched'[r] = launched[r], gen'[r] = gen[r]
  PROVE  Continues(r)' /\ Limited(r)' /\ Committed(r)'
<1>1. /\ queue \in Seq(Results) /\ Len(queue) \in Nat /\ Len(queue') = Len(queue)
      /\ Continues(r) /\ Limited(r) /\ Committed(r)
  BY DEF Frame, Types, Content, SameRuns, SameQueue
<1>2. \A i \in {1, 2} :
         /\ Emits(i, r)' <=> Emits(i, r)
         /\ Brings(i, r)' = Brings(i, r)
         /\ Prefill(i, r)' <=> Prefill(i, r)
         /\ Emits(i, r) => queue'[i].base = queue[i].base
  BY <1>1, SameRunFacts
<1>3. Grammar' = Grammar  BY DEF Grammar
<1>4. Middle(1, r)' <=> Middle(1, r)
  <2>1. SameQueue  BY DEF SameRuns
  <2> QED  BY <1>1, <2>1, SameNames
<1>5. (Ended(req'[r]) <=> Ended(req[r])) /\ Visible(req'[r]) = Visible(req[r])
  BY DEF Ended, Visible
<1>6. Continues(r)'  BY <1>1, <1>2, <1>5 DEF Continues
<1>7. Limited(r)'  BY <1>1, <1>3, <1>5 DEF Limited
<1>8. Running(r)' <=> Running(r)  BY DEF Running
<1>9. Committed(r)'  BY <1>1, <1>2, <1>4, <1>8 DEF Committed
<1> QED  BY <1>6, <1>7, <1>9

LEMMA SteadyReq ==
  ASSUME Frame, Content, SameRuns, UNCHANGED mode, NEW r \in Reqs,
         req'[r] = req[r], launched'[r] = launched[r], gen'[r] = gen[r],
         \A i \in 1 .. Len(queue) : /\ queue'[i].advanced = queue[i].advanced
                                    /\ queue'[i].retained = queue[i].retained
  PROVE  Continues(r)' /\ Limited(r)' /\ Retained(r)' /\ Fsm(r)' /\ Committed(r)'
<1>1. /\ queue \in Seq(Results) /\ Len(queue) \in Nat /\ Len(queue') = Len(queue)
      /\ Retained(r) /\ Fsm(r)
  BY DEF Frame, Types, Content, SameRuns, SameQueue
<1>2. \A i \in {1, 2} :
         /\ Emits(i, r)' <=> Emits(i, r)
         /\ Emits(i, r) => /\ Position(queue'[i], r) = Position(queue[i], r)
                           /\ Run(queue'[i], Position(queue'[i], r))
                                = Run(queue[i], Position(queue[i], r))
  BY <1>1, SameRunFacts
<1>3. Grammar' = Grammar  BY DEF Grammar
<1>4. Len(queue) >= 1 => /\ queue'[1].advanced = queue[1].advanced
                         /\ queue'[1].retained = queue[1].retained
  BY <1>1
<1>5. Retained(r)'  BY <1>1, <1>2, <1>3, <1>4 DEF Retained
<1>6. Ahead(r)' = Ahead(r)  BY <1>1, <1>2, <1>4 DEF Ahead
<1>7. Fsm(r)'  BY <1>1, <1>3, <1>6 DEF Fsm
<1> QED  BY <1>5, <1>7, SteadyOutput

\* A step that leaves everything but flags of the queue, the phase and the alarm.
LEMMA SteadyContent ==
  ASSUME Frame, Content, SameRuns, UNCHANGED <<mode, req, launched, gen>>,
         NoAlarm',
         \A i \in 1 .. Len(queue) : /\ queue'[i].advanced = queue[i].advanced
                                    /\ queue'[i].retained = queue[i].retained
                                    /\ queue[i].advanced => phase' = "process"
                                    /\ queue'[i].bad => fault',
         \A r \in Reqs : Masked(r)'
  PROVE  Content'
<1>1. Len(queue') = Len(queue) /\ Advancing  BY DEF SameRuns, SameQueue, Content
<1>2. Advancing'  BY <1>1 DEF Advancing
<1>3. ASSUME NEW r \in Reqs
      PROVE  Continues(r)' /\ Limited(r)' /\ Retained(r)' /\ Fsm(r)' /\ Committed(r)'
  BY SteadyReq
<1> QED  BY <1>2, <1>3 DEF Content

\* The copies carry what they carried.
LEMMA SameAlarm ==
  ASSUME NoAlarm, UNCHANGED <<mode, raised>>
  PROVE  NoAlarm'
  BY DEF NoAlarm, Carried, Overlap

\* When the queue and the phase stay, so does the barrier that was passed.
LEMMA SameMasked ==
  ASSUME Frame, Content, SameRuns, UNCHANGED <<mode, phase>>, NEW r \in Reqs,
         Ended(req[r]) => Ended(req'[r]),
         \A i \in 1 .. Len(queue) : queue'[i].advanced = queue[i].advanced
  PROVE  Masked(r)'
<1>1. queue \in Seq(Results) /\ Len(queue') = Len(queue) /\ Masked(r)
  BY DEF Frame, Types, Content, SameRuns, SameQueue
<1>2. \A i \in {1, 2} : Emits(i, r)' <=> Emits(i, r)  BY <1>1, SameRunFacts
<1>3. Len(queue) = 2 => queue'[2].kind = queue[2].kind /\ queue'[1].advanced = queue[1].advanced
  <2>1. Len(queue) = 2 => 1 \in 1 .. Len(queue) /\ 2 \in 1 .. Len(queue)  OBVIOUS
  <2> QED  BY <2>1 DEF SameRuns, SameQueue
<1>4. Grammar' = Grammar /\ Carried' = Carried  BY DEF Grammar, Carried, Overlap
<1> QED  BY <1>1, <1>2, <1>3, <1>4 DEF Masked

LEMMA UnchangedRuns ==
  ASSUME queue \in Seq(Results), UNCHANGED queue
  PROVE  SameRuns
  BY DEF SameRuns, SameQueue

LEMMA InitContent == Init => Content
<1> SUFFICES ASSUME Init  PROVE Content  OBVIOUS
<1>1. Len(queue) = 0 /\ Frame  BY EmptySeq, InitFrame DEF Init
<1>2. Advancing /\ NoAlarm  BY <1>1 DEF Advancing, NoAlarm, Init
<1>3. ASSUME NEW r \in Reqs
      PROVE  /\ Continues(r) /\ Limited(r) /\ Retained(r) /\ Fsm(r)
             /\ Masked(r) /\ Committed(r)
  <2>1. /\ req[r] = NewReq /\ launched[r] = 0 /\ gen[r] = 0
        /\ Chunks[r] \in Nat \ {0} /\ Limit[r] \in Nat \ {0}
    BY BatchAssumption DEF Init
  <2>2. Len(req[r].out) = 0 /\ ~req[r].finished /\ req[r].finLen = None
        /\ req[r].aux = 0 /\ req[r].fsm = 0 /\ ~req[r].retracted
    BY <2>1, EmptySeq DEF NewReq
  <2>3. \A i \in {1, 2} : ~Names(i, r) /\ ~Middle(i, r) /\ ~Emits(i, r)
    BY <1>1 DEF Names, Middle, Emits
  <2>4. Brings(1, r) = 0 /\ Brings(2, r) = 0 /\ Ahead(r) = 0
    BY <2>3 DEF Brings, Ahead
  <2>5. Continues(r)  BY <2>1, <2>2, <2>3, <2>4 DEF Continues
  <2>6. Limited(r)  BY <2>1, <2>2 DEF Limited, Visible
  <2>7. Retained(r) /\ Masked(r)  BY <1>1, <2>3 DEF Retained, Masked
  <2>8. Fsm(r)  BY <2>2, <2>4 DEF Fsm
  <2>9. Committed(r)  BY <2>1, <2>3 DEF Committed, Running
  <2> QED  BY <2>5, <2>6, <2>7, <2>8, <2>9
<1> QED  BY <1>2, <1>3 DEF Content

LEMMA LaunchNoneContent ==
  ASSUME Frame, Content, LaunchNone, UNCHANGED mode
  PROVE  Content'
<1>1. /\ phase \in {"plan", "retract"} /\ phase' = "process"
      /\ UNCHANGED <<req, queue, launched, gen, fault, raised, retracts>>
  BY DEF LaunchNone
<1>2. queue \in Seq(Results) /\ Len(queue) \in 0 .. 1 /\ Advancing /\ NoAlarm
  BY <1>1 DEF Frame, Types, Phased, Content
<1>3. SameRuns  BY <1>1, <1>2, UnchangedRuns
<1>4. \A r \in Reqs : Masked(r)'  BY <1>1, <1>2 DEF Masked
<1>5. NoAlarm'  BY <1>1, <1>2, SameAlarm
<1> QED  BY <1>1, <1>2, <1>3, <1>4, <1>5, SteadyContent DEF Advancing

\* Before the barrier nothing has been advanced.
LEMMA NothingAdvanced ==
  ASSUME Content, phase # "process"
  PROVE  /\ \A i \in 1 .. Len(queue) : ~queue[i].advanced
         /\ Len(queue) \in Nat => \A r : Ahead(r) = 0
<1>1. \A i \in 1 .. Len(queue) : ~queue[i].advanced  BY DEF Content, Advancing
<1>2. Len(queue) \in Nat /\ Len(queue) >= 1 => ~queue[1].advanced  BY <1>1
<1> QED  BY <1>1, <1>2 DEF Ahead

LEMMA RetractContent ==
  ASSUME Frame, Content, NEW s \in Reqs, Retract(s), UNCHANGED mode
  PROVE  Content'
<1>1. /\ phase \in {"plan", "retract"} /\ Running(s)
      /\ req' = [req EXCEPT ![s].retracted = TRUE, ![s].kv = @ - 1, ![s].committed = 0]
      /\ launched' = [launched EXCEPT ![s] = Chunks[s] - 1]
      /\ gen' = [gen EXCEPT ![s] = Len(req[s].out)]
      /\ phase' = "retract" /\ UNCHANGED <<queue, fault, raised>>
  BY DEF Retract
<1>2. /\ Types /\ queue \in Seq(Results) /\ Len(queue) \in Nat /\ Advancing /\ NoAlarm
      /\ Grammar' = Grammar /\ Len(queue') = Len(queue)
  BY <1>1 DEF Frame, Types, Content, Grammar
<1> DEFINE q == req[s]
           n == [q EXCEPT !.retracted = TRUE, !.kv = q.kv - 1, !.committed = 0]
<1>3. req' = [req EXCEPT ![s] = n] /\ q \in ReqStates  BY <1>1, <1>2 DEF Types
<1>4. /\ n.retracted = TRUE /\ n.out = q.out /\ n.finished = q.finished
      /\ n.finLen = q.finLen /\ n.toFinish = q.toFinish /\ n.fsm = q.fsm /\ n.aux = q.aux
  BY <1>3 DEF ReqStates
<1> HIDE DEF n
<1>5. /\ req'[s] = n /\ gen'[s] = Len(q.out)
      /\ \A r \in Reqs : r # s =>
           req'[r] = req[r] /\ launched'[r] = launched[r] /\ gen'[r] = gen[r]
  BY <1>1, <1>2, <1>3 DEF Types
<1>6. SameRuns  BY <1>1, <1>2, UnchangedRuns
<1>7. \A i \in 1 .. Len(queue) : ~queue[i].advanced  BY <1>1, NothingAdvanced
<1>8. Advancing' /\ NoAlarm'  BY <1>1, <1>2, <1>7, SameAlarm DEF Advancing
<1>9. ASSUME NEW r \in Reqs
      PROVE  /\ Continues(r)' /\ Limited(r)' /\ Retained(r)' /\ Fsm(r)'
             /\ Masked(r)' /\ Committed(r)'
  <2>1. Masked(r)'  BY <1>1 DEF Masked
  <2>2. CASE r # s
    <3>1. req'[r] = req[r] /\ launched'[r] = launched[r] /\ gen'[r] = gen[r]
      BY <1>5, <2>2
    <3>2. Continues(r)' /\ Limited(r)' /\ Retained(r)' /\ Fsm(r)' /\ Committed(r)'
      BY <1>1, <1>6, <3>1, SteadyReq
    <3> QED  BY <2>1, <3>2
  <2>3. CASE r = s
    <3>0. /\ Continues(r) /\ Limited(r) /\ Fsm(r) /\ q = req[r] /\ Ahead(r) = 0
      BY <1>1, <1>2, <2>3, NothingAdvanced DEF Content
    <3> HIDE DEF q
    <3>1. req'[r] = n /\ gen'[r] = Len(q.out) /\ Ended(req'[r])  BY <1>4, <1>5, <2>3 DEF Ended
    <3>2. Continues(r)'  BY <1>4, <3>0, <3>1 DEF Continues
    <3>3. Limited(r)'  BY <1>2, <1>4, <3>0, <3>1 DEF Limited, Visible
    <3>4. Retained(r)'  BY <3>1 DEF Retained
    <3>5. Ahead(r)' = 0  BY <3>1 DEF Ahead
    <3>6. Fsm(r)'  BY <1>2, <1>4, <3>0, <3>1, <3>5 DEF Fsm
    <3>7. Committed(r)'
      <4>1. ~Running(r)'  BY <1>4, <3>1 DEF Running
      <4>2. Prompted(r) /\ (Middle(1, r)' <=> Middle(1, r)) /\ Len(queue) \in 0 .. 1
        BY <1>1 DEF Frame, Phased, Middle
      <4>3. launched[r] = Chunks[r] /\ Chunks[r] \in Nat
        BY <1>1, <2>3, BatchAssumption DEF Running
      <4>4. Middle(1, r) => Len(queue) = 1  BY <4>2 DEF Middle
      <4>5. ~Middle(1, r)'  BY <4>2, <4>3, <4>4 DEF Prompted
      <4> QED  BY <4>1, <4>5 DEF Committed
    <3> QED  BY <2>1, <3>2, <3>3, <3>4, <3>6, <3>7
  <2> QED  BY <2>2, <2>3
<1> QED  BY <1>8, <1>9 DEF Content

LEMMA AbortContent ==
  ASSUME Frame, Content, NEW s \in Reqs, Abort(s), UNCHANGED mode
  PROVE  Content'
<1> DEFINE q == req[s]
           gone == [q EXCEPT !.finished = TRUE, !.kv = q.kv - 1]
           ending == [q EXCEPT !.toFinish = TRUE]
           n == IF launched[s] < Chunks[s] THEN gone ELSE ending
<1>1. /\ phase = "plan" /\ ~q.finished /\ ~q.retracted /\ req' = [req EXCEPT ![s] = n]
      /\ UNCHANGED <<queue, phase, launched, gen, fault, raised, retracts>>
  BY DEF Abort
<1>2. /\ Types /\ queue \in Seq(Results) /\ Len(queue) \in Nat /\ Advancing /\ NoAlarm
      /\ Grammar' = Grammar /\ Len(queue') = Len(queue) /\ q \in ReqStates
  BY <1>1 DEF Frame, Types, Content, Grammar
<1>3. /\ n.out = q.out /\ n.finLen = q.finLen /\ n.fsm = q.fsm /\ n.aux = q.aux
      /\ n.retracted = q.retracted
      /\ n.finished \/ (n.toFinish /\ ~n.finished /\ n.committed = q.committed)
  <2>1. /\ gone.out = q.out /\ gone.finLen = q.finLen /\ gone.fsm = q.fsm
        /\ gone.aux = q.aux /\ gone.retracted = q.retracted /\ gone.finished
    BY <1>2 DEF ReqStates
  <2>2. /\ ending.out = q.out /\ ending.finLen = q.finLen /\ ending.fsm = q.fsm
        /\ ending.aux = q.aux /\ ending.retracted = q.retracted /\ ending.toFinish
        /\ ending.finished = q.finished /\ ending.committed = q.committed
    BY <1>2 DEF ReqStates
  <2>3. n = gone \/ n = ending  OBVIOUS
  <2> HIDE DEF gone, ending, n, q
  <2> QED  BY <1>1, <2>1, <2>2, <2>3
<1> HIDE DEF n
<1>4. /\ req'[s] = n
      /\ \A r \in Reqs : r # s => req'[r] = req[r]
  BY <1>1, <1>2 DEF Types
<1>5. SameRuns  BY <1>1, <1>2, UnchangedRuns
<1>6. \A i \in 1 .. Len(queue) : ~queue[i].advanced  BY <1>1, NothingAdvanced
<1>7. Advancing' /\ NoAlarm'  BY <1>1, <1>2, <1>6, SameAlarm DEF Advancing
<1>8. ASSUME NEW r \in Reqs
      PROVE  /\ Continues(r)' /\ Limited(r)' /\ Retained(r)' /\ Fsm(r)'
             /\ Masked(r)' /\ Committed(r)'
  <2>1. Masked(r)'  BY <1>1 DEF Masked
  <2>2. CASE r # s
    <3>1. req'[r] = req[r] /\ launched'[r] = launched[r] /\ gen'[r] = gen[r]
      BY <1>1, <1>4, <2>2
    <3>2. Continues(r)' /\ Limited(r)' /\ Retained(r)' /\ Fsm(r)' /\ Committed(r)'
      BY <1>1, <1>5, <3>1, SteadyReq
    <3> QED  BY <2>1, <3>2
  <2>3. CASE r = s
    <3>0. Continues(r) /\ Limited(r) /\ Fsm(r) /\ Committed(r) /\ q = req[r]
      BY <2>3 DEF Content
    <3> HIDE DEF q
    <3>1. req'[r] = n /\ ~Ended(req[r])  BY <1>1, <1>4, <2>3, <3>0 DEF Ended
    <3>2. \A i \in {1, 2} :
            /\ Emits(i, r)' <=> Emits(i, r)
            /\ Brings(i, r)' = Brings(i, r)
            /\ Prefill(i, r)' <=> Prefill(i, r)
            /\ Emits(i, r) => queue'[i].base = queue[i].base
      BY <1>2, <1>5, SameRunFacts
    <3>3. Continues(r)'
      BY <1>1, <1>3, <3>0, <3>1, <3>2 DEF Continues, Ended
    <3>4. Limited(r)'  BY <1>1, <1>2, <1>3, <3>0, <3>1 DEF Limited, Visible
    <3>5. Retained(r)'
      <4>1. Len(queue) >= 1 => ~queue'[1].advanced  BY <1>1, <1>2, <1>6
      <4> QED  BY <1>2, <4>1 DEF Retained
    <3>6. Fsm(r)'  BY <1>3, <3>1 DEF Fsm
    <3>7. Committed(r)'
      <4>1. Running(r)' => Running(r) /\ req'[r].committed = req[r].committed
        BY <1>1, <1>3, <3>0, <3>1 DEF Running
      <4>2. Middle(1, r)' <=> Middle(1, r)  BY <1>1 DEF Middle
      <4> QED  BY <1>1, <1>3, <3>0, <3>1, <3>2, <4>1, <4>2 DEF Committed
    <3> QED  BY <2>1, <3>3, <3>4, <3>5, <3>6, <3>7
  <2> QED  BY <2>2, <2>3
<1> QED  BY <1>7, <1>8 DEF Content

LEMMA CopiedContent ==
  ASSUME Frame, Content, Copied, UNCHANGED mode
  PROVE  Content'
<1>1. PICK k \in DOMAIN queue : queue' = [queue EXCEPT ![k].copied = TRUE]  BY DEF Copied
<1>2. UNCHANGED <<req, phase, launched, gen, fault, raised, retracts>>  BY DEF Copied
<1>3. /\ queue \in Seq(Results) /\ Advancing /\ NoAlarm
      /\ \A r \in Reqs : Masked(r)
  BY DEF Frame, Types, Content
<1> DEFINE n == [queue[k] EXCEPT !.copied = TRUE]
<1>4. k \in 1 .. Len(queue) /\ queue[k] \in Results  BY <1>3
<1>5. /\ n \in Results /\ n.reqs = queue[k].reqs /\ n.accept = queue[k].accept
      /\ n.tokens = queue[k].tokens /\ n.stride = queue[k].stride
      /\ n.middle = queue[k].middle /\ n.mixed = queue[k].mixed
      /\ n.base = queue[k].base /\ n.kind = queue[k].kind
      /\ n.advanced = queue[k].advanced /\ n.retained = queue[k].retained
      /\ n.bad = queue[k].bad
  BY <1>4 DEF Results
<1>6. queue' = [queue EXCEPT ![k] = n]  BY <1>1
<1> HIDE DEF n
<1>7. /\ queue' \in Seq(Results) /\ Len(queue') = Len(queue)
      /\ \A i \in 1 .. Len(queue) : queue'[i] = IF i = k THEN n ELSE queue[i]
  BY <1>3, <1>4, <1>5, <1>6, ExceptSeq
<1>8. \A i \in 1 .. Len(queue) :
        /\ queue'[i].reqs = queue[i].reqs /\ queue'[i].middle = queue[i].middle
        /\ queue'[i].kind = queue[i].kind /\ queue'[i].mixed = queue[i].mixed
        /\ queue'[i].accept = queue[i].accept /\ queue'[i].tokens = queue[i].tokens
        /\ queue'[i].stride = queue[i].stride /\ queue'[i].base = queue[i].base
        /\ queue'[i].advanced = queue[i].advanced
        /\ queue'[i].retained = queue[i].retained /\ queue'[i].bad = queue[i].bad
  BY <1>5, <1>7
<1>9. SameRuns  BY <1>7, <1>8 DEF SameRuns, SameQueue
<1>10. \A r \in Reqs : Masked(r)'  BY <1>2, <1>8, <1>9, SameMasked
<1>11. NoAlarm'  BY <1>2, <1>3, SameAlarm
<1>12. \A i \in 1 .. Len(queue) : /\ queue[i].advanced => phase' = "process"
                                  /\ queue'[i].bad => fault'
  BY <1>2, <1>3, <1>8 DEF Advancing
<1> QED  BY <1>2, <1>8, <1>9, <1>10, <1>11, <1>12, SteadyContent

LEMMA FaultContent ==
  ASSUME Frame, Content, TransportFault, UNCHANGED mode
  PROVE  Content'
<1>1. /\ fault' = TRUE /\ UNCHANGED <<req, phase, launched, gen, raised, retracts>>
      /\ queue' = [i \in DOMAIN queue |->
                     [queue[i] EXCEPT !.bad = @ \/ ~queue[i].copied]]
  BY DEF TransportFault
<1>2. /\ queue \in Seq(Results) /\ DOMAIN queue = 1 .. Len(queue) /\ Len(queue) \in Nat
      /\ Advancing /\ NoAlarm
  BY DEF Frame, Types, Content
<1>3. ASSUME NEW i \in 1 .. Len(queue)
      PROVE  /\ queue'[i].reqs = queue[i].reqs /\ queue'[i].middle = queue[i].middle
             /\ queue'[i].kind = queue[i].kind /\ queue'[i].mixed = queue[i].mixed
             /\ queue'[i].accept = queue[i].accept /\ queue'[i].tokens = queue[i].tokens
             /\ queue'[i].stride = queue[i].stride /\ queue'[i].base = queue[i].base
             /\ queue'[i].advanced = queue[i].advanced
             /\ queue'[i].retained = queue[i].retained
  <2> DEFINE q == queue[i]
             b == q.bad \/ ~q.copied
             n == [q EXCEPT !.bad = b]
  <2>1. queue'[i] = n /\ q \in Results  BY <1>1, <1>2
  <2> HIDE DEF q, b
  <2>2. /\ n.reqs = q.reqs /\ n.accept = q.accept
        /\ n.tokens = q.tokens /\ n.stride = q.stride /\ n.middle = q.middle
        /\ n.mixed = q.mixed /\ n.base = q.base /\ n.kind = q.kind
        /\ n.advanced = q.advanced /\ n.retained = q.retained
    BY <2>1 DEF Results
  <2> HIDE DEF n
  <2> QED  BY <2>1, <2>2 DEF q
<1>4. Frame'  BY FaultFrame
<1>5. queue' \in Seq(Results) /\ Len(queue') = Len(queue)
  <2>1. queue' \in Seq(Results)  BY <1>4 DEF Frame, Types
  <2>2. DOMAIN queue' = 1 .. Len(queue)  BY <1>1, <1>2
  <2> QED  BY <1>2, <2>1, <2>2
<1>6. SameRuns  BY <1>3, <1>5 DEF SameRuns, SameQueue
<1>7. \A r \in Reqs : Masked(r)'  BY <1>1, <1>3, <1>6, SameMasked
<1>8. NoAlarm'  BY <1>1, <1>2, SameAlarm
<1>9. \A i \in 1 .. Len(queue) : queue[i].advanced => phase' = "process"
  BY <1>1, <1>2 DEF Advancing
<1> QED  BY <1>1, <1>3, <1>6, <1>7, <1>8, <1>9, SteadyContent

\* What the barrier and the processor retain of the run of a request.
LEMMA AdvancesWhole ==
  ASSUME Frame, Len(queue) \in 1 .. 2, queue[1].copied, ~queue[1].bad,
         AdvancesFsm(queue[1]), NEW r \in Reqs, r \in Grammar, Emits(1, r),
         ~Ended(req[r])
  PROVE  LET i == Position(queue[1], r)
             run == Run(queue[1], i)
             n == Advanced(queue[1], req)[r] IN
         /\ Memoized(queue[1], req).retained[i] = Retain(r, run)
         /\ n.fsm = req[r].fsm + Len(Retain(r, run))
         /\ n.toFinish <=> req[r].toFinish \/ Illegal(r, run)
<1> DEFINE h == queue[1]
           i == Position(h, r)
<1>1. h \in Results /\ Shape(h) /\ Types  BY ResolvedFacts DEF Frame
<1>2. Contains(h.reqs, r)  BY DEF Emits, Names
<1>3. i \in 1 .. Len(h.reqs) /\ h.reqs[i] = r  BY <1>1, <1>2, Placed
<1>4. Accepted(h, i) = Run(h, i)  BY <1>1, <1>3, AcceptedRun
<1>5. Advances(h, r, req[r])
  <2>1. Balanced(r) /\ Prompted(r)  BY DEF Frame
  <2>2. req[r].inflight = 0  BY <2>1 DEF Balanced, Prompted, Emits, Count
  <2> QED  BY <2>2 DEF Advances
<1> HIDE DEF i
<1>6. Memoized(h, req).retained[i] = Retain(r, Accepted(h, i))
  <2>1. \A j \in 1 .. Len(h.reqs) : Memoized(h, req).retained[j] =
                   IF Advances(h, h.reqs[j], req[h.reqs[j]])
                   THEN Retain(h.reqs[j], Accepted(h, j)) ELSE << >>
    BY <1>1, MemoizedFacts
  <2> QED  BY <1>3, <1>5, <2>1
<1>7. LET n == Advanced(h, req)[r] IN
      /\ n.fsm = req[r].fsm + Len(Retain(r, Accepted(h, Position(h, r))))
      /\ n.toFinish <=> req[r].toFinish \/ Illegal(r, Accepted(h, Position(h, r)))
  BY <1>1, <1>2, <1>5, AdvancedFacts
<1> QED  BY <1>4, <1>6, <1>7 DEF i

LEMMA BarrierSteps ==
  ASSUME Frame, Barrier
  PROVE  /\ phase = "verify" /\ Len(queue) \in 1 .. 2
         /\ \/ /\ fault /\ raised' = "roce"
               /\ UNCHANGED <<req, queue, phase, launched, gen, fault, retracts>>
            \/ /\ Len(queue) = 2 /\ HasGrammar(queue[2].reqs) /\ AdvancesFsm(queue[1])
               /\ queue[1].copied /\ ~fault /\ req' = Advanced(queue[1], req)
               /\ queue' = [queue EXCEPT ![1] = Memoized(queue[1], req)]
               /\ phase' = "process" /\ UNCHANGED <<launched, gen, fault, raised, retracts>>
            \/ /\ Len(queue) = 2 => ~HasGrammar(queue[2].reqs) \/ ~AdvancesFsm(queue[1])
               /\ phase' = IF Overlap /\ Len(queue) = 1 THEN "plan" ELSE "process"
               /\ UNCHANGED <<req, queue, launched, gen, fault, raised, retracts>>
<1>1. phase = "verify" /\ Len(queue) \in 1 .. 2  BY DEF Barrier, Frame, Phased
<1>2. Head(queue) = queue[1]  BY <1>1, ResolvedFacts
<1>3. Len(queue) = 2 => Last(queue) = queue[2]  BY DEF Last
<1> QED  BY <1>1, <1>2, <1>3 DEF Barrier, Raise, Synchronized

LEMMA BarrierContent ==
  ASSUME Frame, Content, Barrier, UNCHANGED mode
  PROVE  Content'
<1> DEFINE h == queue[1]
<1>1. /\ phase = "verify" /\ Len(queue) \in 1 .. 2 /\ 1 \in 1 .. Len(queue)
      /\ Types /\ queue \in Seq(Results) /\ Advancing /\ NoAlarm /\ Grammar' = Grammar
      /\ h \in Results /\ Shape(h)
  BY BarrierSteps, ResolvedFacts DEF Frame, Types, Content, Grammar
<1>2. \A i \in 1 .. Len(queue) : ~queue[i].advanced  BY <1>1, NothingAdvanced
<1>3. \A r : Ahead(r) = 0  BY <1>1, NothingAdvanced
<1>4. CASE /\ raised' = "roce"
           /\ UNCHANGED <<req, queue, phase, launched, gen, fault, retracts>>
  <2>1. SameRuns  BY <1>1, <1>4, UnchangedRuns
  <2>2. \A r \in Reqs : Masked(r)'  BY <1>1, <1>4 DEF Masked
  <2>3. NoAlarm'  BY <1>4 DEF NoAlarm
  <2> QED  BY <1>1, <1>2, <1>4, <2>1, <2>2, <2>3, SteadyContent DEF Advancing
<1>5. CASE /\ Len(queue) = 2 => ~HasGrammar(queue[2].reqs) \/ ~AdvancesFsm(queue[1])
           /\ phase' = IF Overlap /\ Len(queue) = 1 THEN "plan" ELSE "process"
           /\ UNCHANGED <<req, queue, launched, gen, fault, raised, retracts>>
  <2>1. SameRuns  BY <1>1, <1>5, UnchangedRuns
  <2>2. ASSUME NEW r \in Reqs  PROVE Masked(r)'
    <3>0. Carried' = Carried  BY DEF Carried, Overlap
    <3> SUFFICES ASSUME Carried, Len(queue) = 2, r \in Grammar, Emits(1, r), Emits(2, r)
                 PROVE  FALSE
      BY <1>1, <1>5, <2>1, <3>0, SameRunFacts DEF Masked
    <3>1. HasGrammar(queue[2].reqs)  BY DEF Emits, Names, HasGrammar
    <3>2. HasGrammar(h.reqs)  BY DEF Emits, Names, HasGrammar
    <3>3. AdvancesFsm(h)  BY <1>1, <1>2, <3>2 DEF Shape, AdvancesFsm
    <3> QED  BY <1>5, <3>1, <3>3
  <2>3. NoAlarm'  BY <1>1, <1>5, SameAlarm
  <2>4. \A i \in 1 .. Len(queue) : queue'[i].bad => fault'  BY <1>1, <1>5 DEF Advancing
  <2> QED  BY <1>2, <1>5, <2>1, <2>2, <2>3, <2>4, SteadyContent
<1>6. CASE /\ Len(queue) = 2 /\ AdvancesFsm(h)
           /\ h.copied /\ ~fault /\ req' = Advanced(h, req)
           /\ queue' = [queue EXCEPT ![1] = Memoized(h, req)]
           /\ phase' = "process" /\ UNCHANGED <<launched, gen, fault, raised, retracts>>
  <2> DEFINE n == Memoized(h, req)
  <2>1. /\ n \in Results /\ n.kind = h.kind /\ n.reqs = h.reqs /\ n.mixed = h.mixed
        /\ n.tokens = h.tokens /\ n.accept = h.accept /\ n.stride = h.stride
        /\ n.middle = h.middle /\ n.base = h.base /\ n.bad = h.bad
        /\ n.advanced <=> h.advanced \/ h.hasGrammar
    BY <1>1, MemoizedFacts
  <2>2. n.advanced  BY <1>6, <2>1 DEF AdvancesFsm
  <2> HIDE DEF n
  <2>3. /\ queue' \in Seq(Results) /\ Len(queue') = Len(queue)
        /\ \A i \in 1 .. Len(queue) : queue'[i] = IF i = 1 THEN n ELSE queue[i]
    BY <1>1, <1>6, <2>1, ExceptSeq DEF n
  <2>4. SameRuns
    <3>1. \A i \in 1 .. Len(queue) :
        /\ queue'[i].reqs = queue[i].reqs /\ queue'[i].middle = queue[i].middle
        /\ queue'[i].kind = queue[i].kind /\ queue'[i].mixed = queue[i].mixed
        /\ queue'[i].accept = queue[i].accept /\ queue'[i].tokens = queue[i].tokens
        /\ queue'[i].stride = queue[i].stride /\ queue'[i].base = queue[i].base
        /\ queue'[i].bad = queue[i].bad
      BY <2>1, <2>3
    <3> QED  BY <2>3, <3>1 DEF SameRuns, SameQueue
  <2>5. Advancing'
    <3>1. \A i \in 1 .. Len(queue') : queue'[i].advanced => i = 1
      BY <1>2, <2>3
    <3>2. \A i \in 1 .. Len(queue') : queue'[i].bad => fault'
      BY <1>1, <1>6, <2>1, <2>3 DEF Advancing
    <3> QED  BY <1>6, <2>3, <3>1, <3>2 DEF Advancing
  <2>6. NoAlarm'  BY <1>1, <1>6, SameAlarm
  <2>7. queue'[1] = n  BY <1>1, <2>3
  <2>8. ASSUME NEW r \in Reqs
        PROVE  /\ Continues(r)' /\ Limited(r)' /\ Retained(r)' /\ Fsm(r)'
               /\ Masked(r)' /\ Committed(r)'
    <3> DEFINE o == req[r]
               new == req'[r]
               i == Position(h, r)
               whole == Run(h, i)
    <3>1. Fsm(r) /\ Ahead(r) = 0 /\ launched'[r] = launched[r] /\ gen'[r] = gen[r]
      BY <1>3, <1>6 DEF Content
    <3>2. /\ new.out = o.out /\ new.finished = o.finished /\ new.finLen = o.finLen
          /\ new.retracted = o.retracted /\ new.committed = o.committed
          /\ new.aux = o.aux
          /\ ~(Contains(h.reqs, r) /\ Advances(h, r, o)) => new = o
      BY <1>1, <1>6, AdvancedFacts
    <3>3. Continues(r)' /\ Limited(r)' /\ Committed(r)'
      BY <2>4, <3>1, <3>2, SteadyOutput
    <3>4. Masked(r)'  BY <2>2, <2>7 DEF Masked
    <3>5. /\ Emits(1, r)' <=> Emits(1, r)
          /\ Emits(1, r) => /\ Position(queue'[1], r) = i
                            /\ Run(queue'[1], Position(queue'[1], r)) = whole
      BY <1>1, <2>4, SameRunFacts
    <3>6. Ended(new) <=> Ended(o)  BY <3>2 DEF Ended
    <3>7. CASE r \in Grammar /\ ~Ended(o) /\ Emits(1, r)
      <4>1. ~h.bad  BY <1>1, <1>6 DEF Advancing
      <4>2. /\ n.retained[i] = Retain(r, whole)
            /\ new.fsm = o.fsm + Len(Retain(r, whole))
            /\ new.toFinish <=> o.toFinish \/ Illegal(r, whole)
        BY <1>1, <1>6, <3>7, <4>1, AdvancesWhole DEF n
      <4> HIDE DEF o, new, whole, i
      <4>3. Retained(r)'
        BY <1>1, <2>7, <3>5, <4>2 DEF Retained, new, whole, i
      <4>4. Ahead(r)' = Len(Retain(r, whole))
        BY <1>1, <2>2, <2>3, <2>7, <3>5, <3>6, <3>7, <4>2 DEF Ahead, new, i
      <4>5. Len(o.out) \in Nat /\ Len(o.out) + 0 = Len(o.out)
        <5>1. o.out \in Seq(Tokens)  BY <1>1 DEF Types, ReqStates, o
        <5> QED  BY <5>1, LenProperties
      <4>6. Fsm(r)'
        <5>1. ~o.finished /\ ~o.toFinish => o.fsm = Len(o.out)
          BY <3>1, <3>7, <4>5 DEF Fsm, o
        <5>2. ~new.finished /\ ~new.toFinish => new.fsm = Len(new.out) + Ahead(r)'
          BY <3>2, <4>2, <4>4, <5>1
        <5> QED  BY <5>2 DEF Fsm, new
      <4> QED  BY <3>3, <3>4, <4>3, <4>6
    <3>8. CASE ~(r \in Grammar /\ ~Ended(o) /\ Emits(1, r))
      <4>1. ~(Contains(h.reqs, r) /\ Advances(h, r, o))
        <5>1. CASE r \notin Grammar \/ Ended(o)  BY <5>1 DEF Advances
        <5>2. CASE ~Emits(1, r)
          <6>1. CASE ~Contains(h.reqs, r)  BY <6>1
          <6>2. CASE Contains(h.reqs, r)
            <7>1. Middle(1, r)  BY <1>1, <5>2, <6>2 DEF Emits, Names
            <7>2. h.kind # "decode" /\ h.kind \in {"extend", "decode"}
              <8>1. 1 <= Len(queue)  BY <1>1
              <8> QED  BY <1>1, <7>1, <8>1, MiddleNames DEF Results
            <7>3. o.inflight # 0
              <8>1. Balanced(r)  BY DEF Frame
              <8>2. Count(Middle(1, r)) = 1 /\ Count(Middle(2, r)) \in {0, 1}
                BY <7>1 DEF Count
              <8> QED  BY <8>1, <8>2 DEF Balanced
            <7> QED  BY <7>2, <7>3 DEF Advances
          <6> QED  BY <6>1, <6>2
        <5> QED  BY <3>8, <5>1, <5>2
      <4>2. new = o  BY <3>2, <4>1
      <4>3. Retained(r)'  BY <1>1, <3>5, <3>6, <3>8 DEF Retained
      <4>4. r \in Grammar => Ahead(r)' = 0  BY <3>5, <3>6, <3>8 DEF Ahead
      <4>5. Fsm(r)'  BY <1>1, <3>1, <4>2, <4>4 DEF Fsm
      <4> QED  BY <3>3, <3>4, <4>3, <4>5
    <3> QED  BY <3>7, <3>8
  <2> QED  BY <2>5, <2>6, <2>8 DEF Content
<1> QED  BY <1>4, <1>5, <1>6, BarrierSteps

LEMMA LaunchedRuns ==
  ASSUME Frame, NEW res \in Results, Shape(res), queue' = Append(queue, res),
         Len(queue) \in 0 .. 1, NEW r
  PROVE  LET fresh == Contains(res.reqs, r) /\ r \notin res.middle
             brought == IF fresh THEN res.accept[Position(res, r)] ELSE 0
             first == Contains(res.reqs, r) /\ res.kind = "extend" /\ r \notin res.mixed IN
         /\ ~Emits(2, r) /\ Brings(2, r) = 0 /\ ~Prefill(2, r)
         /\ Len(queue') = Len(queue) + 1
         /\ Len(queue) = 0 =>
              /\ ~Emits(1, r) /\ Brings(1, r) = 0 /\ ~Prefill(1, r)
              /\ ~Emits(2, r)' /\ Brings(2, r)' = 0 /\ ~Prefill(2, r)'
              /\ Emits(1, r)' <=> fresh
              /\ Brings(1, r)' = brought
              /\ Prefill(1, r)' <=> first
              /\ queue'[1] = res
         /\ Len(queue) = 1 =>
              /\ Emits(1, r)' <=> Emits(1, r)
              /\ Brings(1, r)' = Brings(1, r)
              /\ Prefill(1, r)' <=> Prefill(1, r)
              /\ Emits(2, r)' <=> fresh
              /\ Brings(2, r)' = brought
              /\ Prefill(2, r)' <=> first
              /\ queue'[1] = queue[1] /\ queue'[2] = res
<1>1. queue \in Seq(Results)  BY DEF Frame, Types
<1>2. /\ Len(queue') = Len(queue) + 1 /\ queue'[Len(queue) + 1] = res
      /\ \A i \in 1 .. Len(queue) : queue'[i] = queue[i]
      /\ Len(queue) = 0 =>
              /\ Names(1, r)' <=> Contains(res.reqs, r)
              /\ Middle(1, r)' <=> r \in res.middle
              /\ ~Names(2, r)' /\ ~Middle(2, r)' /\ ~Names(1, r) /\ ~Middle(1, r)
      /\ Len(queue) = 1 =>
              /\ Names(1, r)' <=> Names(1, r)
              /\ Middle(1, r)' <=> Middle(1, r)
              /\ Names(2, r)' <=> Contains(res.reqs, r)
              /\ Middle(2, r)' <=> r \in res.middle
      /\ ~Names(2, r) /\ ~Middle(2, r)
  BY <1>1, Appended
<1>3. ~Emits(2, r) /\ Brings(2, r) = 0 /\ ~Prefill(2, r)
  BY <1>2 DEF Emits, Brings, Prefill
<1>4. CASE Len(queue) = 0
  <2>1. queue'[1] = res  BY <1>2, <1>4
  <2>2. /\ ~Emits(1, r) /\ ~Emits(2, r)'
        /\ Emits(1, r)' <=> Contains(res.reqs, r) /\ r \notin res.middle
    BY <1>2, <1>4 DEF Emits
  <2>3. Brings(1, r) = 0 /\ Brings(2, r)' = 0  BY <2>2 DEF Brings
  <2>4. Brings(1, r)' = IF Contains(res.reqs, r) /\ r \notin res.middle
                        THEN res.accept[Position(res, r)] ELSE 0
    BY <2>1, <2>2 DEF Brings
  <2>5. /\ ~Prefill(1, r) /\ ~Prefill(2, r)'
        /\ Prefill(1, r)' <=> Contains(res.reqs, r) /\ res.kind = "extend" /\ r \notin res.mixed
    BY <1>2, <1>4, <2>1 DEF Prefill
  <2> QED  BY <1>2, <1>3, <1>4, <2>1, <2>2, <2>3, <2>4, <2>5
<1>5. CASE Len(queue) = 1
  <2>1. queue'[1] = queue[1] /\ queue'[2] = res  BY <1>2, <1>5
  <2>2. /\ Emits(1, r)' <=> Emits(1, r)
        /\ Emits(2, r)' <=> Contains(res.reqs, r) /\ r \notin res.middle
    BY <1>2, <1>5 DEF Emits
  <2>3. Brings(1, r)' = Brings(1, r)  BY <2>1, <2>2 DEF Brings
  <2>4. Brings(2, r)' = IF Contains(res.reqs, r) /\ r \notin res.middle
                        THEN res.accept[Position(res, r)] ELSE 0
    BY <2>1, <2>2 DEF Brings
  <2>5. /\ Prefill(1, r)' <=> Prefill(1, r)
        /\ Prefill(2, r)' <=> Contains(res.reqs, r) /\ res.kind = "extend" /\ r \notin res.mixed
    BY <1>2, <1>5, <2>1 DEF Prefill
  <2> QED  BY <1>2, <1>3, <1>5, <2>1, <2>2, <2>3, <2>4, <2>5
<1> QED  BY <1>4, <1>5

\* What a run brings is a number.
LEMMA BringsType == ASSUME Frame, NEW i \in {1, 2}, NEW r \in Reqs  PROVE Brings(i, r) \in Nat
<1>1. CASE Emits(i, r)
  <2>1. i <= Len(queue) /\ Contains(queue[i].reqs, r)  BY <1>1 DEF Emits, Names
  <2>2. queue[i] \in Results /\ Shape(queue[i])  BY <2>1, MiddleNames
  <2>3. Position(queue[i], r) \in 1 .. Len(queue[i].reqs)  BY <2>1, <2>2, Placed
  <2>4. queue[i].accept[Position(queue[i], r)] \in Nat  BY <2>2, <2>3, AcceptedRun
  <2> QED  BY <1>1, <2>4 DEF Brings
<1>2. CASE ~Emits(i, r)  BY <1>2 DEF Brings
<1> QED  BY <1>1, <1>2

\* A step that appends a result: what has to hold of one request.
LEMMA LaunchedContent ==
  ASSUME Frame, Frame', Content, UNCHANGED mode, NEW res \in Results, Shape(res),
         queue' = Append(queue, res), Len(queue) \in 0 .. 1, phase \in {"plan", "retract"},
         ~res.advanced, res.kind = "decode" => phase' = "verify",
         NEW r \in Reqs, NEW fresh, NEW first, NEW brought,
         fresh <=> Contains(res.reqs, r) /\ r \notin res.middle,
         first <=> Contains(res.reqs, r) /\ res.kind = "extend" /\ r \notin res.mixed,
         brought = IF fresh THEN res.accept[Position(res, r)] ELSE 0,
         req'[r].out = req[r].out, req'[r].finished = req[r].finished,
         req'[r].finLen = req[r].finLen, req'[r].toFinish = req[r].toFinish,
         req'[r].fsm = req[r].fsm, req'[r].aux = req[r].aux,
         req'[r].retracted => req[r].retracted /\ gen'[r] = gen[r],
         Emits(1, r) => req'[r].retracted = req[r].retracted,
         ~Ended(req'[r]) => gen'[r] = gen[r] + brought,
         ~Ended(req'[r]) /\ fresh => res.base[r] = gen[r],
         launched'[r] = launched[r] \/ first,
         Running(r)' =>
           req'[r].committed = IF first THEN Chunks[r] + Len(req[r].out)
                               ELSE req[r].committed,
         Running(r)' /\ ~first => Running(r)
  PROVE  Continues(r)' /\ Limited(r)' /\ Retained(r)' /\ Fsm(r)' /\ Masked(r)' /\ Committed(r)'
<1>1. /\ Continues(r) /\ Limited(r) /\ Fsm(r) /\ Committed(r) /\ Grammar' = Grammar
      /\ Types /\ queue \in Seq(Results) /\ Len(queue) \in Nat
  BY DEF Content, Frame, Types, Grammar
<1>2. /\ ~Emits(2, r) /\ Brings(2, r) = 0 /\ ~Prefill(2, r)
      /\ Len(queue') = Len(queue) + 1
      /\ Len(queue) = 0 =>
           /\ ~Emits(1, r) /\ Brings(1, r) = 0 /\ ~Prefill(1, r)
           /\ ~Emits(2, r)' /\ Brings(2, r)' = 0 /\ ~Prefill(2, r)'
           /\ Emits(1, r)' <=> fresh
           /\ Brings(1, r)' = brought
           /\ Prefill(1, r)' <=> first
           /\ queue'[1] = res
      /\ Len(queue) = 1 =>
           /\ Emits(1, r)' <=> Emits(1, r)
           /\ Brings(1, r)' = Brings(1, r)
           /\ Prefill(1, r)' <=> Prefill(1, r)
           /\ Emits(2, r)' <=> fresh
           /\ Brings(2, r)' = brought
           /\ Prefill(2, r)' <=> first
           /\ queue'[1] = queue[1] /\ queue'[2] = res
  BY LaunchedRuns
<1>3. /\ Brings(1, r) \in Nat /\ Brings(1, r)' \in Nat /\ Brings(2, r)' \in Nat
      /\ Len(req[r].out) \in Nat /\ gen[r] \in Nat
  <2>1. Brings(1, r)' \in Nat /\ Brings(2, r)' \in Nat
    <3>1. brought \in Nat
      <4>1. CASE fresh
        <5>1. Position(res, r) \in 1 .. Len(res.reqs)  BY <4>1, Placed
        <5> QED  BY <4>1, <5>1, AcceptedRun
      <4>2. CASE ~fresh  BY <4>2
      <4> QED  BY <4>1, <4>2
    <3>2. Brings(1, r) \in Nat  BY BringsType
    <3>3. Len(queue) = 0 \/ Len(queue) = 1  BY <1>1
    <3> QED  BY <1>2, <3>1, <3>2, <3>3
  <2>2. req[r].out \in Seq(Tokens)  BY <1>1 DEF Types, ReqStates
  <2> QED  BY <1>1, <2>1, <2>2, BringsType, LenProperties DEF Types
<1>4. ~Emits(1, r) => Brings(1, r) = 0  BY DEF Brings
<1>5. ~Ended(req'[r]) => /\ gen[r] = Len(req[r].out) + Brings(1, r)
                         /\ Emits(1, r) => queue[1].base[r] = Len(req[r].out)
  <2>1. CASE ~Ended(req[r])  BY <1>1, <1>2, <1>3, <2>1 DEF Continues
  <2>2. CASE Ended(req[r])
    <3>1. ASSUME ~Ended(req'[r])
          PROVE  gen[r] = Len(req[r].out) + Brings(1, r) /\ ~Emits(1, r)
      <4>1. req[r].retracted /\ ~req'[r].retracted  BY <2>2, <3>1 DEF Ended
      <4>2. ~Emits(1, r) /\ gen[r] = Len(req[r].out)  BY <1>1, <4>1 DEF Continues
      <4> QED  BY <1>3, <1>4, <4>2
    <3> QED  BY <3>1
  <2> QED  BY <2>1, <2>2
<1>6. Continues(r)'
  <2>1. /\ \A k \in 1 .. Len(req'[r].out) : req'[r].out[k] = <<r, k>>
        /\ req'[r].retracted => gen'[r] = Len(req'[r].out)
    BY <1>1 DEF Continues
  <2>2. ASSUME ~Ended(req'[r])
        PROVE  /\ Emits(1, r)' => queue'[1].base[r] = Len(req'[r].out)
               /\ Emits(2, r)' => queue'[2].base[r] = Len(req'[r].out) + Brings(1, r)'
               /\ gen'[r] = Len(req'[r].out) + Brings(1, r)' + Brings(2, r)'
    <3>1. CASE Len(queue) = 0  BY <1>2, <1>3, <1>5, <2>2, <3>1
    <3>2. CASE Len(queue) = 1  BY <1>2, <1>3, <1>5, <2>2, <3>2
    <3>3. Len(queue) = 0 \/ Len(queue) = 1  BY <1>1
    <3> QED  BY <3>1, <3>2, <3>3
  <2> QED  BY <2>1, <2>2 DEF Continues
<1>7. Limited(r)'
  <2>1. Visible(req'[r]) = Visible(req[r])  BY DEF Visible
  <2> QED  BY <1>1, <2>1 DEF Limited
<1>8. ~queue'[1].advanced
  <2>1. \A i \in 1 .. Len(queue) : ~queue[i].advanced  BY NothingAdvanced
  <2>2. Len(queue) = 1 => ~queue[1].advanced  BY <2>1
  <2> QED  BY <1>2, <2>2
<1>9. Retained(r)'  BY <1>8 DEF Retained
<1>10. Ahead(r) = 0 /\ Ahead(r)' = 0
  <2>1. Ahead(r) = 0  BY <1>1, NothingAdvanced
  <2> QED  BY <1>8, <2>1 DEF Ahead
<1>11. Fsm(r)'  BY <1>1, <1>10 DEF Fsm
<1>12. Masked(r)'
  <2> SUFFICES ASSUME Len(queue') = 2, phase' = "process", queue'[2].kind = "decode"
               PROVE  FALSE
    BY DEF Masked
  <2>1. queue'[2] = res  BY <1>2
  <2> QED  BY <2>1
<1>13. Committed(r)'
  <2>1. Middle(1, r)' => launched'[r] < Chunks[r] \/ Prefill(2, r)'
    <3>1. Prompted(r) /\ Prompted(r)'  BY DEF Frame
    <3>2. CASE Len(queue) = 0  BY <1>2, <3>1, <3>2 DEF Prompted
    <3>3. CASE Len(queue) = 1
      <4>1. Middle(1, r)' <=> Middle(1, r)  BY <1>1, <3>3, Appended
      <4> QED  BY <1>2, <3>1, <3>3, <4>1 DEF Prompted
    <3> QED  BY <3>2, <3>3
  <2>2. ASSUME Running(r)'
        PROVE  req'[r].committed = Chunks[r] + Len(req'[r].out)
                 - (IF Prefill(1, r)' \/ Prefill(2, r)' THEN 0 ELSE 1)
    <3>1. CASE first
      <4>1. Prefill(1, r)' \/ Prefill(2, r)'  BY <1>2, <3>1
      <4>2. Chunks[r] \in Nat  BY BatchAssumption
      <4>3. Chunks[r] + Len(req[r].out) - 0 = Chunks[r] + Len(req[r].out)
        BY <1>3, <4>2
      <4>4. req'[r].committed = Chunks[r] + Len(req'[r].out)  BY <2>2, <3>1
      <4> QED  BY <4>1, <4>3, <4>4
    <3>2. CASE ~first
      <4>1. (Prefill(1, r)' \/ Prefill(2, r)') <=> (Prefill(1, r) \/ Prefill(2, r))
        BY <1>2, <3>2
      <4>2. req[r].committed = Chunks[r] + Len(req[r].out)
              - (IF Prefill(1, r) \/ Prefill(2, r) THEN 0 ELSE 1)
        BY <1>1, <2>2, <3>2 DEF Committed
      <4> QED  BY <2>2, <3>2, <4>1, <4>2
    <3> QED  BY <3>1, <3>2
  <2> QED  BY <2>1, <2>2 DEF Committed
<1> QED  BY <1>6, <1>7, <1>9, <1>11, <1>12, <1>13

LEMMA LaunchedFlags ==
  ASSUME Frame, Content, NEW res \in Results, queue' = Append(queue, res),
         Len(queue) \in 0 .. 1, phase \in {"plan", "retract"}, ~res.advanced,
         res.bad = fault, UNCHANGED <<mode, fault, raised>>
  PROVE  Advancing' /\ NoAlarm'
<1>1. queue \in Seq(Results) /\ Len(queue) \in Nat  BY DEF Frame, Types
<1>2. /\ Len(queue') = Len(queue) + 1 /\ queue'[Len(queue) + 1] = res
      /\ \A i \in 1 .. Len(queue) : queue'[i] = queue[i]
  BY <1>1, Appended
<1>3. \A i \in 1 .. Len(queue) : ~queue[i].advanced /\ (queue[i].bad => fault)
  BY NothingAdvanced DEF Content, Advancing
<1>4. ASSUME NEW i \in 1 .. Len(queue')
      PROVE  ~queue'[i].advanced /\ (queue'[i].bad => fault')
  <2>1. CASE i \in 1 .. Len(queue)  BY <1>2, <1>3, <2>1
  <2>2. CASE i = Len(queue) + 1  BY <1>2, <2>2
  <2> QED  BY <1>1, <1>2, <2>1, <2>2
<1>5. NoAlarm'  BY SameAlarm DEF Content
<1> QED  BY <1>4, <1>5 DEF Advancing

LEMMA ExtendContent ==
  ASSUME Frame, Frame', Content, NEW P \in SUBSET Reqs, NEW M \in SUBSET Reqs,
         LaunchExtend(P, M), UNCHANGED mode
  PROVE  Content'
<1> DEFINE res == Extension(P, M)
<1>0. Types /\ Phased  BY DEF Frame
<1>1. /\ phase = "plan" /\ \A r \in P : Prefilling(r)
      /\ \A r \in M : Running(r)
      /\ queue' = Append(queue, res)
      /\ req' = [r \in Reqs |-> IF r \in P THEN Admitted(r) ELSE req[r]]
      /\ launched' = [r \in Reqs |-> IF r \in P THEN launched[r] + 1 ELSE launched[r]]
      /\ gen' = [r \in Reqs |-> IF r \in M \/ (r \in P /\ launched[r] + 1 = Chunks[r])
                                THEN gen[r] + 1 ELSE gen[r]]
      /\ UNCHANGED <<fault, raised, retracts>>
  BY DEF LaunchExtend, Extension, ExtendOrder, ExtendToken
<1>2. /\ res \in Results /\ Shape(res)
      /\ \A r : Contains(res.reqs, r) <=> r \in P \cup M
      /\ res.middle = {r \in P : launched[r] + 1 < Chunks[r]}
      /\ res.kind = "extend" /\ res.mixed = M /\ res.base = gen
      /\ \A i \in 1 .. Len(res.reqs) : res.accept[i] = 1
      /\ ~res.advanced /\ res.bad = fault /\ P \cap M = {}
  <2>1. LET n == Extension(P, M) IN
         /\ n \in Results /\ Shape(n)
         /\ \A r : Contains(n.reqs, r) <=> r \in P \cup M
         /\ n.middle = {r \in P : launched[r] + 1 < Chunks[r]}
         /\ n.kind = "extend" /\ n.mixed = M /\ n.base = gen /\ n.stride = 1
         /\ \A i \in 1 .. Len(n.reqs) : n.accept[i] = 1
         /\ ~n.advanced /\ ~n.copied /\ n.bad = fault /\ P \cap M = {}
    BY <1>0, <1>1, ExtendResult
  <2> QED  BY <2>1
<1> HIDE DEF res
<1>3. Len(queue) \in 0 .. 1  BY <1>0, <1>1 DEF Phased
<1>4. Advancing' /\ NoAlarm'  BY <1>1, <1>2, <1>3, LaunchedFlags
<1>5. ASSUME NEW r \in Reqs
      PROVE  /\ Continues(r)' /\ Limited(r)' /\ Retained(r)' /\ Fsm(r)'
             /\ Masked(r)' /\ Committed(r)'
  <2> DEFINE fresh == Contains(res.reqs, r) /\ r \notin res.middle
             first == Contains(res.reqs, r) /\ res.kind = "extend" /\ r \notin res.mixed
             brought == IF fresh THEN res.accept[Position(res, r)] ELSE 0
  <2>1. /\ Drained(r) /\ Prompted(r) /\ launched[r] \in Nat /\ gen[r] \in Nat
        /\ Chunks[r] \in Nat \ {0}
    BY <1>0, BatchAssumption DEF Frame, Types
  <2>2. brought = IF fresh THEN 1 ELSE 0
    <3>1. fresh => Position(res, r) \in 1 .. Len(res.reqs)  BY <1>2, Placed
    <3> QED  BY <1>2, <3>1
  <2>3. /\ fresh <=> r \in M \/ (r \in P /\ launched[r] + 1 = Chunks[r])
        /\ first <=> r \in P
    <3>1. r \in P => launched[r] + 1 <= Chunks[r]  BY <1>1, <2>1 DEF Prefilling
    <3> QED  BY <1>2, <2>1, <3>1
  <2>4. /\ gen'[r] = gen[r] + brought /\ res.base[r] = gen[r]
        /\ ~fresh => gen'[r] = gen[r]
    BY <1>1, <1>2, <2>1, <2>2, <2>3
  <2> HIDE DEF brought
  <2>5. brought = IF fresh THEN res.accept[Position(res, r)] ELSE 0  BY DEF brought
  <2>6. CASE r \in P
    <3>1. /\ launched[r] < Chunks[r] /\ r \notin M /\ first
          /\ launched'[r] = launched[r] + 1 /\ req'[r] = Admitted(r)
      BY <1>1, <1>2, <2>3, <2>6 DEF Prefilling
    <3>2. LET n == Admitted(r) IN
          /\ n.retracted = FALSE
          /\ n.committed = IF launched[r] + 1 = Chunks[r]
                           THEN Chunks[r] + Len(req[r].out) ELSE launched[r] + 1
          /\ n.out = req[r].out /\ n.finished = req[r].finished
          /\ n.finLen = req[r].finLen /\ n.toFinish = req[r].toFinish
          /\ n.fsm = req[r].fsm /\ n.aux = req[r].aux
      BY <1>0, AdmittedFacts
    <3>3. ~Emits(1, r)
      <4>1. ~(Emits(1, r) /\ req[r].retracted)  BY <1>1, <2>1 DEF Drained, Emits
      <4>2. ~(Emits(1, r) /\ ~req[r].retracted)  BY <2>1, <3>1 DEF Prompted
      <4> QED  BY <4>1, <4>2
    <3>4. Running(r)' => req'[r].committed = Chunks[r] + Len(req[r].out)
      BY <2>1, <3>1, <3>2 DEF Running
    <3> HIDE DEF first, fresh
    <3>5. /\ fresh <=> Contains(res.reqs, r) /\ r \notin res.middle
          /\ first <=> Contains(res.reqs, r) /\ res.kind = "extend" /\ r \notin res.mixed
      BY DEF first, fresh
    <3> QED  BY <1>1, <1>2, <1>3, <2>4, <2>5, <3>1, <3>2, <3>3, <3>4, <3>5, LaunchedContent
  <2>7. CASE r \notin P
    <3>1. /\ launched'[r] = launched[r] /\ req'[r] = req[r] /\ ~first
          /\ Running(r)' <=> Running(r)
      BY <1>1, <2>3, <2>7 DEF Running
    <3>2. req'[r].retracted => ~fresh
      BY <1>1, <2>3, <2>7, <3>1 DEF Running
    <3> HIDE DEF first, fresh
    <3>3. /\ fresh <=> Contains(res.reqs, r) /\ r \notin res.middle
          /\ first <=> Contains(res.reqs, r) /\ res.kind = "extend" /\ r \notin res.mixed
      BY DEF first, fresh
    <3> QED  BY <1>1, <1>2, <1>3, <2>4, <2>5, <3>1, <3>2, <3>3, LaunchedContent
  <2> QED  BY <2>6, <2>7
<1> QED  BY <1>4, <1>5 DEF Content

LEMMA DecodeContent ==
  ASSUME Frame, Frame', Content, NEW accept \in [Reqs -> 1 .. MaxAccept],
         LaunchDecode(accept), UNCHANGED mode
  PROVE  Content'
<1> DEFINE res == Decoding(accept)
<1>0. Types /\ Phased  BY DEF Frame
<1>1. /\ phase \in {"plan", "retract"} /\ queue' = Append(queue, res)
      /\ gen' = [r \in Reqs |-> IF r \in {s \in Reqs : Running(s)} THEN gen[r] + accept[r]
                                ELSE gen[r]]
      /\ phase' = "verify" /\ UNCHANGED <<req, launched, fault, raised, retracts>>
  BY DEF LaunchDecode, Decoding, DecodeOrder, DecodeTokens
<1>2. /\ res \in Results /\ Shape(res)
      /\ \A r : Contains(res.reqs, r) <=> r \in Reqs /\ Running(r)
      /\ res.middle = {} /\ res.kind = "decode" /\ res.base = gen
      /\ \A i \in 1 .. Len(res.reqs) : res.accept[i] = accept[res.reqs[i]]
      /\ ~res.advanced /\ res.bad = fault
  BY <1>0, DecodeResult
<1> HIDE DEF res
<1>3. Len(queue) \in 0 .. 1  BY <1>0, <1>1 DEF Phased
<1>4. Advancing' /\ NoAlarm'  BY <1>1, <1>2, <1>3, LaunchedFlags
<1>5. ASSUME NEW r \in Reqs
      PROVE  /\ Continues(r)' /\ Limited(r)' /\ Retained(r)' /\ Fsm(r)'
             /\ Masked(r)' /\ Committed(r)'
  <2> DEFINE fresh == Running(r)
             brought == IF fresh THEN res.accept[Position(res, r)] ELSE 0
  <2>1. brought = IF Running(r) THEN accept[r] ELSE 0
    <3>1. Running(r) => /\ Position(res, r) \in 1 .. Len(res.reqs)
                        /\ res.reqs[Position(res, r)] = r
      BY <1>2, Placed
    <3> QED  BY <1>2, <3>1
  <2>2. gen[r] \in Nat  BY <1>0 DEF Types
  <2>3. gen'[r] = gen[r] + brought /\ (~Running(r) => gen'[r] = gen[r])
    BY <1>1, <2>1, <2>2
  <2> HIDE DEF brought
  <2>4. brought = IF fresh THEN res.accept[Position(res, r)] ELSE 0  BY DEF brought
  <2>5. /\ req'[r] = req[r] /\ launched'[r] = launched[r] /\ (Running(r)' <=> Running(r))
        /\ fresh => ~req[r].retracted
    BY <1>1 DEF Running
  <2>6. fresh <=> Contains(res.reqs, r) /\ r \notin res.middle  BY <1>2
  <2>7. FALSE <=> Contains(res.reqs, r) /\ res.kind = "extend" /\ r \notin res.mixed
    BY <1>2
  <2> HIDE DEF fresh
  <2>8. req'[r].retracted => req[r].retracted /\ gen'[r] = gen[r]
    BY <2>3, <2>5 DEF fresh
  <2> QED  BY <1>1, <1>2, <1>3, <2>3, <2>4, <2>5, <2>6, <2>7, <2>8, LaunchedContent
<1> QED  BY <1>4, <1>5 DEF Content

\* The run of a request that has not ended, of a batch that the host has whole:
\* what it is given of it, and what the grammar has made of it.
LEMMA GivenFacts ==
  ASSUME Frame, Content, Len(queue) \in 1 .. 2, queue[1].copied,
         Alarm \in {"no", "backwards"},
         NEW r \in Reqs, Emits(1, r), ~Ended(req[r])
  PROVE  LET h == queue[1]
             o == req[r]
             q == Resolving[r]
             whole == Run(h, Position(h, r)) IN
         /\ whole \in Seq(Tokens) /\ Len(whole) = Brings(1, r)
         /\ \A j \in 1 .. Len(whole) : whole[j] = <<r, Len(o.out) + j>>
         /\ h.kind = "extend" => Given(r) = whole /\ Len(whole) = 1
         /\ h.kind = "decode" /\ r \notin Grammar => Given(r) = whole
         /\ h.kind = "decode" /\ r \in Grammar => Given(r) = Retain(r, whole)
         /\ o.toFinish => q.toFinish
         /\ h.kind = "extend" => q = o
         /\ r \in Grammar /\ (h.kind = "decode" \/ h.advanced) =>
              /\ Illegal(r, whole) => q.toFinish
              /\ ~q.toFinish => q.fsm = Len(o.out) + Len(Retain(r, whole))
         /\ r \in Grammar /\ ~h.advanced /\ ~o.toFinish => o.fsm = Len(o.out)
<1> DEFINE h == queue[1]
           o == req[r]
           q == Resolving[r]
           i == Position(h, r)
           whole == Run(h, i)
<1>1. /\ h \in Results /\ Shape(h) /\ h.kind \in {"extend", "decode"}
      /\ h.kind = "extend" => Resolved = h /\ Resolving = req
      /\ h.kind = "decode" => Resolved = Memoized(h, req) /\ Resolving = Advanced(h, req)
  BY ResolvedFacts DEF Results
<1>2. /\ Contains(h.reqs, r) /\ r \notin h.middle /\ 1 \in 1 .. Len(queue) /\ 1 <= Len(queue)
  BY DEF Emits, Names, Middle
<1>3. i \in 1 .. Len(h.reqs) /\ h.reqs[i] = r  BY <1>1, <1>2, Placed
<1>4. /\ Continues(r) /\ Retained(r) /\ Fsm(r) /\ ~h.bad /\ ~o.finished
      /\ h.base[r] = Len(o.out)
  <2>1. ~fault  BY NoneMissing
  <2> QED  BY <1>2, <2>1 DEF Content, Advancing, Ended, Continues
<1>5. /\ Accepted(h, i) = whole /\ whole \in Seq(Tokens) /\ Len(whole) = h.accept[i]
      /\ \A j \in 1 .. h.accept[i] : whole[j] = <<r, Len(o.out) + j>>
  <2>1. /\ h.copied /\ ~h.bad => Accepted(h, i) = Run(h, i)
        /\ Len(Run(h, i)) = h.accept[i] /\ Run(h, i) \in Seq(Tokens)
        /\ \A j \in 1 .. h.accept[i] : Run(h, i)[j] =
              IF h.reqs[i] \in h.middle THEN Junk
              ELSE <<h.reqs[i], h.base[h.reqs[i]] + j>>
    BY <1>1, <1>3, AcceptedRun
  <2> QED  BY <1>2, <1>3, <1>4, <2>1
<1>6. Brings(1, r) = h.accept[i]  BY DEF Brings
<1>7. h.kind = "extend" => Given(r) = whole /\ Len(whole) = 1
  <2>1. h.kind = "extend" => h.accept[i] \in 1 .. 1  BY <1>1, <1>3 DEF Shape
  <2> QED  BY <1>5, <2>1 DEF Given
<1>8. h.kind = "decode" /\ r \notin Grammar => Given(r) = whole
  BY <1>5 DEF Given
<1>9. r \in Grammar /\ h.advanced =>
        /\ h.retained[i] = Retain(r, whole) /\ (Illegal(r, whole) => o.toFinish)
        /\ ~o.toFinish => o.fsm = Len(o.out) + Len(Retain(r, whole))
  BY <1>2, <1>4 DEF Retained, Fsm, Ahead
<1>10. r \in Grammar /\ ~h.advanced /\ ~o.toFinish => o.fsm = Len(o.out)
  <2>1. Len(o.out) \in Nat /\ Len(o.out) + 0 = Len(o.out)
    <3>1. o.out \in Seq(Tokens)  BY DEF Frame, Types, ReqStates
    <3> QED  BY <3>1, LenProperties
  <2> QED  BY <1>4, <2>1 DEF Fsm, Ahead
<1>11. h.kind = "extend" => q = o  BY <1>1
<1>12. CASE h.kind = "decode" /\ r \in Grammar /\ ~h.advanced
  <2>1. AdvancesFsm(h)
    <3>1. Types /\ Resolved.advanced  BY <1>12, NoneMissing DEF Frame
    <3>2. Memoized(h, req).advanced <=> h.advanced \/ h.hasGrammar
      BY <1>1, <3>1, MemoizedFacts
    <3> QED  BY <1>1, <1>12, <3>1, <3>2 DEF AdvancesFsm
  <2>2. LET w == Run(h, Position(h, r))
            n == Advanced(h, req)[r] IN
         /\ Memoized(h, req).retained[Position(h, r)] = Retain(r, w)
         /\ n.fsm = req[r].fsm + Len(Retain(r, w))
         /\ n.toFinish <=> req[r].toFinish \/ Illegal(r, w)
    BY <1>4, <1>12, <2>1, AdvancesWhole
  <2>3. Given(r) = Retain(r, whole)  BY <1>1, <1>12, <2>2 DEF Given
  <2>4. /\ q.fsm = o.fsm + Len(Retain(r, whole))
        /\ q.toFinish <=> o.toFinish \/ Illegal(r, whole)
    BY <1>1, <1>12, <2>2
  <2> HIDE DEF h, o, q, whole
  <2>5. /\ Illegal(r, whole) => q.toFinish
        /\ ~q.toFinish => q.fsm = Len(o.out) + Len(Retain(r, whole))
        /\ o.toFinish => q.toFinish
    BY <1>10, <1>12, <2>4
  <2> QED  BY <1>5, <1>6, <1>7, <1>8, <1>10, <1>12, <2>3, <2>5 DEF h, o, q, whole, i
<1>13. CASE ~(h.kind = "decode" /\ r \in Grammar /\ ~h.advanced)
  <2>1. q = o /\ (h.kind = "decode" /\ r \in Grammar => Given(r) = Retain(r, whole))
    <3>1. CASE h.kind = "extend"  BY <1>1, <3>1
    <3>2. CASE h.kind = "decode"
      <4>1. r \in Grammar => h.advanced  BY <1>13, <3>2
      <4>2. r \in Grammar => Memoized(h, req) = h
        BY <4>1 DEF Memoized, AdvancesFsm
      <4>3. Advanced(h, req)[r] = o
        <5>1. ~(AdvancesFsm(h) /\ Contains(h.reqs, r) /\ Advances(h, r, req[r]))
          BY <4>1 DEF AdvancesFsm, Advances
        <5> QED  BY <5>1 DEF Advanced
      <4> QED  BY <1>1, <1>9, <3>2, <4>1, <4>2, <4>3 DEF Given
    <3> QED  BY <1>1, <3>1, <3>2
  <2> HIDE DEF h, o, q, whole
  <2>2. r \in Grammar /\ (h.kind = "decode" \/ h.advanced) =>
          /\ Illegal(r, whole) => q.toFinish
          /\ ~q.toFinish => q.fsm = Len(o.out) + Len(Retain(r, whole))
    BY <1>9, <1>13, <2>1
  <2> QED  BY <1>5, <1>6, <1>7, <1>8, <1>10, <2>1, <2>2 DEF h, o, q, whole, i
<1> QED  BY <1>12, <1>13

\* The output, the end, the observer and the grammar of a request after its run.
LEMMA Outcome ==
  ASSUME Frame, Content, Len(queue) \in 1 .. 2, queue[1].copied,
         Alarm \in {"no", "backwards"},
         NEW r \in Reqs, Emits(1, r), ~Ended(req[r])
  PROVE  LET h == queue[1]
             o == req[r]
             n == Processed(r) IN
         /\ n.out \in Seq(Tokens) /\ \A k \in 1 .. Len(n.out) : n.out[k] = <<r, k>>
         /\ ~n.finished => /\ n.finLen = None /\ Len(n.out) < Limit[r]
                           /\ Len(n.out) = Len(o.out) + Brings(1, r)
         /\ n.finLen \in {None, Limit[r]} /\ n.retracted = o.retracted
         /\ n.aux = Visible(n) /\ ~(Visible(n) < Visible(o))
         /\ r \in Grammar => Len(n.out) <= Limit[r]
         /\ r \in Grammar /\ ~n.finished /\ ~n.toFinish => n.fsm = Len(n.out)
         /\ ~n.finished => n.committed =
              IF h.kind = "decode" THEN o.committed + Brings(1, r)
              ELSE IF r \in h.mixed THEN o.committed + Brings(1, r) ELSE o.committed
         /\ h.kind = "extend" => Brings(1, r) = 1
<1> DEFINE h == queue[1]
           o == req[r]
           q == Resolving[r]
           n == Processed(r)
           run == Given(r)
           whole == Run(h, Position(h, r))
           kept == Retain(r, whole)
           end == Limit[r]
           brings == Brings(1, r)
<1>1. /\ whole \in Seq(Tokens) /\ Len(whole) = brings
      /\ \A j \in 1 .. Len(whole) : whole[j] = <<r, Len(o.out) + j>>
      /\ h.kind = "extend" => run = whole /\ Len(whole) = 1
      /\ h.kind = "decode" /\ r \notin Grammar => run = whole
      /\ h.kind = "decode" /\ r \in Grammar => run = kept
      /\ o.toFinish => q.toFinish
      /\ h.kind = "extend" => q = o
      /\ r \in Grammar /\ (h.kind = "decode" \/ h.advanced) =>
           /\ Illegal(r, whole) => q.toFinish
           /\ ~q.toFinish => q.fsm = Len(o.out) + Len(kept)
      /\ r \in Grammar /\ ~h.advanced /\ ~o.toFinish => o.fsm = Len(o.out)
  BY GivenFacts
<1>2. /\ run \in Seq(Tokens) /\ n \in ReqStates /\ n.out = o.out \o run
      /\ n.finished <=> q.toFinish \/ Len(n.out) >= end
      /\ n.finLen = IF ~q.toFinish /\ Len(n.out) >= end THEN end ELSE o.finLen
      /\ n.retracted = o.retracted
      /\ n.committed = IF h.kind = "decode" THEN o.committed + Len(run)
                       ELSE IF ~n.finished /\ r \in h.mixed THEN o.committed + 1
                       ELSE o.committed
      /\ IF h.kind = "extend" /\ r \in Grammar /\ ~h.advanced
         THEN /\ n.fsm = o.fsm + Len(Retain(r, run))
              /\ n.toFinish <=> o.toFinish \/ Illegal(r, run)
         ELSE n.fsm = q.fsm /\ n.toFinish = q.toFinish
      /\ n.aux = IF Visible(n) = Visible(o) THEN o.aux
                 ELSE IF Visible(o) = o.aux THEN Visible(n) ELSE None
  BY Output
<1>3. /\ Continues(r) /\ Limited(r) /\ o \in ReqStates /\ h.kind \in {"extend", "decode"}
  BY ResolvedFacts DEF Content, Frame, Types, Results
<1>4. /\ \A k \in 1 .. Len(o.out) : o.out[k] = <<r, k>>
      /\ ~o.finished /\ o.finLen = None /\ Len(o.out) < end /\ o.aux = Visible(o)
      /\ o.out \in Seq(Tokens) /\ Len(o.out) \in Nat
  BY <1>3, LenProperties DEF Continues, Limited, Ended, ReqStates
<1>5. end \in Nat \ {0} /\ None \notin Nat  BY NoneIsNoLimit
<1>6. Visible(o) = Len(o.out)  BY <1>4 DEF Visible
<1> HIDE DEF h, o, q, n, run, whole, end, brings
<1>7. kept \in Seq(Tokens) /\ Len(kept) <= Len(whole) /\ Len(kept) \in Nat
      /\ \A j \in 1 .. Len(kept) : kept[j] = whole[j]
  BY <1>1, Retaining, LenProperties
<1>8. /\ Len(o.out) + Len(kept) <= end
      /\ ~Illegal(r, whole) /\ Len(o.out) + Len(kept) # end => kept = whole
  <2>1. /\ Len(o.out) < Limit[r] => Len(o.out) + Len(Retain(r, whole)) <= Limit[r]
        /\ ~Illegal(r, whole) /\ Len(o.out) + Len(Retain(r, whole)) # Limit[r]
             => Retain(r, whole) = whole
    BY <1>1, <1>4, RetainedRun
  <2> QED  BY <1>4, <2>1 DEF end
<1> HIDE DEF kept
<1>9. run = whole \/ run = kept  BY <1>1, <1>3
<1>10. \A j \in 1 .. Len(run) : run[j] = <<r, Len(o.out) + j>>
  <2>1. Len(whole) \in Nat  BY <1>1, LenProperties
  <2>2. \A j \in 1 .. Len(kept) : j \in 1 .. Len(whole)  BY <1>7, <2>1
  <2> QED  BY <1>1, <1>7, <1>9, <2>2
<1>11. /\ Len(n.out) = Len(o.out) + Len(run) /\ Len(run) \in Nat
       /\ \A k \in 1 .. Len(n.out) : n.out[k] = <<r, k>>
  <2>1. /\ Len(o.out \o run) = Len(o.out) + Len(run) /\ Len(run) \in Nat
        /\ \A k \in 1 .. Len(o.out \o run) : (o.out \o run)[k] = <<r, k>>
    BY <1>2, <1>4, <1>10, Continued
  <2> QED  BY <1>2, <2>1
<1>12. Len(n.out) \in Nat /\ n.out \in Seq(Tokens)
  BY <1>2, LenProperties DEF ReqStates
<1>13. ~n.finished => ~q.toFinish /\ Len(n.out) < end  BY <1>2, <1>5, <1>12
<1>14. ~n.finished => run = whole
  <2>1. CASE h.kind = "decode" /\ r \in Grammar
    BY <1>1, <1>4, <1>5, <1>7, <1>8, <1>11, <1>13, <2>1
  <2>2. CASE ~(h.kind = "decode" /\ r \in Grammar)  BY <1>1, <1>3, <2>2
  <2> QED  BY <2>1, <2>2
<1>15. r \in Grammar => Len(n.out) <= end
  <2>1. CASE h.kind = "decode"  BY <1>1, <1>8, <1>11, <2>1
  <2>2. CASE h.kind = "extend"
    <3>1. Len(run) = 1  BY <1>1, <2>2
    <3> QED  BY <1>4, <1>5, <1>11, <3>1
  <2> QED  BY <1>3, <2>1, <2>2
<1>16. ASSUME r \in Grammar, ~n.finished, ~n.toFinish  PROVE n.fsm = Len(n.out)
  <2>1. run = whole /\ ~q.toFinish /\ Len(n.out) < end  BY <1>13, <1>14, <1>16
  <2>2. CASE h.kind = "decode"  BY <1>1, <1>2, <1>11, <1>16, <2>1, <2>2
  <2>3. CASE h.kind = "extend"
    <3>1. q = o /\ Len(whole) = 1  BY <1>1, <2>3
    <3>2. ~Illegal(r, whole) /\ n.fsm = Len(o.out) + Len(kept)
      <4>1. CASE h.advanced  BY <1>1, <1>2, <1>16, <2>1, <4>1
      <4>2. CASE ~h.advanced  BY <1>1, <1>2, <1>16, <2>1, <2>3, <3>1, <4>2 DEF kept
      <4> QED  BY <4>1, <4>2
    <3>3. Len(o.out) + Len(kept) # end  BY <1>4, <1>5, <1>7, <1>11, <2>1, <3>1
    <3> QED  BY <1>8, <1>11, <2>1, <3>2, <3>3
  <2> QED  BY <1>3, <2>2, <2>3
<1>17. /\ n.finLen \in {None, end} /\ (~n.finished => n.finLen = None)
       /\ Visible(n) = (IF n.finLen = None THEN Len(n.out) ELSE end)
  <2>1. end # None  BY <1>5
  <2>2. n.finLen = None \/ n.finLen = end  BY <1>2, <1>4
  <2>3. Visible(n) = (IF n.finLen = None THEN Len(n.out) ELSE end)
    BY <2>2 DEF Visible
  <2>4. ~n.finished => n.finLen = None  BY <1>2, <1>4, <1>13
  <2> QED  BY <2>2, <2>3, <2>4
<1>18. Len(n.out) >= Len(o.out) /\ end > Len(o.out)  BY <1>4, <1>5, <1>11
<1>19. ~(Visible(n) < Visible(o))  BY <1>4, <1>5, <1>6, <1>12, <1>17, <1>18
<1>20. n.aux = Visible(n)  BY <1>2, <1>4
<1>21. ~n.finished => /\ Len(n.out) = Len(o.out) + brings
                      /\ n.committed =
                           IF h.kind = "decode" THEN o.committed + brings
                           ELSE IF r \in h.mixed THEN o.committed + brings
                           ELSE o.committed
  BY <1>1, <1>2, <1>3, <1>11, <1>14
<1>22. h.kind = "extend" => brings = 1  BY <1>1
<1> QED  BY <1>2, <1>11, <1>12, <1>13, <1>15, <1>16, <1>17, <1>19, <1>20, <1>21, <1>22
         DEF h, o, n, end, brings

\* The processor raises for the transport, or for a grammar whose flag is lost.
LEMMA AlarmCause ==
  ASSUME Frame, Content, Len(queue) \in 1 .. 2, queue[1].copied
  PROVE  Alarm \in {"no", "roce"} \/ (Alarm = "grammar" /\ ~Carried)
<1> DEFINE h == queue[1]
<1>1. /\ h \in Results /\ Shape(h) /\ h.kind \in {"extend", "decode"} /\ Types
      /\ Resolved.kind = h.kind /\ Resolved.reqs = h.reqs
      /\ h.kind = "decode" => Resolved = Memoized(h, req)
  BY ResolvedFacts DEF Results, Frame
<1>2. ASSUME Alarm = "grammar"  PROVE ~Carried
  <2>1. /\ Resolved.kind = "decode" /\ ~Resolved.advanced
        /\ \E r \in Reqs : Contains(Resolved.reqs, r) /\ r \in Grammar
    BY <1>2, AlarmFacts
  <2>2. HasGrammar(h.reqs)  BY <1>1, <2>1 DEF HasGrammar
  <2>3. ~h.hasGrammar
    <3>1. Memoized(h, req).advanced <=> h.advanced \/ h.hasGrammar
      BY <1>1, MemoizedFacts
    <3> QED  BY <1>1, <2>1, <3>1
  <2> QED  BY <1>1, <2>2, <2>3 DEF Shape
<1>3. ASSUME Alarm = "backwards"  PROVE FALSE
  <2>1. PICK r \in Reqs : /\ Contains(Resolved.reqs, r)
                          /\ Visible(Processed(r)) < Visible(req[r])
    BY <1>3, AlarmFacts
  <2>2. Names(1, r) /\ req[r] \in ReqStates  BY <1>1, <2>1 DEF Names, Types
  <2>3. Visible(req[r]) \in Nat  BY <2>2, VisibleFacts
  <2>4. CASE Middle(1, r)
    <3>1. LET n == Processed(r) IN n.out = req[r].out /\ n.finLen = req[r].finLen
      BY <2>4, Chunked
    <3>2. Visible(Processed(r)) = Visible(req[r])  BY <3>1 DEF Visible
    <3> QED  BY <2>1, <2>3, <3>2
  <2>5. CASE Emits(1, r) /\ Ended(req[r])
    <3>1. Processed(r) = req[r]  BY <2>5, Skipped
    <3> QED  BY <2>1, <2>3, <3>1
  <2>6. CASE Emits(1, r) /\ ~Ended(req[r])
    <3>1. ~(Visible(Processed(r)) < Visible(req[r]))  BY <1>3, <2>6, Outcome
    <3> QED  BY <2>1, <3>1
  <2> QED  BY <2>2, <2>4, <2>5, <2>6 DEF Emits
<1> QED  BY <1>2, <1>3, AlarmFacts

\* A step that leaves all but the alarm.
LEMMA StillContent ==
  ASSUME Frame, Content, UNCHANGED <<mode, req, queue, phase, launched, gen, fault>>,
         NoAlarm'
  PROVE  Content'
<1>1. queue \in Seq(Results) /\ Advancing  BY DEF Frame, Types, Content
<1>2. SameRuns  BY <1>1, UnchangedRuns
<1>3. \A r \in Reqs : Masked(r)'  BY <1>2, SameMasked
<1>4. \A i \in 1 .. Len(queue) : /\ queue[i].advanced => phase' = "process"
                                 /\ queue'[i].bad => fault'
  BY <1>1 DEF Advancing
<1> QED  BY <1>2, <1>3, <1>4, SteadyContent

\* The head of the queue is gone.
LEMMA PoppedRuns ==
  ASSUME Frame, Len(queue) \in 1 .. 2, queue' = Tail(queue), NEW r
  PROVE  /\ Emits(1, r)' <=> Emits(2, r)
         /\ Middle(1, r)' <=> Middle(2, r)
         /\ Prefill(1, r)' <=> Prefill(2, r)
         /\ Brings(1, r)' = Brings(2, r)
         /\ ~Emits(2, r)' /\ Brings(2, r)' = 0 /\ ~Prefill(2, r)'
         /\ Emits(2, r) => queue'[1] = queue[2]
<1>1. queue \in Seq(Results)  BY DEF Frame, Types
<1>2. /\ Len(queue) = 2 => queue'[1] = queue[2]
      /\ Names(1, r)' <=> Names(2, r)
      /\ Middle(1, r)' <=> Middle(2, r)
      /\ ~Names(2, r)' /\ ~Middle(2, r)'
  BY <1>1, Popped
<1>3. Names(2, r) => Len(queue) = 2  BY DEF Names
<1>4. /\ Emits(1, r)' <=> Emits(2, r)
      /\ ~Emits(2, r)'
      /\ Emits(2, r) => queue'[1] = queue[2]
  BY <1>2, <1>3 DEF Emits
<1>5. Prefill(1, r)' <=> Prefill(2, r)
  <2>1. CASE Names(2, r)  BY <1>2, <1>3, <2>1 DEF Prefill
  <2>2. CASE ~Names(2, r)  BY <1>2, <2>2 DEF Prefill
  <2> QED  BY <2>1, <2>2
<1>6. Brings(1, r)' = Brings(2, r)
  <2>1. CASE Emits(2, r)  BY <1>4, <2>1 DEF Brings
  <2>2. CASE ~Emits(2, r)  BY <1>4, <2>2 DEF Brings
  <2> QED  BY <2>1, <2>2
<1>7. Brings(2, r)' = 0 /\ ~Prefill(2, r)'  BY <1>2, <1>4 DEF Brings, Prefill
<1> QED  BY <1>2, <1>4, <1>5, <1>6, <1>7

\* Any request after the head of the queue has been processed.
LEMMA ProcessedFacts ==
  ASSUME Frame, Content, Len(queue) \in 1 .. 2, queue[1].copied,
         Alarm \in {"no", "backwards"}, NEW r \in Reqs
  PROVE  LET o == req[r]
             n == Processed(r) IN
         /\ \A k \in 1 .. Len(n.out) : n.out[k] = <<r, k>>
         /\ n.retracted = o.retracted /\ (o.finished => n.finished)
         /\ o.retracted => n.out = o.out
         /\ ~Ended(n) => Len(n.out) = Len(o.out) + Brings(1, r)
         /\ ~n.finished => n.finLen = None /\ Len(n.out) < Limit[r]
         /\ n.finLen \in {None, Limit[r]} /\ n.aux = Visible(n)
         /\ r \in Grammar => Len(n.out) <= Limit[r]
         /\ r \in Grammar /\ ~n.finished /\ ~n.toFinish => n.fsm = Len(n.out)
         /\ ~Ended(n) => n.committed =
              IF Emits(1, r) /\ ~Prefill(1, r) THEN o.committed + Brings(1, r)
              ELSE o.committed
         /\ Prefill(1, r) /\ Emits(1, r) => Brings(1, r) = 1
<1> DEFINE o == req[r]
           n == Processed(r)
           h == queue[1]
<1>1. /\ Continues(r) /\ Limited(r) /\ Fsm(r) /\ o \in ReqStates
      /\ h \in Results /\ h.kind \in {"extend", "decode"} /\ Shape(h)
  <2>1. h \in Results /\ Shape(h)  BY ResolvedFacts
  <2> QED  BY <2>1 DEF Content, Frame, Types, Results
<1>2. Prefill(1, r) /\ Emits(1, r) => Brings(1, r) = 1
  <2> SUFFICES ASSUME Prefill(1, r), Emits(1, r)  PROVE Brings(1, r) = 1  OBVIOUS
  <2>1. h.kind = "extend" /\ Contains(h.reqs, r)  BY DEF Prefill, Names
  <2>2. Position(h, r) \in 1 .. Len(h.reqs)  BY <1>1, <2>1, Placed
  <2>3. h.accept[Position(h, r)] \in 1 .. 1  BY <1>1, <2>1, <2>2 DEF Shape
  <2> QED  BY <2>3 DEF Brings
<1>3. Len(o.out) \in Nat /\ Len(o.out) + 0 = Len(o.out)
  <2>1. o.out \in Seq(Tokens)  BY <1>1 DEF ReqStates
  <2> QED  BY <2>1, LenProperties
<1>4. CASE Emits(1, r) /\ ~Ended(o)
  <2>1. /\ \A k \in 1 .. Len(n.out) : n.out[k] = <<r, k>>
        /\ ~n.finished => /\ n.finLen = None /\ Len(n.out) < Limit[r]
                          /\ Len(n.out) = Len(o.out) + Brings(1, r)
        /\ n.finLen \in {None, Limit[r]} /\ n.retracted = o.retracted
        /\ n.aux = Visible(n)
        /\ r \in Grammar => Len(n.out) <= Limit[r]
        /\ r \in Grammar /\ ~n.finished /\ ~n.toFinish => n.fsm = Len(n.out)
        /\ ~n.finished => n.committed =
              IF h.kind = "decode" THEN o.committed + Brings(1, r)
              ELSE IF r \in h.mixed THEN o.committed + Brings(1, r) ELSE o.committed
    BY <1>4, Outcome
  <2>2. Prefill(1, r) <=> h.kind = "extend" /\ r \notin h.mixed
    BY <1>4 DEF Prefill, Emits
  <2>3. ~o.finished /\ ~o.retracted /\ (~Ended(n) => ~n.finished)
    BY <1>4 DEF Ended
  <2> HIDE DEF o, n, h
  <2>4. ~Ended(n) => n.committed =
          IF Emits(1, r) /\ ~Prefill(1, r) THEN o.committed + Brings(1, r) ELSE o.committed
    BY <1>1, <1>4, <2>1, <2>2, <2>3
  <2> QED  BY <1>2, <2>1, <2>3, <2>4 DEF o, n
<1>5. CASE ~(Emits(1, r) /\ ~Ended(o))
  <2>1. /\ n.out = o.out /\ n.finished = o.finished /\ n.finLen = o.finLen
        /\ n.toFinish = o.toFinish /\ n.retracted = o.retracted
        /\ n.committed = o.committed /\ n.fsm = o.fsm /\ n.aux = o.aux
    <3>1. CASE Middle(1, r)  BY <3>1, Chunked
    <3>2. CASE ~Middle(1, r)
      <4>1. n = o  BY <1>5, <3>2, Skipped DEF Emits
      <4> QED  BY <4>1
    <3> QED  BY <3>1, <3>2
  <2>2. Ahead(r) = 0  BY <1>5 DEF Ahead
  <2>3. ~Ended(o) => ~Emits(1, r) /\ Brings(1, r) = 0  BY <1>5 DEF Brings
  <2> HIDE DEF n
  <2>4. Visible(n) = Visible(o) /\ (Ended(n) <=> Ended(o))  BY <2>1 DEF Visible, Ended
  <2>5. /\ \A k \in 1 .. Len(o.out) : o.out[k] = <<r, k>>
        /\ ~o.finished => o.finLen = None /\ Len(o.out) < Limit[r]
        /\ o.finLen \in {None, Limit[r]} /\ o.aux = Visible(o)
        /\ r \in Grammar => Len(o.out) <= Limit[r]
        /\ r \in Grammar /\ ~o.finished /\ ~o.toFinish => o.fsm = Len(o.out)
    BY <1>1, <1>3, <2>2 DEF Continues, Limited, Fsm
  <2> HIDE DEF o
  <2>6. ~Ended(n) => /\ Len(n.out) = Len(o.out) + Brings(1, r)
                     /\ n.committed = o.committed /\ ~Emits(1, r)
    BY <1>3, <2>1, <2>3, <2>4
  <2> QED  BY <1>2, <2>1, <2>4, <2>5, <2>6 DEF n, o
<1> QED  BY <1>4, <1>5

LEMMA ProcessContent ==
  ASSUME Frame, Content, Process, UNCHANGED mode
  PROVE  Content'
<1>1. /\ phase = "process" /\ Len(queue) \in 1 .. 2 /\ queue[1].copied /\ Types
      /\ queue \in Seq(Results) /\ Advancing /\ NoAlarm /\ Grammar' = Grammar
  BY ProcessSteps DEF Frame, Types, Content, Grammar
<1>2. CASE /\ Alarm # "no" /\ raised' = Alarm
           /\ UNCHANGED <<req, queue, phase, launched, gen, fault, retracts>>
  <2>1. NoAlarm'
    <3>1. Carried' = Carried  BY DEF Carried, Overlap
    <3> QED  BY <1>1, <1>2, <3>1, AlarmCause DEF NoAlarm
  <2> QED  BY <1>2, <2>1, StillContent
<1>3. CASE /\ Alarm = "no" /\ req' = [r \in Reqs |-> Processed(r)]
           /\ queue' = Tail(queue) /\ phase' = "plan"
           /\ UNCHANGED <<launched, gen, fault, raised, retracts>>
  <2>1. ~fault  BY <1>3, AlarmFacts
  <2>2. /\ Len(queue') = Len(queue) - 1 /\ (Len(queue) = 2 => queue'[1] = queue[2])
    BY <1>1, <1>3, Popped
  <2>3. \A i \in 1 .. Len(queue') : ~queue'[i].advanced /\ (queue'[i].bad => fault')
    <3> SUFFICES ASSUME NEW i \in 1 .. Len(queue')
                 PROVE  ~queue'[i].advanced /\ (queue'[i].bad => fault')
      OBVIOUS
    <3>1. i = 1 /\ Len(queue) = 2 /\ 2 \in 1 .. Len(queue) /\ 2 # 1  BY <1>1, <2>2
    <3> QED  BY <1>1, <1>3, <2>2, <3>1 DEF Advancing
  <2>4. Advancing' /\ NoAlarm'  BY <1>1, <1>3, <2>3, SameAlarm DEF Advancing
  <2>5. Len(queue') \in 0 .. 1 /\ (Len(queue') >= 1 => ~queue'[1].advanced)
    <3>1. Len(queue') \in 0 .. 1  BY <1>1, <2>2
    <3>2. Len(queue') >= 1 => 1 \in 1 .. Len(queue')  BY <3>1
    <3> QED  BY <2>3, <3>1, <3>2
  <2>6. ASSUME NEW r \in Reqs
        PROVE  /\ Continues(r)' /\ Limited(r)' /\ Retained(r)' /\ Fsm(r)'
               /\ Masked(r)' /\ Committed(r)'
    <3> DEFINE o == req[r]
               n == Processed(r)
    <3>1. req'[r] = n /\ launched'[r] = launched[r] /\ gen'[r] = gen[r]  BY <1>3
    <3>2. /\ \A k \in 1 .. Len(n.out) : n.out[k] = <<r, k>>
          /\ n.retracted = o.retracted /\ (o.finished => n.finished)
          /\ o.retracted => n.out = o.out
          /\ ~Ended(n) => Len(n.out) = Len(o.out) + Brings(1, r)
          /\ ~n.finished => n.finLen = None /\ Len(n.out) < Limit[r]
          /\ n.finLen \in {None, Limit[r]} /\ n.aux = Visible(n)
          /\ r \in Grammar => Len(n.out) <= Limit[r]
          /\ r \in Grammar /\ ~n.finished /\ ~n.toFinish => n.fsm = Len(n.out)
          /\ ~Ended(n) => n.committed =
               IF Emits(1, r) /\ ~Prefill(1, r) THEN o.committed + Brings(1, r)
               ELSE o.committed
          /\ Prefill(1, r) /\ Emits(1, r) => Brings(1, r) = 1
      BY <1>1, <1>3, ProcessedFacts
    <3>3. /\ Continues(r) /\ Committed(r) /\ Prompted(r) /\ launched[r] \in Nat
          /\ Chunks[r] \in Nat /\ o \in ReqStates
      BY <1>1, BatchAssumption DEF Content, Frame, Types
    <3>4. /\ Emits(1, r)' <=> Emits(2, r)
          /\ Middle(1, r)' <=> Middle(2, r)
          /\ Prefill(1, r)' <=> Prefill(2, r)
          /\ Brings(1, r)' = Brings(2, r)
          /\ ~Emits(2, r)' /\ Brings(2, r)' = 0 /\ ~Prefill(2, r)'
          /\ Emits(2, r) => queue'[1] = queue[2]
      BY <1>1, <1>3, PoppedRuns
    <3>5. Brings(1, r) \in Nat /\ Brings(2, r) \in Nat  BY BringsType
    <3>6. Len(o.out) \in Nat /\ o.committed \in Nat
      <4>1. o.out \in Seq(Tokens)  BY <3>3 DEF ReqStates
      <4> QED  BY <3>3, <4>1, LenProperties DEF ReqStates
    <3>7. ~Ended(n) => ~Ended(o)  BY <3>2 DEF Ended
    <3> HIDE DEF n
    <3>8. Continues(r)'
      <4>1. o.retracted => gen[r] = Len(o.out)  BY <3>3 DEF Continues
      <4>2. ~Ended(n) =>
              /\ Emits(2, r) => queue[2].base[r] = Len(o.out) + Brings(1, r)
              /\ gen[r] = Len(o.out) + Brings(1, r) + Brings(2, r)
        BY <3>3, <3>7 DEF Continues
      <4> HIDE DEF o
      <4>3. /\ n.retracted => gen'[r] = Len(n.out)
            /\ ~Ended(n) => /\ Emits(1, r)' => queue'[1].base[r] = Len(n.out)
                            /\ gen'[r] = Len(n.out) + Brings(1, r)' + Brings(2, r)'
        BY <3>1, <3>2, <3>4, <3>5, <3>6, <4>1, <4>2
      <4> QED  BY <3>1, <3>2, <3>4, <4>3 DEF Continues
    <3>9. Limited(r)'  BY <1>1, <3>1, <3>2 DEF Limited
    <3>10. Retained(r)'  BY <2>5 DEF Retained
    <3>11. Ahead(r)' = 0  BY <2>5 DEF Ahead
    <3>12. Fsm(r)'
      <4>1. ~n.finished => Len(n.out) + 0 = Len(n.out)
        <5>1. n \in ReqStates
          <6>1. Frame'  BY ProcessFrame
          <6> QED  BY <3>1, <6>1 DEF Frame, Types
        <5>2. n.out \in Seq(Tokens)  BY <5>1 DEF ReqStates
        <5> QED  BY <5>2, LenProperties
      <4> QED  BY <1>1, <3>1, <3>2, <3>11, <4>1 DEF Fsm
    <3>13. Masked(r)'  BY <2>5 DEF Masked
    <3>14. Committed(r)'
      <4>1. Middle(1, r)' => launched'[r] < Chunks[r]
        BY <3>1, <3>3, <3>4 DEF Prompted
      <4>2. ASSUME Running(r)'
            PROVE  n.committed = Chunks[r] + Len(n.out)
                     - (IF Prefill(2, r) THEN 0 ELSE 1)
        <5>1. Running(r) /\ ~Ended(n) /\ launched[r] = Chunks[r]
          BY <3>1, <3>2, <4>2 DEF Running, Ended
        <5>2. o.committed = Chunks[r] + Len(o.out)
                - (IF Prefill(1, r) \/ Prefill(2, r) THEN 0 ELSE 1)
          BY <3>3, <5>1 DEF Committed
        <5>3. Middle(1, r) => Prefill(2, r)  BY <3>3, <5>1 DEF Committed
        <5>4. Emits(1, r) => ~Prefill(2, r)  BY <3>3 DEF Prompted, Prefill
        <5>5. ~Emits(1, r) => Brings(1, r) = 0  BY DEF Brings
        <5>6. Prefill(1, r) => Names(1, r)  BY DEF Prefill
        <5>7. Names(1, r) => Emits(1, r) \/ Middle(1, r)  BY DEF Emits
        <5> HIDE DEF o
        <5>8. CASE Emits(1, r) /\ Prefill(1, r)
          BY <3>2, <3>3, <3>6, <5>1, <5>2, <5>4, <5>8
        <5>9. CASE Emits(1, r) /\ ~Prefill(1, r)
          <6>1. n.committed = o.committed + Brings(1, r)  BY <3>2, <5>1, <5>9
          <6>2. o.committed = Chunks[r] + Len(o.out) - 1  BY <5>2, <5>4, <5>9
          <6>3. Len(n.out) = Len(o.out) + Brings(1, r)  BY <3>2, <5>1
          <6>4. n.committed = Chunks[r] + Len(n.out) - 1
            <7>1. \A a, b, c \in Nat : (a + b - 1) + c = a + (b + c) - 1  OBVIOUS
            <7>2. (Chunks[r] + Len(o.out) - 1) + Brings(1, r)
                    = Chunks[r] + (Len(o.out) + Brings(1, r)) - 1
              BY <3>3, <3>5, <3>6, <7>1
            <7> QED  BY <6>1, <6>2, <6>3, <7>2
          <6> QED  BY <5>4, <5>9, <6>4
        <5>10. CASE ~Emits(1, r)
          <6>1. Prefill(1, r) \/ Prefill(2, r) <=> Prefill(2, r)
            BY <5>3, <5>6, <5>7, <5>10
          <6>2. n.committed = o.committed  BY <3>2, <5>1, <5>10
          <6>3. Len(n.out) = Len(o.out)  BY <3>2, <3>6, <5>1, <5>5, <5>10
          <6>4. o.committed = Chunks[r] + Len(o.out) - (IF Prefill(2, r) THEN 0 ELSE 1)
            BY <5>2, <6>1
          <6> QED  BY <6>2, <6>3, <6>4
        <5> QED  BY <5>8, <5>9, <5>10
      <4> QED  BY <3>1, <3>4, <4>1, <4>2 DEF Committed
    <3> QED  BY <3>8, <3>9, <3>10, <3>12, <3>13, <3>14
  <2> QED  BY <2>4, <2>6 DEF Content
<1> QED  BY <1>2, <1>3, ProcessSteps

LEMMA ContentStep == IInv /\ [Next]_vars => Content'
<1> SUFFICES ASSUME Frame, Content, [Next]_vars  PROVE Content'  BY DEF IInv
<1>0. Frame'  BY FrameStep
<1>1. CASE UNCHANGED vars
  <2>1. /\ UNCHANGED <<mode, req, queue, phase, launched, gen, fault>>
        /\ NoAlarm'
    BY <1>1, SameAlarm DEF vars, Content
  <2> QED  BY <2>1, StillContent
<1>2. CASE Next
  <2>0. UNCHANGED mode  BY <1>2 DEF Next
  <2>1. ASSUME NEW P \in SUBSET Reqs, NEW M \in SUBSET Reqs, LaunchExtend(P, M)
        PROVE Content'
    BY <1>0, <2>0, <2>1, ExtendContent
  <2>2. ASSUME NEW accept \in [Reqs -> 1 .. MaxAccept], LaunchDecode(accept)
        PROVE Content'
    BY <1>0, <2>0, <2>2, DecodeContent
  <2>3. CASE LaunchNone  BY <2>0, <2>3, LaunchNoneContent
  <2>4. ASSUME NEW r \in Reqs, Retract(r)  PROVE Content'  BY <1>0, <2>0, <2>4, RetractContent
  <2>5. ASSUME NEW r \in Reqs, Abort(r)  PROVE Content'  BY <2>0, <2>5, AbortContent
  <2>6. CASE Copied  BY <2>0, <2>6, CopiedContent
  <2>7. CASE TransportFault  BY <2>0, <2>7, FaultContent
  <2>8. CASE Barrier  BY <2>0, <2>8, BarrierContent
  <2>9. CASE Process  BY <2>0, <2>9, ProcessContent
  <2> QED  BY <1>2, <2>1, <2>2, <2>3, <2>4, <2>5, <2>6, <2>7, <2>8, <2>9 DEF Next, Step
<1> QED  BY <1>1, <1>2

\* In every reachable state the results in the queue continue the output of the
\* requests they name, and the grammars are where those results need them.
THEOREM Invariance == Spec => []IInv
<1>1. Init => IInv  BY InitFrame, InitContent DEF IInv
<1>2. IInv /\ [Next]_vars => IInv'
  <2>1. IInv /\ [Next]_vars => Frame'  BY FrameStep DEF IInv
  <2> QED  BY <2>1, ContentStep DEF IInv
<1> QED  BY <1>1, <1>2, PTL DEF Spec

\* With whatever overlap, retractions and aborts the visible output of a request
\* never becomes shorter, and a request with a grammar lacks its retained run only
\* when the copy of its batch has lost has_grammar.
THEOREM NoAlarmHolds == Spec => []NoAlarm
<1>1. IInv => NoAlarm  BY DEF IInv, Content
<1> QED  BY <1>1, Invariance, PTL

\* The output of every request is the tokens that were computed for it, each
\* once and in order, up to the one that ends it, and the observer of auxiliary
\* output has been given what is visible of it.
THEOREM OutputExactHolds == Spec => []OutputExact
<1>1. ASSUME IInv  PROVE TypeOK
  <2>1. /\ Types /\ Phased /\ \A r \in Reqs : Prompted(r) /\ Limited(r)
    BY <1>1 DEF IInv, Frame, Content
  <2>2. ASSUME NEW r \in Reqs
        PROVE  LET q == req[r] IN
               /\ q.out \in Seq((0 .. NReqs) \X Int)
               /\ {q.inflight, q.committed, q.fsm} \subseteq Nat
               /\ {q.finished, q.toFinish, q.retracted} \subseteq BOOLEAN
               /\ q.finLen \in {None, Limit[r]} /\ launched[r] \in 0 .. Chunks[r]
               /\ gen[r] \in Nat
    <3>1. req[r] \in ReqStates /\ launched[r] \in Nat /\ gen[r] \in Nat
      BY <2>1 DEF Types
    <3>2. Prompted(r) /\ Limited(r) /\ Chunks[r] \in Nat  BY <2>1, BatchAssumption
    <3>3. launched[r] \in 0 .. Chunks[r]  BY <3>1, <3>2 DEF Prompted
    <3> QED  BY <3>1, <3>2, <3>3 DEF ReqStates, Tokens, Limited
  <2>3. Len(queue) <= 2
    <3>1. Len(queue) \in 0 .. 2  BY <2>1 DEF Phased
    <3>2. \A n : n \in 0 .. 2 => n <= 2  OBVIOUS
    <3> QED  BY <3>1, <3>2
  <2>4. /\ phase \in {"plan", "retract", "verify", "process"}
        /\ retracts \in 0 .. MaxRetracts
    BY <2>1 DEF Types
  <2> QED  BY <2>2, <2>3, <2>4 DEF TypeOK
<1>2. ASSUME IInv, NEW r \in Reqs
      PROVE  /\ \A k \in DOMAIN req[r].out : req[r].out[k] = <<r, k>>
             /\ r \in Grammar => Len(req[r].out) <= Limit[r]
             /\ req[r].aux = Visible(req[r])
  <2>1. req[r].out \in Seq(Tokens)  BY <1>2 DEF IInv, Frame, Types, ReqStates
  <2>2. DOMAIN req[r].out = 1 .. Len(req[r].out)  BY <2>1
  <2>3. Continues(r) /\ Limited(r)  BY <1>2 DEF IInv, Content
  <2> QED  BY <2>2, <2>3 DEF Continues, Limited
<1>3. IInv => OutputExact  BY <1>1, <1>2 DEF OutputExact
<1> QED  BY <1>3, Invariance, PTL

\* kv_committed_len of a request that is decoding and has no prompt result to
\* come is the length of its prompt and output without the last token.
THEOREM CommittedExactHolds == Spec => []CommittedExact
<1>1. ASSUME IInv, NEW r \in Reqs, Settled(r)
      PROVE  req[r].committed = Chunks[r] + Len(req[r].out) - 1
  <2>1. queue \in Seq(Results) /\ Committed(r)
    BY <1>1 DEF IInv, Frame, Types, Content
  <2>2. Running(r)  BY <1>1 DEF Settled
  <2>3. \A i \in DOMAIN queue :
          ~(Contains(queue[i].reqs, r) /\ queue[i].kind = "extend" /\ r \notin queue[i].mixed)
    BY <1>1 DEF Settled, Queued
  <2>4. ~Prefill(1, r) /\ ~Prefill(2, r)
    <3>1. DOMAIN queue = 1 .. Len(queue) /\ Len(queue) \in Nat  BY <2>1
    <3>2. \A i \in {1, 2} : i <= Len(queue) => i \in DOMAIN queue  BY <3>1
    <3> QED  BY <2>3, <3>2 DEF Prefill, Names
  <2> QED  BY <2>1, <2>2, <2>4 DEF Committed
<1>2. IInv => CommittedExact  BY <1>1 DEF CommittedExact
<1> QED  BY <1>2, Invariance, PTL

\* When the verify of a request with a grammar samples, its grammar has accepted
\* all that was generated before it, or has terminated: the barrier comes between
\* the launch and the masks, and where the copies carry has_grammar no batch with
\* a grammar passes it by.
THEOREM MaskFreshHolds == Spec => []MaskFresh
<1>1. ASSUME IInv, Carried, NEW r \in Reqs, r \in Grammar, Len(queue) \in 1 .. 2, phase # "verify",
             queue[Len(queue)].kind = "decode", Contains(queue[Len(queue)].reqs, r),
             ~Ended(req[r]), ~req[r].toFinish
      PROVE  req[r].fsm \in {queue[Len(queue)].base[r], Limit[r]}
  <2> DEFINE o == req[r]
  <2>1. /\ Frame /\ Types /\ Phased /\ Advancing /\ Continues(r) /\ Retained(r)
        /\ Fsm(r) /\ Masked(r) /\ Limited(r) /\ ~o.finished
    BY <1>1 DEF IInv, Frame, Content, Ended
  <2>2. o.fsm = Len(o.out) + Ahead(r)  BY <1>1, <2>1 DEF Fsm
  <2>3. Len(o.out) \in Nat /\ Len(o.out) + 0 = Len(o.out)
    <3>1. o.out \in Seq(Tokens)  BY <2>1 DEF Types, ReqStates
    <3> QED  BY <3>1, LenProperties
  <2>4. CASE Len(queue) = 1
    <3>1. Emits(1, r)
      <4>1. ~Middle(1, r)  BY <1>1, <2>1, <2>4, MiddleNames
      <4> QED  BY <1>1, <2>4, <4>1 DEF Emits, Names
    <3>2. queue[1].base[r] = Len(o.out)  BY <1>1, <2>1, <3>1 DEF Continues
    <3>3. ~queue[1].advanced  BY <1>1, <2>1, <2>4 DEF Advancing
    <3>4. Ahead(r) = 0  BY <3>3 DEF Ahead
    <3> QED  BY <2>2, <2>3, <2>4, <3>2, <3>4
  <2>5. CASE Len(queue) = 2
    <3>1. phase = "process"  BY <1>1, <2>1, <2>5 DEF Phased, Types
    <3>2. Emits(2, r)
      <4>1. ~Middle(2, r)  BY <1>1, <2>1, <2>5, MiddleNames
      <4> QED  BY <1>1, <2>5, <4>1 DEF Emits, Names
    <3>3. queue[2].base[r] = Len(o.out) + Brings(1, r)
      BY <1>1, <2>1, <3>2 DEF Continues
    <3>4. CASE ~Emits(1, r)
      <4>1. Ahead(r) = 0 /\ Brings(1, r) = 0  BY <3>4 DEF Ahead, Brings
      <4> QED  BY <2>2, <2>3, <2>5, <3>3, <4>1
    <3>5. CASE Emits(1, r)
      <4> DEFINE h == queue[1]
                 i == Position(h, r)
                 whole == Run(h, i)
      <4>1. h.advanced  BY <1>1, <2>1, <2>5, <3>1, <3>2, <3>5 DEF Masked
      <4>2. h.retained[i] = Retain(r, whole) /\ ~Illegal(r, whole)
        BY <1>1, <2>1, <2>5, <3>5, <4>1 DEF Retained
      <4>3. Ahead(r) = Len(Retain(r, whole))
        BY <1>1, <2>5, <3>5, <4>1, <4>2 DEF Ahead
      <4>4. h \in Results /\ Shape(h)  BY <1>1, <2>1, ResolvedFacts
      <4>5. Contains(h.reqs, r) /\ r \notin h.middle
        BY <2>5, <3>5 DEF Emits, Names, Middle
      <4>6. i \in 1 .. Len(h.reqs) /\ h.reqs[i] = r  BY <4>4, <4>5, Placed
      <4>7. h.base[r] = Len(o.out)  BY <1>1, <2>1, <3>5 DEF Continues
      <4>8. /\ whole \in Seq(Tokens) /\ Len(whole) = h.accept[i]
            /\ \A j \in 1 .. Len(whole) : whole[j] = <<r, Len(o.out) + j>>
        <5>1. /\ Len(Run(h, i)) = h.accept[i] /\ Run(h, i) \in Seq(Tokens)
              /\ \A j \in 1 .. h.accept[i] : Run(h, i)[j] =
                    IF h.reqs[i] \in h.middle THEN Junk
                    ELSE <<h.reqs[i], h.base[h.reqs[i]] + j>>
          BY <4>4, <4>6, AcceptedRun
        <5> QED  BY <4>5, <4>6, <4>7, <5>1
      <4>9. Brings(1, r) = Len(whole)  BY <3>5, <4>8 DEF Brings
      <4>10. Len(o.out) + Len(Retain(r, whole)) # Limit[r] => Retain(r, whole) = whole
        <5> HIDE DEF whole, o
        <5> QED  BY <2>3, <4>2, <4>8, RetainedRun
      <4> HIDE DEF whole, o
      <4> QED  BY <2>2, <2>5, <3>3, <4>3, <4>9, <4>10 DEF o
    <3> QED  BY <3>4, <3>5
  <2> QED  BY <1>1, <2>4, <2>5
<1>2. ASSUME IInv  PROVE MaskFresh
  <2>1. /\ queue \in Seq(Results) /\ Len(queue) \in 0 .. 2 /\ mode \in Modes
        /\ DOMAIN queue = 1 .. Len(queue)
    BY <1>2 DEF IInv, Frame, Types, Phased
  <2>2. Grammar \subseteq Reqs  BY <2>1, BatchAssumption DEF Grammar
  <2> SUFFICES ASSUME Carried, NEW i \in DOMAIN queue, NEW r \in Grammar,
                      i = Len(queue), phase # "verify", queue[i].kind = "decode",
                      Contains(queue[i].reqs, r), ~Ended(req[r]), ~req[r].toFinish
               PROVE  req[r].fsm \in {queue[i].base[r], Limit[r]}
    BY DEF MaskFresh
  <2>3. Len(queue) \in 1 .. 2  BY <2>1
  <2> QED  BY <1>1, <1>2, <2>2, <2>3
<1> QED  BY <1>2, Invariance, PTL
=============================================================================
