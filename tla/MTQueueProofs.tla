---------------------------- MODULE MTQueueProofs ----------------------------
(***************************************************************************)
(* Theorems about MTQueue, for every set of threads, every capacity, every *)
(* call table and every number of writes; and about the programs that use  *)
(* it, which copy a file or play what is recorded, for every capacity.     *)
(***************************************************************************)
EXTENDS CPPBox, ListLemmas, TLAPS

-----------------------------------------------------------------------------
\* push_front of the number of the next element.
LEMMA PushFacts ==
  ASSUME NEW p \in Nat, NEW s \in Seq(Nat)
  PROVE  /\ Cons(p + 1, s) \in Seq(Nat)
         /\ Len(Cons(p + 1, s)) = Len(s) + 1
         /\ Cons(p + 1, s)[1] = p + 1
         /\ \A i \in 1..Len(s) : Cons(p + 1, s)[i + 1] = s[i]
<1>1. PICK e \in Nat : e = p + 1
  OBVIOUS
<1>2. Cons(e, s) \in Seq(Nat) /\ Len(Cons(e, s)) = Len(s) + 1
  BY ConsFacts
<1>3. Cons(e, s)[1] = e /\ \A i \in 1..Len(s) : Cons(e, s)[i + 1] = s[i]
  BY ConsFacts
<1>4. QED
  BY <1>1, <1>2, <1>3

-----------------------------------------------------------------------------
\* No critical section or wake-up changes a type.
LEMMA TypeStep == ASSUME TypeOK, [Next]_qvars PROVE TypeOK'
<1> USE DEF TypeOK
<1>1. CASE UNCHANGED qvars
  BY <1>1 DEF qvars
<1>2. ASSUME NEW t \in Threads, NEW m \in Methods, ReadOne(t, m) PROVE TypeOK'
  <2>1. /\ Front(q) \in Seq(Nat) /\ Last(q) \in Nat
    BY <1>2, FrontFacts DEF ReadOne
  <2>2. Append(taken, Last(q)) \in Seq(Nat)
    BY <2>1, AppendProperties
  <2>3. QED
    BY <1>2, <2>1, <2>2 DEF ReadOne, Return, Goto
<1>3. ASSUME NEW t \in Threads, NEW m \in Methods, ReadWaits(t, m) PROVE TypeOK'
  BY <1>3 DEF ReadWaits, WaitOnCond, Goto
<1>4. ASSUME NEW t \in Threads, NEW m \in Methods, WriteOne(t, m) PROVE TypeOK'
  <2>1. Cons(pushed + 1, q) \in Seq(Nat)
    BY PushFacts
  <2>2. QED
    BY <1>4, <2>1 DEF WriteOne, Push, Goto
<1>5. ASSUME NEW t \in Threads, ReadGivesUp(t) PROVE TypeOK'
  BY <1>5 DEF ReadGivesUp, Return, Goto, NULL, Methods, Reads
<1>6. ASSUME NEW t \in Threads, WriteOverOldest(t) PROVE TypeOK'
  <2>1. q # <<>>
    BY <1>6, MaxCountType DEF WriteOverOldest
  <2>2. Front(q) \in Seq(Nat) /\ Last(q) \in Nat
    BY <2>1, FrontFacts
  <2>3. Cons(pushed + 1, Front(q)) \in Seq(Nat)
    BY <2>2, PushFacts
  <2>4. /\ pc' \in [Threads -> {"idle", "waiting", "woken", "timedOut", "notify"}]
        /\ op' \in [Threads -> Methods]
        /\ ret' \in [Threads -> Int]
    BY <1>6 DEF WriteOverOldest, Push, Goto, Methods, Writes
  <2>5. q' \in Seq(Nat) /\ destroyed' \in SUBSET Nat
    BY <1>6, <2>2, <2>3 DEF WriteOverOldest, Push
  <2>6. \A u \in Threads : pc'[u] = "timedOut" => op'[u] \in {"readTd", "writeTd"}
    BY <1>6 DEF WriteOverOldest, Push, Goto
  <2>7. mIsWaitWasExited' = mIsWaitWasExited /\ taken' = taken /\ leaked' = leaked
        /\ pushed' \in Nat
    BY <1>6 DEF WriteOverOldest, Push
  <2>8. QED
    BY <2>4, <2>5, <2>6, <2>7
<1>7. ASSUME NEW t \in Threads, WriteFails(t) PROVE TypeOK'
  BY <1>7 DEF WriteFails, Return, Goto, Methods, Writes
<1>8. ASSUME NEW t \in Threads, WriteWaits(t) PROVE TypeOK'
  BY <1>8 DEF WriteWaits, WaitOnCond, Goto, Methods, Writes
<1>9. ASSUME NEW t \in Threads, WriteGivesUp(t) PROVE TypeOK'
  BY <1>9 DEF WriteGivesUp, Return, Goto, Methods, Writes
<1>10. ASSUME NEW t \in Threads, ClearAll(t) PROVE TypeOK'
  <2>1. ToSet(q) \in SUBSET Nat
    BY DEF ToSet
  <2>2. q' \in Seq(Nat) /\ leaked' \in SUBSET Nat
    BY <1>10, <2>1, EmptySeq DEF ClearAll
  <2>3. "clear" \in Methods
    BY DEF Methods
  <2>4. QED
    BY <1>10, <2>2, <2>3 DEF ClearAll, Return, Goto, NULL
<1>11. ASSUME NEW t \in Threads, Get(t) PROVE TypeOK'
  <2>1. q # <<>> => Last(q) \in Nat
    BY FrontFacts
  <2>2. QED
    BY <1>11, <2>1 DEF Get, Return, Goto, NULL, Methods
<1>12. ASSUME NEW t \in Threads, SetWaitExitState(t) PROVE TypeOK'
  BY <1>12 DEF SetWaitExitState, Return, Goto, NULL, Methods
<1>13. ASSUME NEW t \in Threads, NotifyOne(t) PROVE TypeOK'
  BY <1>13 DEF NotifyOne, Waiting
<1>14. ASSUME NEW t \in Threads, Timeout(t) PROVE TypeOK'
  BY <1>14 DEF Timeout
<1>15. ASSUME NEW t \in Threads, SpuriousWakeup(t) PROVE TypeOK'
  BY <1>15 DEF SpuriousWakeup
<1>16. QED
  BY <1>1, <1>2, <1>3, <1>4, <1>5, <1>6, <1>7, <1>8, <1>9, <1>10, <1>11,
     <1>12, <1>13, <1>14, <1>15 DEF Next, Locked

\* The queue begins with the right types.
LEMMA TypeAtFirst == ASSUME Init PROVE TypeOK
<1>1. <<>> \in Seq(Nat)
  BY EmptySeq
<1>2. "get" \in Methods
  BY DEF Methods
<1>3. q \in Seq(Nat) /\ taken \in Seq(Nat)
  BY <1>1 DEF Init
<1>4. /\ pc \in [Threads -> {"idle", "waiting", "woken", "timedOut", "notify"}]
      /\ op \in [Threads -> Methods]
      /\ ret \in [Threads -> Int]
  BY <1>2 DEF Init, NULL
<1>5. QED
  BY <1>3, <1>4 DEF Init, TypeOK

\* Every variable of the queue keeps its type.
THEOREM TypeCorrect == Spec => []TypeOK
<1>1. Init => TypeOK
  BY TypeAtFirst
<1>2. TypeOK /\ [Next]_qvars => TypeOK'
  BY TypeStep
<1>3. QED
  BY <1>1, <1>2, PTL DEF Spec
-----------------------------------------------------------------------------
\* What a step may do to the deque and to the record of its elements.
Pops ==
  /\ q # <<>>
  /\ q' = Front(q)
  /\ taken' = Append(taken, Last(q))
  /\ UNCHANGED <<pushed, destroyed, leaked>>
Pushes ==
  /\ Len(q) < maxCount
  /\ q' = Cons(pushed + 1, q)
  /\ pushed' = pushed + 1
  /\ UNCHANGED <<taken, destroyed, leaked>>
Cycles ==
  /\ Len(q) >= maxCount
  /\ q' = Cons(pushed + 1, Front(q))
  /\ pushed' = pushed + 1
  /\ destroyed' = destroyed \cup {Last(q)}
  /\ UNCHANGED <<taken, leaked>>
Clears ==
  /\ q' = <<>>
  /\ leaked' = leaked \cup ToSet(q)
  /\ UNCHANGED <<pushed, taken, destroyed>>
Rests == UNCHANGED <<q, pushed, taken, destroyed, leaked>>

\* Whatever a thread does, it does one of these to the deque.
LEMMA DequeSteps ==
  ASSUME [Next]_qvars
  PROVE  Pops \/ Pushes \/ Cycles \/ Clears \/ Rests
<1>1. CASE UNCHANGED qvars
  BY <1>1 DEF qvars, Rests
<1>2. ASSUME NEW t \in Threads, NEW m \in Methods, ReadOne(t, m) PROVE Pops
  BY <1>2 DEF ReadOne, Pops
<1>3. ASSUME NEW t \in Threads, NEW m \in Methods, ReadWaits(t, m) PROVE Rests
  BY <1>3 DEF ReadWaits, WaitOnCond, Rests
<1>4. ASSUME NEW t \in Threads, NEW m \in Methods, WriteOne(t, m) PROVE Pushes
  BY <1>4 DEF WriteOne, Push, Pushes
<1>5. ASSUME NEW t \in Threads, WriteOverOldest(t) PROVE Cycles
  BY <1>5 DEF WriteOverOldest, Push, Cycles
<1>6. ASSUME NEW t \in Threads, ClearAll(t) PROVE Clears
  BY <1>6 DEF ClearAll, Clears
<1>7. ASSUME NEW t \in Threads,
             ReadGivesUp(t) \/ WriteFails(t) \/ WriteWaits(t) \/ WriteGivesUp(t)
      PROVE  Rests
  BY <1>7 DEF ReadGivesUp, WriteFails, WriteWaits, WriteGivesUp, WaitOnCond, Rests
<1>8. ASSUME NEW t \in Threads, Get(t) \/ SetWaitExitState(t) PROVE Rests
  BY <1>8 DEF Get, SetWaitExitState, Rests
<1>9. ASSUME NEW t \in Threads, NotifyOne(t) \/ Timeout(t) \/ SpuriousWakeup(t)
      PROVE  Rests
  BY <1>9 DEF NotifyOne, Timeout, SpuriousWakeup, Rests
<1>10. QED
  BY <1>1, <1>2, <1>3, <1>4, <1>5, <1>6, <1>7, <1>8, <1>9 DEF Next, Locked

\* The queue never holds more than maxCount elements.
THEOREM NeverOverfull == Spec => []Bounded
<1>1. Init => Bounded
  BY MaxCountType, EmptySeq DEF Init, Bounded
<1>2. TypeOK /\ Bounded /\ [Next]_qvars => Bounded'
  <2> SUFFICES ASSUME TypeOK, Bounded, [Next]_qvars PROVE Bounded'
    OBVIOUS
  <2> USE MaxCountType DEF TypeOK, Bounded
  <2>1. CASE Pops
    <3>1. Len(Front(q)) = Len(q) - 1 /\ Len(q) \in Nat
      BY <2>1, FrontFacts DEF Pops
    <3>2. QED
      BY <2>1, <3>1 DEF Pops
  <2>2. CASE Pushes
    <3>1. Len(Cons(pushed + 1, q)) = Len(q) + 1
      BY PushFacts
    <3>2. QED
      BY <2>2, <3>1, LenProperties DEF Pushes
  <2>3. CASE Cycles
    <3>1. q # <<>> /\ Len(q) \in Nat
      BY <2>3, EmptySeq, LenProperties DEF Cycles
    <3>2. Front(q) \in Seq(Nat) /\ Len(Front(q)) = Len(q) - 1
      BY <3>1, FrontFacts
    <3>3. Len(Cons(pushed + 1, Front(q))) = Len(Front(q)) + 1
      BY <3>2, PushFacts
    <3>4. QED
      BY <2>3, <3>1, <3>2, <3>3 DEF Cycles
  <2>4. CASE Clears
    BY <2>4, EmptySeq DEF Clears
  <2>5. CASE Rests
    BY <2>5 DEF Rests
  <2>6. QED
    BY <2>1, <2>2, <2>3, <2>4, <2>5, DequeSteps
<1>3. QED
  BY <1>1, <1>2, TypeCorrect, PTL DEF Spec

\* The elements of the queue are the last ones pushed, newest in front.
Consecutive == Len(q) <= pushed /\ q = [i \in 1..Len(q) |-> pushed + 1 - i]

\* Pushing the next number keeps a countdown a countdown.
LEMMA ConsCountdown ==
  ASSUME NEW p \in Nat, NEW s \in Seq(Nat), \A i \in 1..Len(s) : s[i] = p + 1 - i
  PROVE  /\ Len(Cons(p + 1, s)) = Len(s) + 1
         /\ Cons(p + 1, s) = [i \in 1..(Len(s) + 1) |-> p + 2 - i]
<1> DEFINE c == Cons(p + 1, s)
<1>1. p + 1 \in Nat /\ Len(s) \in Nat
  BY LenProperties
<1>2. /\ c \in Seq(Nat)
      /\ Len(c) = Len(s) + 1
      /\ c[1] = p + 1
      /\ \A i \in 1..Len(s) : c[i + 1] = s[i]
  BY PushFacts
<1> HIDE DEF c
<1>3. \A i \in 1..(Len(s) + 1) : c[i] = p + 2 - i
  <2> TAKE i \in 1..(Len(s) + 1)
  <2>1. CASE i = 1
    BY <1>2, <2>1
  <2>2. CASE i # 1
    <3>1. i - 1 \in 1..Len(s) /\ (i - 1) + 1 = i
      BY <1>1, <2>2
    <3>2. c[(i - 1) + 1] = s[i - 1] /\ s[i - 1] = p + 1 - (i - 1)
      BY <1>2, <3>1
    <3>3. QED
      BY <3>1, <3>2
  <2>3. QED
    BY <2>1, <2>2
<1>4. c = [i \in 1..Len(c) |-> c[i]]
  BY <1>2, LenProperties
<1>5. QED
  BY <1>2, <1>3, <1>4 DEF c

\* Popping the oldest number keeps a countdown a countdown.
LEMMA FrontCountdown ==
  ASSUME NEW p \in Nat, NEW s \in Seq(Nat), s # <<>>,
         s = [i \in 1..Len(s) |-> p + 1 - i]
  PROVE  /\ Last(s) = p + 1 - Len(s)
         /\ Len(s) \in Nat \ {0}
         /\ Front(s) \in Seq(Nat)
         /\ Len(Front(s)) = Len(s) - 1
         /\ \A i \in 1..Len(Front(s)) : Front(s)[i] = p + 1 - i
         /\ Front(s) = [i \in 1..Len(Front(s)) |-> p + 1 - i]
<1>1. /\ Front(s) \in Seq(Nat)
      /\ Len(s) \in Nat \ {0}
      /\ Len(Front(s)) = Len(s) - 1
      /\ \A i \in 1..(Len(s) - 1) : Front(s)[i] = s[i]
      /\ Last(s) = s[Len(s)]
  BY FrontFacts
<1>2. \A i \in 1..Len(s) : s[i] = p + 1 - i
  OBVIOUS
<1>3. \A i \in 1..Len(Front(s)) : Front(s)[i] = p + 1 - i
  BY <1>1, <1>2
<1>4. Front(s) = [i \in 1..Len(Front(s)) |-> Front(s)[i]]
  BY <1>1, LenProperties
<1>5. Front(s) = [i \in 1..Len(Front(s)) |-> p + 1 - i]
  BY <1>3, <1>4
<1>6. Last(s) = p + 1 - Len(s)
  BY <1>1, <1>2
<1>7. QED
  BY <1>1, <1>3, <1>5, <1>6

LEMMA ConsecutiveStep ==
  ASSUME TypeOK, Consecutive, [Next]_qvars
  PROVE  /\ Consecutive'
         /\ q # <<>> => Last(q) = pushed + 1 - Len(q)
<1>1. /\ pushed \in Nat
      /\ q \in Seq(Nat)
      /\ Len(q) \in Nat
      /\ Len(q) <= pushed
      /\ q = [i \in 1..Len(q) |-> pushed + 1 - i]
  BY LenProperties DEF TypeOK, Consecutive
<1>2. q # <<>> => /\ Last(q) = pushed + 1 - Len(q)
                  /\ Len(q) \in Nat \ {0}
                  /\ Front(q) \in Seq(Nat)
                  /\ Len(Front(q)) = Len(q) - 1
                  /\ \A i \in 1..Len(Front(q)) : Front(q)[i] = pushed + 1 - i
                  /\ Front(q) = [i \in 1..Len(Front(q)) |-> pushed + 1 - i]
  BY <1>1, FrontCountdown
<1>3. CASE Pops
  <2>1. q' = Front(q) /\ pushed' = pushed /\ q # <<>>
    BY <1>3 DEF Pops
  <2>2. q' = [i \in 1..Len(q') |-> pushed' + 1 - i]
    BY <1>2, <2>1
  <2>3. Len(q') <= pushed'
    BY <1>1, <1>2, <2>1
  <2>4. QED
    BY <1>2, <2>2, <2>3 DEF Consecutive
<1>4. CASE Pushes
  <2>1. \A i \in 1..Len(q) : q[i] = pushed + 1 - i
    BY <1>1
  <2>2. /\ Len(Cons(pushed + 1, q)) = Len(q) + 1
        /\ Cons(pushed + 1, q) = [i \in 1..(Len(q) + 1) |-> pushed + 2 - i]
    BY <1>1, <2>1, ConsCountdown
  <2>3. /\ pushed' = pushed + 1
        /\ Len(q') = Len(q) + 1
        /\ q' = [i \in 1..(Len(q) + 1) |-> pushed + 2 - i]
    BY <1>4, <2>2 DEF Pushes
  <2>4. Len(q') <= pushed' /\ \A i \in 1..Len(q') : pushed + 2 - i = pushed' + 1 - i
    BY <1>1, <2>3
  <2>5. QED
    BY <1>1, <1>2, <2>3, <2>4 DEF Consecutive
<1>5. CASE Cycles
  <2>1. q # <<>>
    BY <1>1, <1>5, MaxCountType, EmptySeq DEF Cycles
  <2>2. /\ Len(Cons(pushed + 1, Front(q))) = Len(Front(q)) + 1
        /\ Cons(pushed + 1, Front(q)) = [i \in 1..(Len(Front(q)) + 1) |-> pushed + 2 - i]
    BY <1>1, <1>2, <2>1, ConsCountdown
  <2>3. Len(Front(q)) + 1 = Len(q)
    BY <1>2, <2>1
  <2>4. /\ pushed' = pushed + 1
        /\ Len(q') = Len(q)
        /\ q' = [i \in 1..Len(q) |-> pushed + 2 - i]
    BY <1>5, <2>2, <2>3 DEF Cycles
  <2>5. Len(q') <= pushed' /\ \A i \in 1..Len(q') : pushed + 2 - i = pushed' + 1 - i
    BY <1>1, <2>4
  <2>6. QED
    BY <1>1, <1>2, <2>4, <2>5 DEF Consecutive
<1>6. CASE Clears
  <2>1. q' = <<>> /\ Len(q') = 0 /\ pushed' = pushed
    BY <1>6 DEF Clears
  <2>2. <<>> = [i \in 1..0 |-> pushed' + 1 - i]
    OBVIOUS
  <2>3. q' = [i \in 1..Len(q') |-> pushed' + 1 - i]
    BY <2>1, <2>2
  <2>4. Len(q') <= pushed'
    BY <1>1, <2>1
  <2>5. QED
    BY <1>2, <2>3, <2>4 DEF Consecutive
<1>7. CASE Rests
  BY <1>1, <1>2, <1>7 DEF Rests, Consecutive
<1>8. QED
  BY <1>3, <1>4, <1>5, <1>6, <1>7, DequeSteps

\* The elements that have left the queue are the first `gone` ones.
LEMMA LeavesOnce ==
  ASSUME TypeOK, EachOnce, [Next]_qvars
  PROVE  EachOnce'
<1> DEFINE gone == pushed - Len(q)
<1>1. /\ pushed \in Nat
      /\ Len(q) \in Nat
      /\ Len(q) <= pushed
      /\ gone \in Nat
      /\ taken \in Seq(Nat)
  BY LenProperties DEF TypeOK, EachOnce
<1>2. /\ Consecutive'
      /\ q # <<>> => Last(q) = gone + 1
  <2>1. Consecutive
    BY DEF EachOnce, Consecutive
  <2>2. QED
    BY <2>1, ConsecutiveStep, <1>1
<1>3. /\ \A i, j \in 1..Len(taken) : i < j => taken[i] < taken[j]
      /\ ToSet(taken) \cup destroyed \cup leaked = 1..gone
      /\ ToSet(taken) \cap destroyed = {}
      /\ leaked \cap (ToSet(taken) \cup destroyed) = {}
  BY DEF EachOnce
<1>4. gone + 1 \notin 1..gone /\ 1..(gone + 1) = (1..gone) \cup {gone + 1}
  BY <1>1
<1>5. CASE Pops
  <2>1. /\ q # <<>>
        /\ q' = Front(q)
        /\ taken' = Append(taken, gone + 1)
        /\ UNCHANGED <<pushed, destroyed, leaked>>
    BY <1>2, <1>5 DEF Pops
  <2>2. pushed' - Len(q') = gone + 1
    <3>1. Len(Front(q)) = Len(q) - 1
      BY <2>1, FrontFacts DEF TypeOK
    <3>2. QED
      BY <1>1, <2>1, <3>1
  <2>3. ToSet(taken') = ToSet(taken) \cup {gone + 1}
    BY <1>1, <2>1, ToSetAppend
  <2>4. \A i \in 1..Len(taken) : taken[i] \in 1..gone
    BY <1>1, <1>3, LenProperties DEF ToSet
  <2>5. \A i, j \in 1..Len(taken') : i < j => taken'[i] < taken'[j]
    <3>1. /\ Len(taken') = Len(taken) + 1
          /\ taken'[Len(taken) + 1] = gone + 1
          /\ \A i \in 1..Len(taken) : taken'[i] = taken[i]
          /\ Len(taken) \in Nat
      BY <1>1, <2>1, AppendProperties, LenProperties
    <3>2. \A i \in 1..Len(taken) : taken[i] < gone + 1
      BY <1>1, <2>4
    <3>3. QED
      BY <1>3, <3>1, <3>2
  <2>6. /\ ToSet(taken') \cup destroyed' \cup leaked' = 1..(pushed' - Len(q'))
        /\ ToSet(taken') \cap destroyed' = {}
        /\ leaked' \cap (ToSet(taken') \cup destroyed') = {}
    BY <1>3, <1>4, <2>1, <2>2, <2>3
  <2>7. QED
    BY <1>2, <2>5, <2>6 DEF EachOnce, Consecutive
<1>6. CASE Pushes
  <2>1. Len(Cons(pushed + 1, q)) = Len(q) + 1
    BY <1>1, PushFacts DEF TypeOK
  <2>2. pushed' - Len(q') = gone
    BY <1>1, <1>6, <2>1 DEF Pushes
  <2>3. UNCHANGED <<taken, destroyed, leaked>>
    BY <1>6 DEF Pushes
  <2>4. QED
    BY <1>2, <1>3, <2>2, <2>3 DEF EachOnce, Consecutive
<1>7. CASE Cycles
  <2>1. q # <<>>
    BY <1>1, <1>7, MaxCountType, EmptySeq DEF Cycles
  <2>2. Len(Cons(pushed + 1, Front(q))) = Len(q)
    <3>1. Front(q) \in Seq(Nat) /\ Len(Front(q)) = Len(q) - 1
      BY <2>1, FrontFacts DEF TypeOK
    <3>2. QED
      BY <1>1, <3>1, PushFacts
  <2>3. pushed' - Len(q') = gone + 1
    BY <1>1, <1>7, <2>2 DEF Cycles
  <2>4. destroyed' = destroyed \cup {gone + 1} /\ UNCHANGED <<taken, leaked>>
    BY <1>2, <1>7, <2>1 DEF Cycles
  <2>5. /\ ToSet(taken') \cup destroyed' \cup leaked' = 1..(pushed' - Len(q'))
        /\ ToSet(taken') \cap destroyed' = {}
        /\ leaked' \cap (ToSet(taken') \cup destroyed') = {}
    BY <1>3, <1>4, <2>3, <2>4
  <2>6. QED
    BY <1>2, <1>3, <2>4, <2>5 DEF EachOnce, Consecutive
<1>8. CASE Clears
  <2>1. ToSet(q) = (gone + 1)..pushed
    <3>1. q = [i \in 1..Len(q) |-> pushed + 1 - i]
      BY DEF EachOnce
    <3>2. \A k \in (gone + 1)..pushed : pushed + 1 - k \in 1..Len(q)
      BY <1>1
    <3>3. \A i \in 1..Len(q) : pushed + 1 - i \in (gone + 1)..pushed
      BY <1>1
    <3>4. \A i \in 1..Len(q) : q[i] = pushed + 1 - i
      BY <3>1
    <3>5. \A k \in (gone + 1)..pushed : q[pushed + 1 - k] = k
      BY <1>1, <3>2, <3>4
    <3>6. DOMAIN q = 1..Len(q)
      BY <3>1
    <3>7. ToSet(q) \subseteq (gone + 1)..pushed
      BY <3>3, <3>4, <3>6, Zenon DEF ToSet
    <3>8. (gone + 1)..pushed \subseteq ToSet(q)
      BY <3>2, <3>5, <3>6, Zenon DEF ToSet
    <3>9. QED
      BY <3>7, <3>8
  <2>2. /\ pushed' - Len(q') = pushed
        /\ leaked' = leaked \cup ((gone + 1)..pushed)
        /\ UNCHANGED <<taken, destroyed>>
    BY <1>1, <1>8, <2>1, EmptySeq DEF Clears
  <2>3. /\ 1..pushed = (1..gone) \cup ((gone + 1)..pushed)
        /\ (1..gone) \cap ((gone + 1)..pushed) = {}
    BY <1>1
  <2>4. /\ ToSet(taken') \cup destroyed' \cup leaked' = 1..(pushed' - Len(q'))
        /\ ToSet(taken') \cap destroyed' = {}
        /\ leaked' \cap (ToSet(taken') \cup destroyed') = {}
    BY <1>3, <2>2, <2>3
  <2>5. QED
    BY <1>2, <1>3, <2>2, <2>4 DEF EachOnce, Consecutive
<1>9. CASE Rests
  BY <1>9 DEF Rests, EachOnce
<1>10. QED
  BY <1>5, <1>6, <1>7, <1>8, <1>9, DequeSteps

\* No element is delivered twice, lost silently, or delivered out of order.
THEOREM DeliveredOnce == Spec => []EachOnce
<1>1. Init => EachOnce
  <2> SUFFICES ASSUME Init PROVE EachOnce
    OBVIOUS
  <2>1. q = <<>> /\ taken = <<>> /\ pushed = 0 /\ destroyed = {} /\ leaked = {}
    BY DEF Init
  <2>2. ToSet(<<>>) = {} /\ Len(<<>>) = 0 /\ <<>> = [i \in 1..0 |-> 0 + 1 - i]
    BY DEF ToSet
  <2>3. 1..0 = {}
    OBVIOUS
  <2>4. QED
    BY <2>1, <2>2, <2>3 DEF EachOnce
<1>2. TypeOK /\ EachOnce /\ [Next]_qvars => EachOnce'
  BY LeavesOnce
<1>3. QED
  BY <1>1, <1>2, TypeCorrect, PTL DEF Spec
-----------------------------------------------------------------------------
\* Each step of the queue is one step of the abstract queue, or invisible.
LEMMA RefinesStep ==
  ASSUME TypeOK, Bounded, [Next]_qvars
  PROVE  [Fifo!Next]_<<Reverse(q), pushed, taken>>
<1>1. /\ q \in Seq(Nat)
      /\ pushed + 1 \in Nat
      /\ Len(q) \in Nat
      /\ Len(q) <= maxCount
      /\ maxCount \in Nat \ {0}
      /\ Len(Reverse(q)) = Len(q)
  BY MaxCountType, LenProperties, ReverseFacts DEF TypeOK, Bounded
<1>2. CASE Pops
  <2>1. /\ Reverse(q) # <<>>
        /\ Reverse(q') = Tail(Reverse(q))
        /\ taken' = Append(taken, Head(Reverse(q)))
        /\ pushed' = pushed
    BY <1>1, <1>2, ReverseFront DEF Pops
  <2>2. Fifo!Take
    BY <2>1 DEF Fifo!Take
  <2>3. QED
    BY <2>2 DEF Fifo!Next
<1>3. CASE Pushes
  <2>1. /\ Len(Reverse(q)) < maxCount
        /\ Reverse(q') = Append(Reverse(q), pushed + 1)
        /\ pushed' = pushed + 1
        /\ taken' = taken
    BY <1>1, <1>3, ReverseCons DEF Pushes
  <2>2. Fifo!Put
    BY <2>1 DEF Fifo!Put
  <2>3. QED
    BY <2>2 DEF Fifo!Next
<1>4. CASE Cycles
  <2>1. q # <<>>
    BY <1>1, <1>4, EmptySeq DEF Cycles
  <2>2. Front(q) \in Seq(Nat) /\ Reverse(Front(q)) = Tail(Reverse(q))
    BY <1>1, <2>1, FrontFacts, ReverseFront
  <2>3. /\ Len(Reverse(q)) = maxCount
        /\ Reverse(q') = Append(Tail(Reverse(q)), pushed + 1)
        /\ pushed' = pushed + 1
        /\ taken' = taken
    BY <1>1, <1>4, <2>2, ReverseCons DEF Cycles
  <2>4. Fifo!PutOverOldest
    BY <2>3 DEF Fifo!PutOverOldest
  <2>5. QED
    BY <2>4 DEF Fifo!Next
<1>5. CASE Clears
  <2>1. Reverse(q') = <<>> /\ UNCHANGED <<pushed, taken>>
    BY <1>5, ReverseEmpty DEF Clears
  <2>2. Fifo!Clear
    BY <2>1 DEF Fifo!Clear
  <2>3. QED
    BY <2>2 DEF Fifo!Next
<1>6. CASE Rests
  BY <1>6 DEF Rests
<1>7. QED
  BY <1>2, <1>3, <1>4, <1>5, <1>6, DequeSteps

\* MTQueue is a bounded first-in first-out queue, whatever the threads do.
THEOREM QueueRefinesFifo == Spec => ImplementsBoundedFifo
<1>1. Init => Fifo!Init
  BY ReverseEmpty DEF Init, Fifo!Init
<1>2. TypeOK /\ Bounded /\ [Next]_qvars => [Fifo!Next]_<<Reverse(q), pushed, taken>>
  BY RefinesStep
<1>3. QED
  BY <1>1, <1>2, TypeCorrect, NeverOverfull, PTL
     DEF Spec, ImplementsBoundedFifo, Fifo!Spec, Fifo!fifoVars
-----------------------------------------------------------------------------
\* No thread of the program waits for room: cond has only readers asleep.
NobodyWaitsToWrite == \A t \in Threads : "writeTd" \notin Calls[t]

\* NoLostWakeup is inductive together with: whoever is asleep on cond, or on
\* the way back from it, is in a read method.
SleepersRead ==
  \A t \in Threads : pc[t] \in {"waiting", "woken", "timedOut"} => op[t] \in Reads
WakeupInv == SleepersRead /\ NoLostWakeup

\* Counting threads.
LEMMA Counting ==
  ASSUME NEW A \in SUBSET Threads
  PROVE  /\ Cardinality(A) \in Nat
         /\ \A x \in Threads \ A : Cardinality(A \cup {x}) = Cardinality(A) + 1
         /\ \A x \in A : Cardinality(A \ {x}) = Cardinality(A) - 1
<1>1. IsFiniteSet(A)
  BY ThreadsFinite, FS_Subset
<1>2. Cardinality(A) \in Nat
  BY <1>1, FS_CardinalityType
<1>3. ASSUME NEW x \in Threads \ A PROVE Cardinality(A \cup {x}) = Cardinality(A) + 1
  BY <1>1, <1>3, FS_AddElement
<1>4. ASSUME NEW x \in A PROVE Cardinality(A \ {x}) = Cardinality(A) - 1
  BY <1>1, <1>4, FS_RemoveElement
<1>5. QED
  BY <1>2, <1>3, <1>4

LEMMA SleepersReadStep ==
  ASSUME NobodyWaitsToWrite, TypeOK, SleepersRead, [Next]_qvars
  PROVE  SleepersRead'
<1> USE DEF SleepersRead, TypeOK
<1>1. CASE UNCHANGED qvars
  BY <1>1 DEF qvars
<1>2. ASSUME NEW t \in Threads, NEW m \in Methods, ReadOne(t, m) PROVE SleepersRead'
  BY <1>2 DEF ReadOne, Return, Goto
<1>3. ASSUME NEW t \in Threads, NEW m \in Methods, ReadWaits(t, m) PROVE SleepersRead'
  BY <1>3 DEF ReadWaits, WaitOnCond, Goto
<1>4. ASSUME NEW t \in Threads, NEW m \in Methods, WriteOne(t, m) PROVE SleepersRead'
  BY <1>4 DEF WriteOne, Push, Goto
<1>5. ASSUME NEW t \in Threads, ReadGivesUp(t) PROVE SleepersRead'
  BY <1>5 DEF ReadGivesUp, Return, Goto
<1>6. ASSUME NEW t \in Threads, WriteOverOldest(t) PROVE SleepersRead'
  BY <1>6 DEF WriteOverOldest, Push, Goto
<1>7. ASSUME NEW t \in Threads, WriteFails(t) PROVE SleepersRead'
  BY <1>7 DEF WriteFails, Return, Goto
<1>8. ASSUME NEW t \in Threads, WriteWaits(t) PROVE SleepersRead'
  <2>1. ~Holds(t, "writeTd")
    BY DEF Holds, NobodyWaitsToWrite, Reads
  <2>2. QED
    BY <1>8, <2>1 DEF WriteWaits
<1>9. ASSUME NEW t \in Threads, WriteGivesUp(t) PROVE SleepersRead'
  BY <1>9 DEF WriteGivesUp, Return, Goto
<1>10. ASSUME NEW t \in Threads, ClearAll(t) PROVE SleepersRead'
  BY <1>10 DEF ClearAll, Return, Goto
<1>11. ASSUME NEW t \in Threads, Get(t) PROVE SleepersRead'
  BY <1>11 DEF Get, Return, Goto
<1>12. ASSUME NEW t \in Threads, SetWaitExitState(t) PROVE SleepersRead'
  BY <1>12 DEF SetWaitExitState, Return, Goto
<1>13. ASSUME NEW t \in Threads, NotifyOne(t) PROVE SleepersRead'
  BY <1>13 DEF NotifyOne, Waiting
<1>14. ASSUME NEW t \in Threads, Timeout(t) PROVE SleepersRead'
  BY <1>14 DEF Timeout
<1>15. ASSUME NEW t \in Threads, SpuriousWakeup(t) PROVE SleepersRead'
  BY <1>15 DEF SpuriousWakeup
<1>16. QED
  BY <1>1, <1>2, <1>3, <1>4, <1>5, <1>6, <1>7, <1>8, <1>9, <1>10, <1>11,
     <1>12, <1>13, <1>14, <1>15 DEF Next, Locked

\* An empty queue cannot lose a wake-up.
LEMMA EmptyQueueIsSafe ==
  ASSUME TypeOK', q' = <<>>
  PROVE  NoLostWakeup'
<1>1. /\ Cardinality(PendingNotifiers') \in Nat
      /\ Cardinality(ResumingReaders') \in Nat
  BY Counting DEF PendingNotifiers, ResumingReaders
<1>2. Len(q') = 0
  BY EmptySeq
<1>3. QED
  BY <1>1, <1>2 DEF NoLostWakeup

LEMMA WakeupStep ==
  ASSUME NobodyWaitsToWrite, TypeOK, TypeOK', WakeupInv, [Next]_qvars
  PROVE  NoLostWakeup'
<1> DEFINE N == PendingNotifiers
           R == ResumingReaders
           W == WaitingReaders
<1>1. /\ SleepersRead
      /\ W # {} => Len(q) <= Cardinality(N) + Cardinality(R)
      /\ Len(q) \in Nat
      /\ Cardinality(N) \in Nat
      /\ Cardinality(R) \in Nat
  BY Counting, LenProperties
     DEF WakeupInv, NoLostWakeup, TypeOK, PendingNotifiers, ResumingReaders
<1>2. NoLostWakeup' <=> (W' # {} => Len(q') <= Cardinality(N') + Cardinality(R'))
  BY DEF NoLostWakeup
<1>3. ASSUME W' \subseteq W, N' = N, R' = R, Len(q') <= Len(q), Len(q') \in Nat
      PROVE  NoLostWakeup'
  BY <1>1, <1>2, <1>3
<1>4. Len(q') \in Nat
  BY LenProperties DEF TypeOK
<1>5. CASE UNCHANGED qvars
  <2>1. W' = W /\ N' = N /\ R' = R /\ q' = q
    BY <1>5 DEF qvars, WaitingReaders, PendingNotifiers, ResumingReaders
  <2>2. QED
    BY <1>1, <1>3, <2>1
<1>6. ASSUME NEW t \in Threads, NEW m \in Methods, ReadOne(t, m) PROVE NoLostWakeup'
  <2>1. Len(q') = Len(q) - 1
    BY <1>6, FrontFacts DEF ReadOne, TypeOK
  <2>2. CASE pc[t] = "idle"
    <3>1. W' = W /\ N' = N /\ R' = R
      BY <1>6, <2>2 DEF ReadOne, Return, Goto, TypeOK, WaitingReaders, PendingNotifiers, ResumingReaders
    <3>2. QED
      BY <1>1, <1>3, <1>4, <2>1, <3>1
  <2>3. CASE pc[t] # "idle"
    <3>1. pc[t] \in {"woken", "timedOut"} /\ op[t] = m /\ m \in Reads
      BY <1>6, <2>3 DEF ReadOne, Holds
    <3>2. W' = W /\ N' = N /\ R' = R \ {t} /\ t \in R
      BY <1>6, <3>1 DEF ReadOne, Return, Goto, TypeOK, WaitingReaders, PendingNotifiers, ResumingReaders
    <3>3. Cardinality(R \ {t}) = Cardinality(R) - 1
      BY <3>2, Counting DEF ResumingReaders
    <3>4. QED
      BY <1>1, <1>2, <2>1, <3>2, <3>3
  <2>4. QED
    BY <2>2, <2>3
<1>7. ASSUME NEW t \in Threads, NEW m \in Methods, ReadWaits(t, m) PROVE NoLostWakeup'
  BY <1>7, EmptyQueueIsSafe DEF ReadWaits, WaitOnCond
<1>8. ASSUME NEW t \in Threads, ReadGivesUp(t) PROVE NoLostWakeup'
  BY <1>8, EmptyQueueIsSafe DEF ReadGivesUp
<1>9. ASSUME NEW t \in Threads, ClearAll(t) PROVE NoLostWakeup'
  BY <1>9, EmptyQueueIsSafe DEF ClearAll
\* Outside the read methods only an idle thread can hold the mutex.
<1>10. ASSUME NEW t \in Threads, NEW m \in Methods \ Reads, Holds(t, m)
       PROVE  pc[t] = "idle"
  BY <1>1, <1>10 DEF Holds, SleepersRead
<1>11. ASSUME NEW t \in Threads, NEW m \in Writes, Holds(t, m),
              Goto(t, m, "notify"), Len(q') <= Len(q) + 1
       PROVE  NoLostWakeup'
  <2>1. pc[t] = "idle"
    BY <1>10, <1>11 DEF Methods, Reads, Writes
  <2>2. W' = W /\ N' = N \cup {t} /\ t \notin N /\ R' = R
    BY <1>11, <2>1 DEF Goto, TypeOK, WaitingReaders, PendingNotifiers, ResumingReaders
  <2>3. Cardinality(N \cup {t}) = Cardinality(N) + 1
    BY <2>2, Counting DEF PendingNotifiers
  <2>4. QED
    BY <1>1, <1>2, <1>4, <1>11, <2>2, <2>3
<1>12. ASSUME NEW t \in Threads, NEW m \in Methods, WriteOne(t, m) PROVE NoLostWakeup'
  <2>1. Len(Cons(pushed + 1, q)) = Len(q) + 1
    BY PushFacts DEF TypeOK
  <2>2. QED
    BY <1>1, <1>11, <1>12, <2>1 DEF WriteOne, Push
<1>13. ASSUME NEW t \in Threads, WriteOverOldest(t) PROVE NoLostWakeup'
  <2>1. q # <<>>
    BY <1>13, MaxCountType, EmptySeq DEF WriteOverOldest
  <2>2. Front(q) \in Seq(Nat) /\ Len(Front(q)) = Len(q) - 1
    BY <2>1, FrontFacts DEF TypeOK
  <2>3. Len(Cons(pushed + 1, Front(q))) = Len(Front(q)) + 1
    BY <2>2, PushFacts DEF TypeOK
  <2>4. QED
    BY <1>1, <1>11, <1>13, <2>2, <2>3 DEF WriteOverOldest, Push, Writes
<1>14. ASSUME NEW t \in Threads, NEW m \in Methods \ Reads, Holds(t, m),
              Goto(t, m, "idle"), q' = q
       PROVE  NoLostWakeup'
  <2>1. pc[t] = "idle"
    BY <1>10, <1>14
  <2>2. W' = W /\ N' = N /\ R' = R
    BY <1>14, <2>1 DEF Goto, TypeOK, WaitingReaders, PendingNotifiers, ResumingReaders
  <2>3. QED
    BY <1>1, <1>3, <1>14, <2>2
<1>15. ASSUME NEW t \in Threads,
              WriteFails(t) \/ WriteGivesUp(t) \/ Get(t) \/ SetWaitExitState(t)
       PROVE  NoLostWakeup'
  <2>1. {"write", "writeTd", "get", "setWaitExitState"} \subseteq Methods \ Reads
    BY DEF Methods, Reads, Writes
  <2>2. QED
    BY <1>14, <1>15, <2>1 DEF WriteFails, WriteGivesUp, Get, SetWaitExitState, Return
<1>16. ASSUME NEW t \in Threads, WriteWaits(t) PROVE NoLostWakeup'
  <2>1. ~Holds(t, "writeTd")
    BY <1>1 DEF Holds, NobodyWaitsToWrite, SleepersRead, Reads
  <2>2. QED
    BY <1>16, <2>1 DEF WriteWaits
<1>17. ASSUME NEW t \in Threads, NotifyOne(t) PROVE NoLostWakeup'
  <2>1. CASE Waiting = {} /\ pc' = [pc EXCEPT ![t] = "idle"]
    <3>1. W' = {}
      BY <2>1 DEF TypeOK, Waiting, WaitingReaders
    <3>2. QED
      BY <1>2, <3>1
  <2>2. ASSUME NEW w \in Waiting, pc' = [pc EXCEPT ![t] = "idle", ![w] = "woken"]
        PROVE  NoLostWakeup'
    <3>1. w \in Threads /\ pc[w] = "waiting" /\ op[w] \in Reads /\ w # t
      BY <1>1, <1>17, <2>2 DEF Waiting, SleepersRead, NotifyOne
    <3>2. w \in W /\ w \notin R /\ t \in N
      BY <1>17, <3>1 DEF NotifyOne, WaitingReaders, ResumingReaders, PendingNotifiers
    <3>3. N' = N \ {t} /\ R' = R \cup {w} /\ W' \subseteq W
      BY <1>17, <2>2, <3>1 DEF NotifyOne, TypeOK, WaitingReaders, ResumingReaders, PendingNotifiers
    <3>4. Cardinality(N \ {t}) = Cardinality(N) - 1
      BY <3>2, Counting DEF PendingNotifiers
    <3>5. Cardinality(R \cup {w}) = Cardinality(R) + 1
      BY <3>1, <3>2, Counting DEF ResumingReaders
    <3>6. q' = q
      BY <1>17 DEF NotifyOne
    <3>7. QED
      BY <1>1, <1>2, <3>2, <3>3, <3>4, <3>5, <3>6
  <2>3. QED
    BY <1>17, <2>1, <2>2 DEF NotifyOne
\* A sleeper that wakes by itself only adds a reader that is on its way.
<1>18. ASSUME NEW t \in Threads, NEW l \in {"woken", "timedOut"},
              pc[t] \in {"waiting", "woken"}, pc' = [pc EXCEPT ![t] = l], op' = op, q' = q
       PROVE  NoLostWakeup'
  <2>1. op[t] \in Reads
    BY <1>1, <1>18 DEF SleepersRead
  <2>2. N' = N /\ R' = R \cup {t} /\ W' \subseteq W
    BY <1>18, <2>1 DEF TypeOK, WaitingReaders, ResumingReaders, PendingNotifiers
  <2>3. Cardinality(R \cup {t}) = Cardinality(R) \/ Cardinality(R \cup {t}) = Cardinality(R) + 1
    <3>1. CASE t \in R
      <4>1. R \cup {t} = R
        BY <3>1
      <4>2. QED
        BY <4>1, Zenon
    <3>2. CASE t \notin R
      BY <3>2, Counting DEF ResumingReaders
    <3>3. QED
      BY <3>1, <3>2
  <2>4. QED
    BY <1>1, <1>2, <1>18, <2>2, <2>3
<1>19. ASSUME NEW t \in Threads, Timeout(t) \/ SpuriousWakeup(t) PROVE NoLostWakeup'
  BY <1>18, <1>19 DEF Timeout, SpuriousWakeup
<1>20. QED
  BY <1>5, <1>6, <1>7, <1>8, <1>9, <1>12, <1>13, <1>15, <1>16, <1>17, <1>19
     DEF Next, Locked

\* In a program in which nobody waits to write, no wake-up is ever lost: the
\* sleeping readers never outnumber what has been or will be notified.
THEOREM WakeupsAreNeverLost ==
  ASSUME NobodyWaitsToWrite
  PROVE  Spec => []NoLostWakeup
<1>1. Init => WakeupInv
  <2> SUFFICES ASSUME Init PROVE WakeupInv
    OBVIOUS
  <2>1. WaitingReaders = {} /\ SleepersRead
    BY DEF Init, WaitingReaders, SleepersRead
  <2>2. QED
    BY <2>1 DEF WakeupInv, NoLostWakeup
<1>2. TypeOK /\ TypeOK' /\ WakeupInv /\ [Next]_qvars => WakeupInv'
  BY SleepersReadStep, WakeupStep DEF WakeupInv
<1>3. WakeupInv => NoLostWakeup
  BY DEF WakeupInv
<1>4. QED
  BY <1>1, <1>2, <1>3, TypeCorrect, PTL DEF Spec
-----------------------------------------------------------------------------
\* The program that copies a file: the reader has taken what the writer has pushed and
\* is no longer queued, in order, and has stored it unless fwrite failed.  Only a queue
\* that nobody ever read is deleted with chunks in it.
Copied ==
  /\ pushed <= Chunks /\ taken = [k \in 1..Len(taken) |-> k]
  /\ "fwrite" \notin failed => file = taken
  /\ \/ Len(taken) + Len(q) = pushed /\ leaked = {}
     \/ "out" \in failed /\ mpc = "deleted"

\* A thread is inside the queue only while it copies.  The exit state comes with the
\* last chunk, and a reader that opened its output leaves an empty queue behind.
InTurn ==
  /\ pc[writer] \in {"idle", "notify"} /\ (wpc # "copy" => pc[writer] = "idle")
  /\ pc[reader] # "notify" /\ (rpc # "copy" => pc[reader] = "idle")
  /\ mIsWaitWasExited => wpc = "return" /\ pushed = Chunks
  /\ rpc = "return" => "out" \in failed \/ (mIsWaitWasExited /\ q = <<>>)
  /\ mpc # "joinWriter" => wpc = "return"
  /\ mpc \in {"deleting", "deleted"} => rpc = "return"

CopyInv == TypeOK /\ Consecutive /\ Copied /\ InTurn

\* Counting up by one.
LEMMA AppendCountup ==
  ASSUME NEW s \in Seq(Nat), s = [k \in 1..Len(s) |-> k], NEW n, n = Len(s) + 1
  PROVE  /\ Append(s, n) = [k \in 1..Len(Append(s, n)) |-> k]
         /\ Len(Append(s, n)) = n
<1>1. Len(s) \in Nat /\ n \in Nat /\ \A k \in 1..Len(s) : s[k] = k
  BY LenProperties
<1>2. /\ Append(s, n) \in Seq(Nat) /\ Len(Append(s, n)) = Len(s) + 1
      /\ Append(s, n)[Len(s) + 1] = n /\ \A k \in 1..Len(s) : Append(s, n)[k] = s[k]
  BY <1>1, AppendProperties
<1> DEFINE a == Append(s, n)
<1>3. \A k \in 1..Len(a) : a[k] = k
  BY <1>1, <1>2
<1>4. a \in Seq(Nat) /\ a = [k \in 1..Len(a) |-> a[k]]
  BY <1>2, LenProperties
<1> HIDE DEF a
<1>5. a = [k \in 1..Len(a) |-> k]
  BY <1>3, <1>4
<1> QED BY <1>2, <1>5 DEF a

\* The steps of the two threads inside the queue are steps of the queue.
LEMMA InsideQueue ==
  ASSUME TestAssumption, WPut \/ WNotify \/ WExit \/ RCopy \/ RWait \/ REnd
  PROVE  [Next]_qvars
<1>1. writer \in Threads /\ reader \in Threads /\ "write" \in Methods /\ "readTd" \in Methods
  BY DEF TestAssumption, TestThreads, TestCalls, Methods, Reads, Writes
<1>2. CASE WPut
  BY <1>1, <1>2 DEF WPut, Next, Locked
<1>3. CASE WNotify
  BY <1>1, <1>3 DEF WNotify, Next
<1>4. CASE WExit
  BY <1>1, <1>4 DEF WExit, Next, Locked
<1>5. CASE RCopy
  BY <1>1, <1>5 DEF RCopy, Next, Locked
<1>6. CASE RWait
  BY <1>1, <1>6 DEF RWait, Next, Locked
<1>7. CASE REnd
  BY <1>1, <1>7 DEF REnd, Next, Locked
<1> QED BY <1>2, <1>3, <1>4, <1>5, <1>6, <1>7

LEMMA CopyStep ==
  ASSUME TestAssumption, CopyInv, [TestNext]_tvars
  PROVE  CopyInv'
<1>1. /\ Threads = {writer, reader} /\ writer # reader /\ Chunks \in Nat
  BY DEF TestAssumption, TestThreads
<1>2. /\ pc \in [Threads -> {"idle", "waiting", "woken", "timedOut", "notify"}]
      /\ pushed \in Nat /\ q \in Seq(Nat) /\ taken \in Seq(Nat) /\ Len(q) \in Nat /\ Len(taken) \in Nat
  BY LenProperties DEF CopyInv, TypeOK
<1>3. CASE WOpen \/ ROpen \/ MJoin \/ UNCHANGED tvars
  <2>1. UNCHANGED qvars /\ TypeOK' /\ Consecutive'
    BY <1>3, TypeStep, ConsecutiveStep DEF WOpen, ROpen, MJoin, tvars, CopyInv
  <2>2. UNCHANGED <<q, mIsWaitWasExited, pc, pushed, taken, leaked, file>>
    BY <1>3, <2>1 DEF qvars, WOpen, ROpen, MJoin, tvars
  <2>3. Copied'
    BY <1>3, <2>2 DEF CopyInv, Copied, WOpen, ROpen, MJoin, tvars
  <2>4. InTurn'
    BY <1>3, <2>2 DEF CopyInv, InTurn, WOpen, ROpen, MJoin, tvars
  <2> QED BY <2>1, <2>3, <2>4 DEF CopyInv
<1>4. CASE MDelete
  <2>1. /\ q' = <<>> /\ leaked' = leaked \cup ToSet(q) /\ mpc = "deleting" /\ mpc' = "deleted"
        /\ UNCHANGED <<mIsWaitWasExited, pc, op, ret, pushed, taken, destroyed, wpc, rpc, file, failed>>
    BY <1>4 DEF MDelete
  <2>2. /\ Len(<<>>) = 0 /\ <<>> \in Seq(Nat) /\ <<>> = [i \in 1..0 |-> pushed + 1 - i]
        /\ ToSet(q) \subseteq Nat /\ (q = <<>> => ToSet(q) = {})
    BY <1>2, EmptySeq DEF ToSet
  <2>3. TypeOK'
    BY <2>1, <2>2 DEF CopyInv, TypeOK
  <2> DEFINE countdown(n) == [i \in 1..n |-> pushed + 1 - i]
  <2>4. q' = countdown(0) /\ Len(q') = 0 /\ pushed' = pushed
    BY <2>1, <2>2
  <2>5. Consecutive'
    BY <1>2, <2>4 DEF Consecutive
  <2>6. q = <<>> \/ "out" \in failed
    BY <2>1 DEF CopyInv, InTurn
  <2>7. Copied'
    BY <2>1, <2>2, <2>6 DEF CopyInv, Copied
  <2>8. InTurn'
    BY <2>1 DEF CopyInv, InTurn
  <2> QED BY <2>3, <2>5, <2>7, <2>8 DEF CopyInv
<1>5. CASE WPut
  <2>1. /\ TypeOK' /\ Consecutive' /\ UNCHANGED <<wpc, rpc, mpc, file, failed>>
        /\ wpc = "copy" /\ pushed < Chunks
    BY <1>5, InsideQueue, TypeStep, ConsecutiveStep DEF WPut, CopyInv
  <2>2. /\ UNCHANGED <<mIsWaitWasExited, taken, leaked>> /\ pc'[reader] = pc[reader]
        /\ pc'[writer] \in {"idle", "notify"}
        /\ \/ q' = Cons(pushed + 1, q) /\ pushed' = pushed + 1
           \/ UNCHANGED <<q, pushed>>
    BY <1>1, <1>2, <1>5 DEF WPut, WriteOne, WriteFails, Push, Return, Goto
  <2>3. Len(Cons(pushed + 1, q)) = Len(q) + 1
    BY <1>2, PushFacts
  <2>4. Copied'
    BY <1>1, <1>2, <2>1, <2>2, <2>3 DEF CopyInv, Copied, InTurn
  <2>5. InTurn'
    BY <1>1, <2>1, <2>2 DEF CopyInv, InTurn
  <2> QED BY <2>1, <2>4, <2>5 DEF CopyInv
<1>6. CASE WNotify
  <2>1. /\ TypeOK' /\ Consecutive' /\ UNCHANGED <<wpc, rpc, mpc, file, failed>>
        /\ UNCHANGED <<q, mIsWaitWasExited, pushed, taken, leaked>>
    BY <1>6, InsideQueue, TypeStep, ConsecutiveStep DEF WNotify, NotifyOne, CopyInv
  <2>2. /\ pc'[writer] \in {"idle", "notify"} /\ pc'[reader] # "notify" /\ pc[writer] = "notify"
        /\ pc'[reader] = pc[reader] \/ pc[reader] = "waiting"
    BY <1>1, <1>2, <1>6 DEF WNotify, NotifyOne, Waiting, CopyInv, InTurn
  <2>3. Copied'
    BY <2>1 DEF CopyInv, Copied
  <2>4. InTurn'
    BY <2>1, <2>2 DEF CopyInv, InTurn
  <2> QED BY <2>1, <2>3, <2>4 DEF CopyInv
<1>7. CASE WExit
  <2>1. /\ TypeOK' /\ Consecutive' /\ UNCHANGED <<rpc, mpc, file, failed>>
        /\ UNCHANGED <<q, pushed, taken, leaked>> /\ wpc' = "return" /\ pushed = Chunks
    BY <1>7, InsideQueue, TypeStep, ConsecutiveStep DEF WExit, SetWaitExitState, CopyInv
  <2>2. /\ pc'[writer] = "idle" /\ pc'[reader] = pc[reader] /\ mIsWaitWasExited'
    BY <1>1, <1>2, <1>7 DEF WExit, SetWaitExitState, Return, Goto
  <2>3. Copied'
    BY <2>1 DEF CopyInv, Copied
  <2>4. InTurn'
    BY <2>1, <2>2 DEF CopyInv, InTurn
  <2> QED BY <2>1, <2>3, <2>4 DEF CopyInv
<1>8. CASE RCopy
  <2>1. /\ TypeOK' /\ Consecutive' /\ UNCHANGED <<wpc, rpc, mpc>> /\ rpc = "copy" /\ q # <<>>
        /\ Last(q) = pushed + 1 - Len(q)
    BY <1>8, InsideQueue, TypeStep, ConsecutiveStep DEF RCopy, ReadOne, CopyInv
  <2>2. /\ q' = Front(q) /\ taken' = Append(taken, Last(q))
        /\ UNCHANGED <<mIsWaitWasExited, pushed, leaked>>
        /\ pc'[reader] = "idle" /\ pc'[writer] = pc[writer]
        /\ failed \subseteq failed'
        /\ file' = Append(file, Last(q)) \/ "fwrite" \in failed'
    BY <1>1, <1>2, <1>8 DEF RCopy, ReadOne, Return, Goto
  <2>3. Len(Front(q)) = Len(q) - 1
    BY <1>2, <2>1, FrontFacts
  <2>4. Len(taken) + Len(q) = pushed /\ leaked = {}
    BY <2>1 DEF CopyInv, Copied, InTurn
  <2>5. PICK n : n = Last(q) /\ n = Len(taken) + 1
    BY <1>2, <2>1, <2>4
  <2>6. taken = [k \in 1..Len(taken) |-> k]
    BY DEF CopyInv, Copied
  <2>7. /\ Append(taken, n) = [k \in 1..Len(Append(taken, n)) |-> k]
        /\ Len(Append(taken, n)) = n
    BY <1>2, <2>5, <2>6, AppendCountup
  <2>8. taken' = [k \in 1..Len(taken') |-> k] /\ Len(taken') = Len(taken) + 1
    BY <2>2, <2>5, <2>7
  <2>9. Len(taken') + Len(q') = pushed' /\ leaked' = {} /\ pushed' = pushed
    <3>1. Len(q') = Len(q) - 1 /\ Len(taken') = Len(taken) + 1
      BY <2>2, <2>3, <2>8
    <3>2. Len(taken') + Len(q') = Len(taken) + Len(q)
      BY ONLY <1>2, <3>1
    <3>3. leaked' = {} /\ pushed' = pushed
      BY <2>2, <2>4
    <3> QED BY <2>4, <3>2, <3>3
  <2>10. "fwrite" \notin failed' => file' = taken'
    <3>1. "fwrite" \notin failed' => file = taken /\ file' = Append(file, Last(q))
      BY <2>2 DEF CopyInv, Copied
    <3> QED BY <2>2, <3>1
  <2>11. Copied'
    BY <2>8, <2>9, <2>10 DEF CopyInv, Copied
  <2>12. InTurn'
    BY <2>1, <2>2 DEF CopyInv, InTurn
  <2> QED BY <2>1, <2>11, <2>12 DEF CopyInv
<1>9. CASE RWait
  <2>1. /\ TypeOK' /\ Consecutive' /\ UNCHANGED <<wpc, rpc, mpc, file, failed>> /\ rpc = "copy"
    BY <1>9, InsideQueue, TypeStep, ConsecutiveStep DEF RWait, CopyInv
  <2>2. /\ UNCHANGED <<q, mIsWaitWasExited, pushed, taken, leaked>>
        /\ pc'[reader] # "notify" /\ pc'[writer] = pc[writer]
    BY <1>1, <1>2, <1>9 DEF RWait, ReadWaits, WaitOnCond, Goto, Timeout, SpuriousWakeup
  <2>3. Copied'
    BY <2>1, <2>2 DEF CopyInv, Copied
  <2>4. InTurn'
    BY <2>1, <2>2 DEF CopyInv, InTurn
  <2> QED BY <2>1, <2>3, <2>4 DEF CopyInv
<1>10. CASE REnd
  <2>1. /\ TypeOK' /\ Consecutive' /\ UNCHANGED <<wpc, mpc, file, failed>> /\ rpc' = "return"
    BY <1>10, InsideQueue, TypeStep, ConsecutiveStep DEF REnd, CopyInv
  <2>2. /\ UNCHANGED <<q, mIsWaitWasExited, pushed, taken, leaked>> /\ q = <<>> /\ mIsWaitWasExited
        /\ pc'[reader] = "idle" /\ pc'[writer] = pc[writer]
    BY <1>1, <1>2, <1>10 DEF REnd, ReadGivesUp, GivesUp, Return, Goto
  <2>3. Copied'
    BY <2>1, <2>2 DEF CopyInv, Copied
  <2>4. InTurn'
    BY <2>1, <2>2 DEF CopyInv, InTurn
  <2> QED BY <2>1, <2>3, <2>4 DEF CopyInv
<1> QED BY <1>3, <1>4, <1>5, <1>6, <1>7, <1>8, <1>9, <1>10
        DEF TestNext, Writer, Reader, Main

LEMMA CopyAtFirst == ASSUME TestAssumption, TestInit PROVE CopyInv
<1>1. TypeOK
  BY TypeAtFirst DEF TestInit
<1>2. /\ Len(<<>>) = 0 /\ <<>> = [i \in 1..0 |-> pushed + 1 - i] /\ <<>> = [k \in 1..0 |-> k]
      /\ writer \in Threads /\ reader \in Threads /\ Chunks \in Nat
  BY EmptySeq DEF TestAssumption, TestThreads
<1>3. Consecutive /\ Copied
  BY <1>2 DEF TestInit, Init, Consecutive, Copied
<1>4. InTurn
  BY <1>2 DEF TestInit, Init, InTurn
<1> QED BY <1>1, <1>3, <1>4 DEF CopyInv

LEMMA CopyInvariant == TestAssumption => (TestSpec => []CopyInv)
<1> SUFFICES ASSUME TestAssumption PROVE TestSpec => []CopyInv
  OBVIOUS
<1>1. TestInit => CopyInv
  BY CopyAtFirst
<1>2. CopyInv /\ [TestNext]_tvars => CopyInv'
  BY CopyStep
<1> QED BY <1>1, <1>2, PTL DEF TestSpec

LEMMA CopyIsWhole == CopyInv => TransferComplete
<1> SUFFICES ASSUME CopyInv, rpc = "return", failed = {} PROVE file = [k \in 1..Chunks |-> k]
  BY DEF TransferComplete
<1>1. mIsWaitWasExited /\ q = <<>> /\ pushed = Chunks /\ Len(taken) + Len(q) = pushed
  BY DEF CopyInv, InTurn, Copied
<1>2. Len(taken) = Chunks
  BY <1>1, EmptySeq, LenProperties DEF CopyInv, TypeOK
<1> QED BY <1>2 DEF CopyInv, Copied

LEMMA CopyIsIdle == ASSUME TestAssumption, CopyInv PROVE DeletedIdle
<1> SUFFICES ASSUME mpc \in {"deleting", "deleted"}
             PROVE  /\ \A t \in Threads : pc[t] = "idle"
                    /\ (q # <<>> \/ leaked # {}) => "out" \in failed
  BY DEF DeletedIdle
<1>1. wpc = "return" /\ rpc = "return"
  BY DEF CopyInv, InTurn
<1>2. \A t \in Threads : pc[t] = "idle"
  BY <1>1 DEF CopyInv, InTurn, TestAssumption, TestThreads
<1>3. (q # <<>> \/ leaked # {}) => "out" \in failed
  BY <1>1 DEF CopyInv, InTurn, Copied
<1> QED BY <1>2, <1>3

\* When the reader ends without an error the whole file is copied, in order: the exit
\* state, set without the lock, does not overtake the data.
THEOREM FileCopied == TestAssumption => (TestSpec => []TransferComplete)
<1> QED BY CopyIsWhole, CopyInvariant, PTL

\* The queue is deleted when no thread is inside it, and empty unless nobody could
\* read it.
THEOREM DeletedInPeace == TestAssumption => (TestSpec => []DeletedIdle)
<1> SUFFICES ASSUME TestAssumption PROVE TestSpec => []DeletedIdle
  OBVIOUS
<1>1. CopyInv => DeletedIdle
  BY CopyIsIdle
<1> QED BY <1>1, CopyInvariant, PTL
-----------------------------------------------------------------------------
\* The player: element i of the queue was captured before the last pause().
Stale(i) == era[q[i]] < pauses
Pausing  == {"pause:mRec", "pause:mPly", "pause:clear"}
InHands  == {"lock", "io", "store"}

\* From the clear of one pause() to the next pause() at most one chunk is older than
\* the pause, in the queue or in the hands of the recorder: one begun later is new.
EraInv ==
  /\ q \in Seq(Nat) /\ pushed \in Nat /\ Consecutive
  /\ era \in Seq(Nat) /\ Len(era) = pushed
  /\ pauses \in Nat /\ chunkEra \in Nat
  /\ mpc \notin Pausing =>
       /\ \A i, j \in 1..Len(q) : Stale(i) /\ Stale(j) => i = j
       /\ rpc \in InHands /\ chunkEra < pauses => \A i \in 1..Len(q) : ~Stale(i)

\* A chunk is read or deleted: the others stay where they are.
LEMMA FrontKeepsEras ==
  ASSUME EraInv, q # <<>>, q' = Front(q), UNCHANGED <<pushed, era, chunkEra, pauses, rpc, mpc>>
  PROVE  EraInv'
<1>1. /\ Front(q) \in Seq(Nat) /\ Len(Front(q)) = Len(q) - 1 /\ Len(q) \in Nat \ {0}
      /\ \A i \in 1..Len(Front(q)) : Front(q)[i] = q[i]
      /\ Front(q) = [i \in 1..Len(Front(q)) |-> pushed + 1 - i]
  BY FrontCountdown, FrontFacts DEF EraInv, Consecutive
<1>2. Consecutive'
  BY <1>1 DEF EraInv, Consecutive
<1>3. Len(q') = Len(q) - 1 /\ \A i \in 1..Len(q') : i \in 1..Len(q) /\ Stale(i)' = Stale(i)
  BY <1>1 DEF Stale
<1>4. mpc' \notin Pausing =>
        /\ \A i, j \in 1..Len(q') : Stale(i)' /\ Stale(j)' => i = j
        /\ rpc' \in InHands /\ chunkEra' < pauses' => \A i \in 1..Len(q') : ~Stale(i)'
  BY <1>3 DEF EraInv
<1> QED BY <1>1, <1>2, <1>4 DEF EraInv

\* The recorder's chunk goes into the queue, in front of the others or of those left
\* when the oldest one is deleted.
LEMMA StoreKeepsEras ==
  ASSUME EraInv, NEW rest \in Seq(Nat), Len(rest) <= Len(q), rest = [i \in 1..Len(rest) |-> pushed + 1 - i],
         rpc = "store", q' = Cons(pushed + 1, rest), pushed' = pushed + 1,
         era' = Append(era, chunkEra), rpc' = "full", UNCHANGED <<chunkEra, pauses, mpc>>
  PROVE  EraInv'
<1>1. /\ pushed \in Nat /\ Len(rest) \in Nat /\ Len(q) \in Nat /\ Len(q) <= pushed /\ chunkEra \in Nat
      /\ \A i \in 1..Len(rest) : rest[i] = pushed + 1 - i
      /\ \A i \in 1..Len(q) : q[i] = pushed + 1 - i
  BY LenProperties DEF EraInv, Consecutive
<1>2. /\ q' \in Seq(Nat) /\ Len(q') = Len(rest) + 1 /\ q'[1] = pushed + 1
      /\ \A i \in 1..Len(rest) : q'[i + 1] = rest[i]
  BY <1>1, PushFacts
<1>3. q' = [i \in 1..(Len(rest) + 1) |-> pushed + 2 - i]
  BY <1>1, ConsCountdown
<1>4. Consecutive'
  <2>1. pushed' = pushed + 1 /\ q' = [i \in 1..(Len(rest) + 1) |-> pushed + 2 - i] /\ Len(q') = Len(rest) + 1
    BY <1>2, <1>3
  <2>2. Len(q') <= pushed' /\ \A i \in 1..Len(q') : pushed + 2 - i = pushed' + 1 - i
    BY <1>1, <2>1
  <2> QED BY <1>1, <2>1, <2>2 DEF Consecutive
<1>5. /\ era' \in Seq(Nat) /\ Len(era') = pushed' /\ era'[pushed + 1] = chunkEra
      /\ \A e \in 1..pushed : era'[e] = era[e]
  BY <1>1, AppendProperties DEF EraInv
<1>6. \A i \in 1..Len(q') : i = 1 \/ (i - 1 \in 1..Len(q) /\ Stale(i)' = Stale(i - 1))
  <2> TAKE i \in 1..Len(q')
  <2>1. CASE i # 1
    <3>1. i - 1 \in 1..Len(rest) /\ i - 1 \in 1..Len(q)
      BY <1>1, <1>2, <2>1
    <3>2. PICK k \in 1..Len(rest) : k = i - 1 /\ k + 1 = i
      BY <1>1, <3>1
    <3>3. q'[k + 1] = rest[k] /\ rest[k] = pushed + 1 - k /\ k \in 1..Len(q)
      BY <1>1, <1>2, <3>1, <3>2
    <3>4. q[k] = pushed + 1 - k
      BY <1>1, <3>3
    <3>5. pushed + 1 - k \in 1..pushed
      BY <1>1, <3>3
    <3>6. q'[i] = q[i - 1] /\ q[i - 1] \in 1..pushed
      BY <3>2, <3>3, <3>4, <3>5
    <3> QED BY <1>5, <3>1, <3>6 DEF Stale
  <2> QED BY <2>1
<1>7. 1 \in 1..Len(q') /\ (Stale(1)' => chunkEra < pauses)
  BY <1>1, <1>2, <1>5 DEF Stale
<1>8. ASSUME mpc' \notin Pausing, NEW i \in 1..Len(q'), NEW j \in 1..Len(q'), Stale(i)', Stale(j)'
      PROVE  i = j
  <2>1. /\ \A k, l \in 1..Len(q) : Stale(k) /\ Stale(l) => k = l
        /\ chunkEra < pauses => \A k \in 1..Len(q) : ~Stale(k)
    BY <1>8 DEF EraInv, InHands
  <2>2. i = 1 \/ (i - 1 \in 1..Len(q) /\ Stale(i - 1))
    BY <1>6, <1>8
  <2>3. j = 1 \/ (j - 1 \in 1..Len(q) /\ Stale(j - 1))
    BY <1>6, <1>8
  <2>4. i = 1 \/ j = 1 => chunkEra < pauses
    BY <1>7, <1>8
  <2>5. CASE i = 1 \/ j = 1
    BY <2>1, <2>2, <2>3, <2>4, <2>5
  <2>6. CASE i # 1 /\ j # 1
    <3>1. i - 1 = j - 1
      BY <2>1, <2>2, <2>3, <2>6
    <3> QED BY <1>1, <1>2, <3>1
  <2> QED BY <2>5, <2>6
<1> QED BY <1>2, <1>4, <1>5, <1>8 DEF EraInv, InHands

\* What the player's calls do to the queue.
LEMMA PlayerQueue ==
  /\ P!PRead => q # <<>> /\ q' = Front(q) /\ UNCHANGED <<pushed, era, chunkEra, pauses, rpc, mpc>>
  /\ P!RStore => /\ \/ q' = Cons(pushed + 1, q)
                    \/ Len(q) >= maxCount /\ q' = Cons(pushed + 1, Front(q))
                 /\ rpc = "store" /\ pushed' = pushed + 1 /\ era' = Append(era, chunkEra)
                 /\ rpc' = "full" /\ UNCHANGED <<chunkEra, pauses, mpc>>
  /\ P!MClear => /\ q' = <<>> /\ mpc' = "join" /\ UNCHANGED <<pushed, era, chunkEra, pauses, rpc>>
  /\ P!PWait \/ P!RNotify => UNCHANGED <<q, pushed, era, chunkEra, pauses, rpc, mpc>>
<1>1. P!PRead => q # <<>> /\ q' = Front(q) /\ UNCHANGED <<pushed, era, chunkEra, pauses, rpc, mpc>>
  BY DEF P!PRead, P!ReadOne, P!Front, Front
<1>2. P!RStore => /\ \/ q' = Cons(pushed + 1, q)
                     \/ Len(q) >= maxCount /\ q' = Cons(pushed + 1, Front(q))
                  /\ rpc = "store" /\ pushed' = pushed + 1 /\ era' = Append(era, chunkEra)
                  /\ rpc' = "full" /\ UNCHANGED <<chunkEra, pauses, mpc>>
  BY DEF P!RStore, P!WriteOne, P!WriteOverOldest, P!Push, P!Cons, Cons, P!Front, Front
<1>3. P!MClear => /\ q' = <<>> /\ mpc' = "join" /\ UNCHANGED <<pushed, era, chunkEra, pauses, rpc>>
  BY DEF P!MClear, P!ClearAll
<1>4. P!PWait \/ P!RNotify => UNCHANGED <<q, pushed, era, chunkEra, pauses, rpc, mpc>>
  BY DEF P!PWait, P!RNotify, P!NotifyOne, P!ReadWaits, P!WaitOnCond, P!Timeout, P!pvars
<1> QED BY <1>1, <1>2, <1>3, <1>4

LEMMA EraStep == ASSUME EraInv, [P!PlayerNext]_P!vars PROVE EraInv'
<1>1. CASE P!PRead
  BY <1>1, PlayerQueue, FrontKeepsEras
<1>2. CASE P!RStore
  <2>1. /\ rpc = "store" /\ pushed' = pushed + 1 /\ era' = Append(era, chunkEra)
        /\ rpc' = "full" /\ UNCHANGED <<chunkEra, pauses, mpc>>
    BY <1>2, PlayerQueue
  <2>2. q \in Seq(Nat) /\ q = [i \in 1..Len(q) |-> pushed + 1 - i] /\ Len(q) \in Nat /\ pushed \in Nat
    BY LenProperties DEF EraInv, Consecutive
  <2>3. CASE q' = Cons(pushed + 1, q)
    BY <2>1, <2>2, <2>3, StoreKeepsEras
  <2>4. CASE Len(q) >= maxCount /\ q' = Cons(pushed + 1, Front(q))
    <3>1. q # <<>>
      BY <2>2, <2>4, MaxCountType, EmptySeq
    <3>2. /\ Front(q) \in Seq(Nat) /\ Len(Front(q)) = Len(q) - 1
          /\ Front(q) = [i \in 1..Len(Front(q)) |-> pushed + 1 - i]
      BY <2>2, <3>1, FrontCountdown
    <3> QED BY <2>1, <2>2, <2>4, <3>2, StoreKeepsEras
  <2> QED BY <1>2, <2>3, <2>4, PlayerQueue
<1>3. CASE P!MClear
  <2>1. /\ q' = <<>> /\ mpc' = "join" /\ UNCHANGED <<pushed, era, chunkEra, pauses, rpc>>
    BY <1>3, PlayerQueue
  <2>2. /\ Len(<<>>) = 0 /\ <<>> \in Seq(Nat) /\ <<>> = [i \in 1..0 |-> pushed + 1 - i]
    BY EmptySeq
  <2> DEFINE countdown(n) == [i \in 1..n |-> pushed + 1 - i]
  <2>3. q' = countdown(0) /\ Len(q') = 0 /\ pushed' = pushed
    BY <2>1, <2>2
  <2>4. Consecutive'
    BY <2>3 DEF Consecutive, EraInv
  <2>5. \A i \in 1..Len(q') : FALSE
    BY <2>3
  <2> QED BY <2>1, <2>2, <2>4, <2>5 DEF EraInv
<1>4. CASE P!RCapture
  <2>1. UNCHANGED <<q, pushed, era, chunkEra, pauses, mpc>> /\ rpc = "io" /\ rpc' \in {"store", "test"}
    BY <1>4 DEF P!RCapture, P!qvars
  <2> QED BY <2>1 DEF EraInv, Consecutive, Stale, InHands
<1>5. CASE P!MPauseFlag
  <2>1. UNCHANGED <<q, pushed, era, chunkEra, rpc>> /\ mpc' = "pause:mRec" /\ pauses' = pauses + 1
    BY <1>5 DEF P!MPauseFlag, P!qvars
  <2> QED BY <2>1 DEF EraInv, Consecutive, Pausing
<1>6. CASE P!RTest \/ P!RLock \/ P!RFull
  <2>1. CASE P!RTest
    <3>1. UNCHANGED <<q, pushed, era, pauses, mpc>> /\ chunkEra' = pauses
      BY <2>1 DEF P!RTest, P!qvars
    <3> QED BY <3>1 DEF EraInv, Consecutive, Stale
  <2>2. CASE P!RLock \/ P!RFull
    <3>1. UNCHANGED <<q, pushed, era, chunkEra, pauses, mpc>> /\ (rpc' = "test" \/ (rpc = "lock" /\ rpc' = "io"))
      BY <2>2 DEF P!RLock, P!RFull, P!qvars
    <3> QED BY <3>1 DEF EraInv, Consecutive, Stale, InHands
  <2> QED BY <1>6, <2>1, <2>2
<1>7. ASSUME UNCHANGED <<q, pushed, era, chunkEra, pauses, rpc>>, mpc' \notin Pausing => mpc \notin Pausing
      PROVE  EraInv'
  BY <1>7 DEF EraInv, Consecutive, Stale
<1>8. CASE P!Signal \/ P!MFilled \/ P!MPublish \/ P!PTest \/ P!PLock \/ P!PWrite
  BY <1>7, <1>8 DEF P!Signal, P!MFilled, P!MPublish, P!PTest, P!PLock, P!PWrite, P!qvars, Pausing
<1>9. CASE P!Handler
  <2>1. CASE P!MPauseDev("mRec", "pause:mRec", "pause:mPly") \/ P!MPauseDev("mPly", "pause:mPly", "pause:clear")
    BY <1>7, <2>1 DEF P!MPauseDev, P!qvars, Pausing
  <2>2. CASE P!MResumeFlag \/ P!MResumeDev("mRec", "resume:mRec", "resume:mPly")
             \/ P!MResumeDev("mPly", "resume:mPly", "join")
    BY <1>7, <2>2 DEF P!MResumeDev, P!MResumeFlag, P!qvars, Pausing
  <2> QED BY <1>3, <1>5, <1>9, <2>1, <2>2 DEF P!Handler
<1>10. CASE P!PWait \/ P!RNotify
  BY <1>7, <1>10, PlayerQueue
<1>11. CASE UNCHANGED P!vars
  BY <1>7, <1>11 DEF P!vars, P!qvars, P!pvars
<1>12. CASE P!Recorder
  BY <1>2, <1>4, <1>6, <1>10, <1>12 DEF P!Recorder
<1>13. CASE P!Player
  BY <1>1, <1>8, <1>10, <1>13 DEF P!Player
<1>14. CASE P!Main
  BY <1>8, <1>9, <1>14 DEF P!Main
<1> QED BY <1>8, <1>11, <1>12, <1>13, <1>14 DEF P!PlayerNext

LEMMA EraAtFirst == ASSUME P!PlayerInit PROVE EraInv
<1>1. /\ q = <<>> /\ pushed = 0 /\ era = <<>> /\ pauses = 0 /\ chunkEra = 0 /\ rpc = "test"
  BY DEF P!PlayerInit, P!Init
<1>2. Len(<<>>) = 0 /\ <<>> \in Seq(Nat) /\ <<>> = [i \in 1..0 |-> pushed + 1 - i]
  BY EmptySeq
<1>3. Consecutive
  BY <1>1, <1>2 DEF Consecutive
<1>4. \A i \in 1..Len(q) : FALSE
  BY <1>1, <1>2
<1> QED BY <1>1, <1>2, <1>3, <1>4 DEF EraInv

LEMMA EraKeepsOne == ASSUME EraInv PROVE P!OneStaleChunk
<1> SUFFICES ASSUME mpc \notin Pausing
             PROVE  Cardinality({i \in 1..Len(q) : era[q[i]] < pauses}) <= 1
  BY DEF P!OneStaleChunk, Pausing, P!Cardinality, Cardinality
<1> DEFINE S == {i \in 1..Len(q) : era[q[i]] < pauses}
<1>1. \A i, j \in S : i = j
  BY DEF EraInv, Stale
<1>2. S = {} \/ \E i \in S : S = {i}
  BY <1>1
<1> HIDE DEF S
<1>3. Cardinality(S) <= 1
  BY <1>2, FS_EmptySet, FS_Singleton
<1> QED BY <1>3 DEF S

\* After a pause() the player will hear at most one chunk from before it, the one that
\* the recorder had in its hands, for every capacity, however often the signal comes.
THEOREM PauseKeepsOneChunk == P!PlayerSpec => []P!OneStaleChunk
<1>1. P!PlayerInit => EraInv
  BY EraAtFirst
<1>2. EraInv /\ [P!PlayerNext]_P!vars => EraInv'
  BY EraStep
<1>3. EraInv => P!OneStaleChunk
  BY EraKeepsOne
<1> QED BY <1>1, <1>2, <1>3, PTL DEF P!PlayerSpec
-----------------------------------------------------------------------------
\* In CPPBox a step of one program is a step of that program, or none.
LEMMA OneApplet ==
  ASSUME [BoxNext]_all
  PROVE  /\ applet' = applet
         /\ applet = "RtPlayer" => [P!PlayerNext]_P!vars
         /\ applet = "MTQueue" => [TestNext]_tvars
<1>1. CASE RunRtPlayer(P!PlayerNext)
  BY <1>1 DEF RunRtPlayer
<1>2. CASE RunMTQueue(TestNext)
  BY <1>2 DEF RunMTQueue
<1>3. CASE UNCHANGED all
  BY <1>3 DEF all, own, tvars, qvars, P!vars, P!qvars, P!pvars
<1> QED BY <1>1, <1>2, <1>3 DEF BoxNext

\* Of the programs in CPPBox, the player keeps at most one chunk from before a pause.
THEOREM BoxKeepsOneChunk == BoxSpec => []OneChunkSurvivesPause
<1> DEFINE Inv == applet = "RtPlayer" => EraInv
<1>1. BoxInit => Inv
  BY EraAtFirst DEF BoxInit
<1>2. Inv /\ [BoxNext]_all => Inv'
  BY OneApplet, EraStep
<1>3. Inv => OneChunkSurvivesPause
  BY EraKeepsOne DEF OneChunkSurvivesPause
<1> QED BY <1>1, <1>2, <1>3, PTL DEF BoxSpec

\* Of the programs in CPPBox, the copier copies the whole file and deletes the queue
\* when nobody is inside it.
THEOREM BoxCopiesFile == TestAssumption => (BoxSpec => []CopyIsComplete)
<1> SUFFICES ASSUME TestAssumption PROVE BoxSpec => []CopyIsComplete
  OBVIOUS
<1> DEFINE Inv == applet = "MTQueue" => CopyInv
<1>1. BoxInit => Inv
  BY CopyAtFirst DEF BoxInit
<1>2. Inv /\ [BoxNext]_all => Inv'
  BY OneApplet, CopyStep
<1>3. Inv => CopyIsComplete
  BY CopyIsWhole, CopyIsIdle DEF CopyIsComplete
<1> QED BY <1>1, <1>2, <1>3, PTL DEF BoxSpec
=============================================================================
