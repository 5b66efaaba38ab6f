----------------------------- MODULE UartdProofs -----------------------------
(***************************************************************************)
(* Theorems about uartd, for every set of read results, every content of   *)
(* the stack behind buf, both capacities and every number of lines.        *)
(***************************************************************************)
EXTENDS Uartd, ListLemmas, TLAPS

Increasing(s) == \A i, j \in 1..Len(s) : i < j => s[i][2] < s[j][2]

\* rFifo: the commands put into it have rising numbers, and what was put in has been
\* taken or still waits; what did not fit is lost.
QueueInv ==
  /\ Len(cmds) <= Len(wire)
  /\ 1..Len(cmds) = lost \cup {rput[i][2] : i \in 1..Len(rput)}
  /\ Len(rput) + Cardinality(lost) = Len(cmds)
  /\ Increasing(rput)
  /\ rput = rtook \o Reverse(rq)
  /\ cmd # NONE => rtook # <<>> /\ cmd = rtook[Len(rtook)]

\* wFifo: a query that was taken was answered, was refused an answer or is being
\* executed, only one of these, and the answers keep the order.
ReplyInv ==
  LET taken == Numbers("query", rtook)
      done  == Numbers("reply", wput)
      now   == IF cmd[1] = "query" THEN {cmd[2]} ELSE {}
  IN /\ taken = done \cup refused \cup now
     /\ done \cap refused = {} /\ done \cap now = {} /\ refused \cap now = {}
     /\ \A i, j \in 1..Len(wput) :
          i < j /\ wput[i][1] = "reply" /\ wput[j][1] = "reply" => wput[i][2] < wput[j][2]

IInv == TypeOK /\ F!StartsWithHat /\ QueueInv /\ ReplyInv
-----------------------------------------------------------------------------
\* string::find_first_of: the first place, or none.
LEMMA FindFacts ==
  ASSUME NEW S, NEW s \in Seq(S), NEW c
  PROVE  /\ F!Find(s, c) \in 0 .. Len(s)
         /\ F!Find(s, c) # 0 => s[F!Find(s, c)] = c /\ \A i \in 1 .. F!Find(s, c) - 1 : s[i] # c
         /\ F!Find(s, c) = 0 => \A i \in 1 .. Len(s) : s[i] # c
  BY FirstPlace DEF F!Find, F!SelectInSeq, F!Min, Min

\* A character that is nowhere is not found.
LEMMA NotFound ==
  ASSUME NEW S, NEW s \in Seq(S), NEW c, \A i \in 1 .. Len(s) : s[i] # c
  PROVE  F!Find(s, c) = 0
<1>1. F!Find(s, c) # 0 => F!Find(s, c) \in 1 .. Len(s) /\ s[F!Find(s, c)] = c
  BY FindFacts, LenProperties
<1> QED BY <1>1

\* What is read is text, even with the bytes behind buf.
LEMMA StringsAreText ==
  ASSUME NEW bytes \in Chunks, NEW s \in F!Strings(bytes)
  PROVE  s \in Seq(Chars)
<1>1. bytes \in Seq(Chars) /\ Junk \subseteq Seq(Chars) /\ Len(bytes) \in Nat
  BY UartdAssumption
<1> DEFINE n == F!Find(bytes, F!NUL)
<1>2. n \in 0 .. Len(bytes)
  BY <1>1, FindFacts
<1> HIDE DEF n
<1>3. CASE n # 0
  <2> n - 1 \in 1 - 1 .. Len(bytes) /\ 1 \in 1 .. Len(bytes) + 1
    BY <1>1, <1>2, <1>3
  <2>1. SubSeq(bytes, 1, n - 1) \in Seq(Chars)
    BY <1>1, Part
  <2> QED BY <1>3, <2>1 DEF F!Strings, n
<1>4. CASE n = 0
  <2>1. ASSUME NEW j \in Junk PROVE bytes \o j \in Seq(Chars)
    BY <1>1, ConcatProperties
  <2> QED BY <1>1, <1>4, <2>1 DEF F!Strings, n
<1> QED BY <1>3, <1>4

\* What stays of the text once a command is looked for begins with its '^'.
LEMMA FromHatFacts ==
  ASSUME NEW s \in Seq(Chars), ~need_to_get_new_cmd => s # <<>> /\ s[1] = F!HAT
  PROVE  /\ F!FromHat(s) \in Seq(Chars)
         /\ F!FromHat(s) # <<>> => F!FromHat(s)[1] = F!HAT
<1> DEFINE n == F!Find(s, F!HAT)
<1>1. n \in 0 .. Len(s) /\ Len(s) \in Nat /\ (n # 0 => s[n] = F!HAT)
  BY FindFacts, LenProperties
<1> HIDE DEF n
<1>2. CASE ~need_to_get_new_cmd
  BY <1>2 DEF F!FromHat
<1>3. CASE need_to_get_new_cmd /\ n = 0
  BY <1>3 DEF F!FromHat, n
<1>4. CASE need_to_get_new_cmd /\ n # 0
  <2>1. n \in 1 .. Len(s) + 1 /\ Len(s) \in n - 1 .. Len(s) /\ 1 \in 1 .. Len(s) - n + 1
        /\ n + 1 - 1 = n
    BY <1>1, <1>4
  <2>2. /\ SubSeq(s, n, Len(s)) \in Seq(Chars) /\ SubSeq(s, n, Len(s))[1] = s[n + 1 - 1]
    BY <2>1, Part
  <2> QED BY <1>1, <1>4, <2>1, <2>2 DEF F!FromHat, n
<1> QED BY <1>2, <1>3, <1>4

\* One pass of HardReadProcess: at most one command is handed on, and it begins with
\* the '^' and holds no newline.
LEMMA ReadKeeps ==
  ASSUME F!TypeOK, F!StartsWithHat, Len(cmds) <= Len(wire), NEW bytes \in Chunks, F!Read(bytes)
  PROVE  /\ F!TypeOK' /\ F!StartsWithHat'
         /\ Len(cmds') <= Len(wire') /\ Len(wire') \in Nat /\ Len(wire') <= MaxBytes
         /\ cmds' = cmds \/ Len(cmds') = Len(cmds) + 1
<1>1. PICK s \in F!Strings(bytes) : F!Skip(req \o s) \/ F!Collect(req \o s) \/ F!Cut(req \o s)
  BY DEF F!Read
<1>2. /\ req \in Seq(Chars) /\ cmds \in Seq(Seq(Chars)) /\ wire \in Seq(Chars)
      /\ clean \in BOOLEAN /\ need_to_get_new_cmd \in BOOLEAN
      /\ ~need_to_get_new_cmd => req # <<>> /\ req[1] = F!HAT
      /\ Len(cmds) \in Nat /\ Len(wire) \in Nat
  BY LenProperties DEF F!TypeOK
<1>3. bytes \in Seq(Chars) /\ Len(bytes) \in Nat \ {0} /\ MaxBytes \in Nat
  BY UartdAssumption
<1>4. /\ wire' \in Seq(Chars) /\ Len(wire') = Len(wire) + Len(bytes) /\ Len(wire') <= MaxBytes
      /\ clean' \in BOOLEAN
  BY <1>2, <1>3, ConcatProperties DEF F!Read
<1> DEFINE text == req \o s
           t == F!FromHat(text)
<1>5. text \in Seq(Chars) /\ (~need_to_get_new_cmd => text # <<>> /\ text[1] = F!HAT)
  <2>1. s \in Seq(Chars) /\ Len(s) \in Nat /\ Len(req) \in Nat
    BY StringsAreText, <1>2, LenProperties
  <2>2. /\ text \in Seq(Chars) /\ Len(text) = Len(req) + Len(s)
        /\ \A i \in 1 .. Len(req) + Len(s) : text[i] = IF i <= Len(req) THEN req[i] ELSE s[i - Len(req)]
    BY <1>2, <2>1, ConcatProperties
  <2>3. req # <<>> => Len(req) > 0
    BY <1>2, <2>1, EmptySeq
  <2> QED BY <1>2, <2>1, <2>2, <2>3, EmptySeq
<1>6. t \in Seq(Chars) /\ (t # <<>> => t[1] = F!HAT) /\ Len(t) \in Nat
  BY <1>5, FromHatFacts, LenProperties
<1> HIDE DEF text
<1>7. CASE F!Skip(text)
  <2>1. req' = <<>> /\ need_to_get_new_cmd' = TRUE /\ cmds' = cmds
    BY <1>7 DEF F!Skip
  <2>2. F!TypeOK'
    BY <1>2, <1>4, <2>1 DEF F!TypeOK
  <2>3. F!StartsWithHat'
    BY <2>1 DEF F!StartsWithHat
  <2> QED BY <1>2, <1>3, <1>4, <2>1, <2>2, <2>3
<1>8. CASE F!Collect(text)
  <2>1. /\ t # <<>> /\ F!Find(t, F!NL) = 0
        /\ req' = t /\ need_to_get_new_cmd' = FALSE /\ cmds' = cmds
    BY <1>8 DEF F!Collect
  <2>2. F!TypeOK'
    BY <1>2, <1>4, <1>6, <2>1 DEF F!TypeOK
  <2>3. F!StartsWithHat'
    BY <2>1 DEF F!StartsWithHat
  <2> QED BY <1>2, <1>3, <1>4, <2>1, <2>2, <2>3
<1>9. CASE F!Cut(text)
  <2> DEFINE n == F!Find(t, F!NL)
             c == SubSeq(t, 1, n - 1)
             r == SubSeq(t, n + 1, Len(t))
  <2>1. n # 0 /\ cmds' = Append(cmds, c) /\ req' = r /\ need_to_get_new_cmd' = TRUE
    BY <1>9 DEF F!Cut
  <2>2. n \in 1 .. Len(t) /\ t[n] = F!NL /\ \A i \in 1 .. n - 1 : t[i] # F!NL
    BY <1>6, <2>1, FindFacts
  <2> HIDE DEF n
  <2>3. t[1] = F!HAT
    BY <1>6, <2>2
  <2>4. n # 1
    BY <2>2, <2>3 DEF F!HAT, F!NL
  <2>5. /\ 1 \in 1 .. Len(t) + 1 /\ n - 1 \in 1 - 1 .. Len(t) /\ (n - 1) - 1 + 1 = n - 1
        /\ n + 1 \in 1 .. Len(t) + 1 /\ Len(t) \in (n + 1) - 1 .. Len(t) /\ 1 \in 1 .. n - 1
    BY <1>6, <2>2, <2>4
  <2> HIDE DEF t
  <2>6. c \in Seq(Chars) /\ Len(c) = n - 1 /\ \A i \in 1 .. n - 1 : c[i] = t[1 + i - 1]
    BY <1>6, <2>5, Part
  <2>7. r \in Seq(Chars)
    BY <1>6, <2>5, Part
  <2> HIDE DEF c, r
  <2>8. \A i \in 1 .. n - 1 : c[i] = t[i]
    BY <2>2, <2>6
  <2>9. F!Find(c, F!NL) = 0
    BY <2>2, <2>6, <2>8, NotFound
  <2>10. c # <<>> /\ c[1] = F!HAT
    BY <2>3, <2>5, <2>6, <2>8, EmptySeq
  <2>11. /\ cmds' \in Seq(Seq(Chars)) /\ Len(cmds') = Len(cmds) + 1
         /\ (\A i \in 1 .. Len(cmds) : cmds'[i] = cmds[i]) /\ cmds'[Len(cmds) + 1] = c
    BY <1>2, <2>1, <2>6, AppendProperties
  <2>12. F!TypeOK'
    BY <1>4, <2>1, <2>7, <2>11 DEF F!TypeOK
  <2>13. F!StartsWithHat'
    <3>1. \A i \in 1 .. Len(cmds) : cmds[i] # <<>> /\ cmds[i][1] = F!HAT /\ F!Find(cmds[i], F!NL) = 0
      BY DEF F!StartsWithHat
    <3>2. ASSUME NEW i \in 1 .. Len(cmds) + 1
          PROVE  cmds'[i] # <<>> /\ cmds'[i][1] = F!HAT /\ F!Find(cmds'[i], F!NL) = 0
      <4>1. CASE i = Len(cmds) + 1
        BY <2>9, <2>10, <2>11, <4>1
      <4>2. CASE i # Len(cmds) + 1
        <5>1. i \in 1 .. Len(cmds)
          BY <1>2, <4>2
        <5> QED BY <2>11, <3>1, <5>1
      <4> QED BY <4>1, <4>2
    <3>3. Len(cmds') = Len(cmds) + 1
      BY <2>11
    <3> QED BY <3>2, <3>3 DEF F!StartsWithHat
  <2> QED BY <1>2, <1>3, <1>4, <2>11, <2>12, <2>13
<1> QED BY <1>1, <1>7, <1>8, <1>9 DEF text
-----------------------------------------------------------------------------
\* The operations of the two queues, said with the operators of this module.
LEMMA PutIntoR ==
  ASSUME NEW v, R!WriteOne("read", v)
  PROVE  rq' = Cons(v, rq) /\ rput' = Append(rput, v) /\ rtook' = rtook
  BY DEF R!WriteOne, R!Cons, Cons

LEMMA TakenFromR ==
  ASSUME NEW v, R!ReadOne("parse", v)
  PROVE  rq # <<>> /\ v = Last(rq) /\ rq' = Front(rq) /\ rtook' = Append(rtook, v) /\ rput' = rput
  BY DEF R!ReadOne, R!Last, R!Front, Last, Front

LEMMA PutIntoW ==
  ASSUME NEW t, NEW v, W!WriteOne(t, v)
  PROVE  wq' = Cons(v, wq) /\ wput' = Append(wput, v) /\ wtook' = wtook
  BY DEF W!WriteOne, W!Cons, Cons

LEMMA TakenFromW ==
  ASSUME NEW v, W!ReadOne("write", v)
  PROVE  wq # <<>> /\ v = Last(wq) /\ wq' = Front(wq) /\ wtook' = Append(wtook, v) /\ wput' = wput
  BY DEF W!ReadOne, W!Last, W!Front, Last, Front

\* The numbers of one kind in a list, when an element is added.
LEMMA NumbersAppend ==
  ASSUME NEW S, NEW s \in Seq(S), NEW v \in S, NEW k
  PROVE  Numbers(k, Append(s, v)) = Numbers(k, s) \cup (IF v[1] = k THEN {v[2]} ELSE {})
<1> DEFINE r == Append(s, v)
<1>1. /\ Len(s) \in Nat /\ Len(r) = Len(s) + 1
      /\ (\A i \in 1 .. Len(s) : r[i] = s[i]) /\ r[Len(s) + 1] = v
  BY AppendProperties, LenProperties
<1> HIDE DEF r
<1>2. ASSUME NEW x \in Numbers(k, r) PROVE x \in Numbers(k, s) \cup (IF v[1] = k THEN {v[2]} ELSE {})
  <2>1. PICK i \in 1 .. Len(s) + 1 : r[i][1] = k /\ x = r[i][2]
    BY <1>1 DEF Numbers
  <2>2. CASE i = Len(s) + 1
    BY <1>1, <2>1, <2>2
  <2>3. CASE i # Len(s) + 1
    <3>1. i \in 1 .. Len(s)
      BY <1>1, <2>3
    <3> QED BY <1>1, <2>1, <3>1 DEF Numbers
  <2> QED BY <2>2, <2>3
<1>3. ASSUME NEW x \in Numbers(k, s) PROVE x \in Numbers(k, r)
  <2>1. PICK i \in 1 .. Len(s) : s[i][1] = k /\ x = s[i][2]
    BY DEF Numbers
  <2>2. i \in 1 .. Len(r) /\ r[i] = s[i]
    BY <1>1
  <2> QED BY <2>1, <2>2 DEF Numbers
<1>4. v[1] = k => v[2] \in Numbers(k, r)
  <2>1. Len(s) + 1 \in 1 .. Len(r) /\ r[Len(s) + 1] = v
    BY <1>1
  <2> QED BY <2>1 DEF Numbers
<1> QED BY <1>2, <1>3, <1>4 DEF r

\* Who takes from a queue that numbers were put into in rising order takes a higher one.
LEMMA TakenSoFar ==
  ASSUME TypeOK, QueueInv
  PROVE  /\ Len(rtook) \in Nat /\ Len(rtook) <= Len(rput)
         /\ \A i \in 1 .. Len(rtook) : rtook[i] = rput[i] /\ rtook[i] \in Commands
         /\ rq # <<>> => Len(rtook) < Len(rput) /\ Last(rq) = rput[Len(rtook) + 1]
<1> DEFINE b == Reverse(rq)
<1>1. b \in Seq(Commands) /\ Len(b) \in Nat /\ rtook \in Seq(Commands) /\ Len(rtook) \in Nat
  BY ReverseFacts, LenProperties DEF TypeOK
<1>2. rq # <<>> => b # <<>> /\ Last(rq) = Head(b)
  BY ReverseFront DEF TypeOK
<1> HIDE DEF b
<1>3. rput = rtook \o b
  BY DEF QueueInv, b
<1>4. /\ Len(rput) = Len(rtook) + Len(b)
      /\ \A i \in 1 .. Len(rtook) + Len(b) : rput[i] = IF i <= Len(rtook) THEN rtook[i] ELSE b[i - Len(rtook)]
  BY <1>1, <1>3, ConcatProperties
<1>5. ASSUME NEW i \in 1 .. Len(rtook) PROVE rtook[i] = rput[i] /\ rtook[i] \in Commands
  BY <1>1, <1>4, ElementOfSeq
<1>6. ASSUME rq # <<>> PROVE Len(rtook) < Len(rput) /\ Last(rq) = rput[Len(rtook) + 1]
  <2>1. Len(b) > 0 /\ Last(rq) = b[1]
    BY <1>1, <1>2, <1>6, EmptySeq
  <2>2. Len(rtook) + 1 \in 1 .. Len(rtook) + Len(b) /\ (Len(rtook) + 1) - Len(rtook) = 1
        /\ ~(Len(rtook) + 1 <= Len(rtook))
    BY <1>1, <2>1
  <2>3. rput[Len(rtook) + 1] = b[1]
    BY <1>4, <2>2
  <2> QED BY <1>1, <1>4, <2>1, <2>3
<1> QED BY <1>1, <1>4, <1>5, <1>6

\* A command is handed on to rFifo, or lost.
LEMMA ReadStep ==
  ASSUME IInv, NEW bytes \in Chunks, Read(bytes)
  PROVE  IInv'
<1>1. /\ F!TypeOK' /\ F!StartsWithHat' /\ F!TypeOK
      /\ Len(cmds') <= Len(wire') /\ Len(wire') \in Nat /\ Len(wire') <= MaxBytes
      /\ cmds' = cmds \/ Len(cmds') = Len(cmds) + 1
  BY ReadKeeps DEF IInv, TypeOK, QueueInv, Read
<1>2. Len(cmds) \in Nat
  BY <1>1, LenProperties DEF F!TypeOK
<1>3. /\ UNCHANGED <<wq, wput, wtook, cmd, count, lines, rtook, refused>>
  BY DEF Read, wvars, rvars, R!WriteOne, R!WriteFails, R!fvars
<1>4. ReplyInv'
  BY <1>3 DEF IInv, ReplyInv, Numbers
<1> DEFINE n == Len(cmds')
           v == <<Kind(cmds'[n]), n>>
<1>5. CASE cmds' = cmds /\ UNCHANGED <<rvars, lost>>
  <2>1. TypeOK'
    BY <1>1, <1>3, <1>5 DEF IInv, TypeOK, rvars
  <2>2. QueueInv'
    BY <1>1, <1>3, <1>5 DEF IInv, QueueInv, rvars, Increasing
  <2> QED BY <1>1, <1>4, <2>1, <2>2 DEF IInv
<1>6. CASE cmds' # cmds /\ R!WriteOne("read", v) /\ lost' = lost
  <2>1. n \in 1 .. MaxBytes /\ n = Len(cmds) + 1
    BY <1>1, <1>2, <1>6, UartdAssumption
  <2>2. v \in Commands
    BY <2>1 DEF Commands, Kind
  <2>3. rq' = Cons(v, rq) /\ rput' = Append(rput, v) /\ rtook' = rtook
    BY <1>6, PutIntoR
  <2> DEFINE e == v
  <2>4. e[2] = Len(cmds) + 1 /\ e \in Commands /\ rq' = Cons(e, rq) /\ rput' = Append(rput, e)
    BY <2>1, <2>2, <2>3
  <2> HIDE DEF e
  <2>5. rq' \in Seq(Commands) /\ Reverse(Cons(e, rq)) = Append(Reverse(rq), e)
    BY <2>4, ConsFacts, ReverseCons DEF IInv, TypeOK
  <2>6. /\ rput' \in Seq(Commands) /\ Len(rput') = Len(rput) + 1 /\ Len(rput) \in Nat
        /\ (\A i \in 1 .. Len(rput) : rput'[i] = rput[i]) /\ rput'[Len(rput) + 1] = e
    BY <2>4, AppendProperties, LenProperties DEF IInv, TypeOK
  <2>7. TypeOK'
    BY <1>1, <1>3, <2>5, <2>6 DEF IInv, TypeOK
  <2>8. /\ 1 .. Len(cmds) = lost \cup {rput[i][2] : i \in 1 .. Len(rput)}
        /\ Len(rput) + Cardinality(lost) = Len(cmds) /\ Increasing(rput)
        /\ rput = rtook \o Reverse(rq)
        /\ cmd # NONE => rtook # <<>> /\ cmd = rtook[Len(rtook)]
    BY DEF IInv, QueueInv
  <2>9. \A i \in 1 .. Len(rput) : rput[i][2] \in 1 .. Len(cmds)
    BY <2>8
  <2>10. 1 .. Len(cmds) + 1 = lost \cup {rput'[i][2] : i \in 1 .. Len(rput) + 1}
    <3>1. ASSUME NEW x \in 1 .. Len(cmds) + 1, x \notin lost
          PROVE  \E i \in 1 .. Len(rput) + 1 : x = rput'[i][2]
      <4>1. CASE x = Len(cmds) + 1
        <5> Len(rput) + 1 \in 1 .. Len(rput) + 1
          BY <2>6
        <5> QED BY <2>4, <2>6, <4>1
      <4>2. CASE x # Len(cmds) + 1
        <5>1. x \in 1 .. Len(cmds)
          BY <1>2, <4>2
        <5>2. PICK i \in 1 .. Len(rput) : x = rput[i][2]
          BY <2>8, <3>1, <5>1
        <5>3. i \in 1 .. Len(rput) + 1 /\ rput'[i] = rput[i]
          BY <2>6
        <5> QED BY <5>2, <5>3
      <4> QED BY <4>1, <4>2
    <3>2. ASSUME NEW i \in 1 .. Len(rput) + 1 PROVE rput'[i][2] \in 1 .. Len(cmds) + 1
      <4>1. CASE i = Len(rput) + 1
        BY <1>2, <2>4, <2>6, <4>1
      <4>2. CASE i # Len(rput) + 1
        <5> i \in 1 .. Len(rput)
          BY <2>6, <4>2
        <5> QED BY <1>2, <2>6, <2>9
      <4> QED BY <4>1, <4>2
    <3>3. lost \subseteq 1 .. Len(cmds) + 1
      BY <1>2, <2>8
    <3> QED BY <3>1, <3>2, <3>3
  <2>11. Increasing(rput')
    <3> SUFFICES ASSUME NEW i \in 1 .. Len(rput) + 1, NEW j \in 1 .. Len(rput) + 1, i < j
                 PROVE  rput'[i][2] < rput'[j][2]
      BY <2>6 DEF Increasing
    <3>1. i \in 1 .. Len(rput) /\ rput'[i][2] = rput[i][2]
      BY <2>6
    <3>2. CASE j = Len(rput) + 1
      BY <1>2, <2>4, <2>6, <2>9, <3>1, <3>2
    <3>3. CASE j # Len(rput) + 1
      <4> j \in 1 .. Len(rput)
        BY <2>6, <3>3
      <4> QED BY <2>6, <2>8, <3>1 DEF Increasing
    <3> QED BY <3>2, <3>3
  <2>12. rput' = rtook' \o Reverse(rq')
    <3> DEFINE b == Reverse(rq)
    <3>1. b \in Seq(Commands) /\ rtook \in Seq(Commands)
      BY ReverseFacts DEF IInv, TypeOK
    <3>2. rput = rtook \o b /\ Reverse(rq') = Append(b, e) /\ rput' = Append(rput, e)
      BY <2>4, <2>5, <2>8
    <3> DEFINE u == Reverse(rq')
    <3> HIDE DEF b, u
    <3>3. e \in Commands /\ u = Append(b, e)
      BY <2>4, <3>2 DEF u
    <3>4. rput' = rtook \o u
      <4> DEFINE C == Commands
                 s == rtook
                 q == rput
                 r == rput'
      <4>1. s \in Seq(C) /\ b \in Seq(C) /\ e \in C /\ q = s \o b /\ u = Append(b, e) /\ r = Append(q, e)
        BY <3>1, <3>2, <3>3
      <4> HIDE DEF C, s, q, r
      <4>2. r = s \o u
        BY <4>1, PutBehind
      <4> QED BY <4>2 DEF s, r
    <3> QED BY <2>3, <3>4 DEF u
  <2>13. Len(rput') + Cardinality(lost') = Len(cmds')
    <3>1. Cardinality(lost) \in Nat
      <4> IsFiniteSet(1 .. Len(cmds)) /\ lost \subseteq 1 .. Len(cmds)
        BY <1>2, <2>8, FS_Interval
      <4> QED BY FS_Subset, FS_CardinalityType
    <3>2. lost' = lost /\ Len(cmds') = Len(cmds) + 1 /\ Len(rput') = Len(rput) + 1 /\ Len(rput) \in Nat
      BY <1>6, <2>1, <2>6
    <3>3. Cardinality(lost') = Cardinality(lost) /\ Len(rput) + Cardinality(lost) = Len(cmds)
      BY <2>8, <3>2
    <3> QED BY <1>2, <3>1, <3>2, <3>3
  <2>14. Len(rput') = Len(rput) + 1 /\ Len(cmds') = Len(cmds) + 1
    BY <2>1, <2>6
  <2>15. QueueInv'
    BY <1>1, <1>3, <1>6, <2>8, <2>10, <2>11, <2>12, <2>13, <2>14 DEF QueueInv
  <2> QED BY <1>1, <1>4, <2>7, <2>15 DEF IInv
<1>7. CASE cmds' # cmds /\ R!WriteFails("read") /\ lost' = lost \cup {n}
  <2>1. n = Len(cmds) + 1 /\ UNCHANGED <<rq, rput, rtook>>
    BY <1>1, <1>2, <1>7 DEF R!WriteFails, R!fvars
  <2>2. TypeOK'
    BY <1>1, <1>3, <2>1 DEF IInv, TypeOK
  <2>3. /\ 1 .. Len(cmds) = lost \cup {rput[i][2] : i \in 1 .. Len(rput)}
        /\ Len(rput) + Cardinality(lost) = Len(cmds)
    BY DEF IInv, QueueInv
  <2>4. 1 .. Len(cmds') = lost' \cup {rput'[i][2] : i \in 1 .. Len(rput')}
    <3>1. 1 .. Len(cmds) + 1 = (1 .. Len(cmds)) \cup {Len(cmds) + 1}
      BY <1>2
    <3> QED BY <1>7, <2>1, <2>3, <3>1
  <2>5. Len(rput') + Cardinality(lost') = Len(cmds')
    <3>1. lost \subseteq 1 .. Len(cmds) /\ n \notin lost
      BY <1>2, <2>1, <2>3
    <3>2. IsFiniteSet(lost)
      <4> IsFiniteSet(1 .. Len(cmds))
        BY <1>2, FS_Interval
      <4> QED BY <3>1, FS_Subset
    <3>3. Cardinality(lost \cup {n}) = Cardinality(lost) + 1 /\ Cardinality(lost) \in Nat
      BY <3>1, <3>2, FS_AddElement, FS_CardinalityType
    <3>4. Len(rput) \in Nat
      BY LenProperties DEF IInv, TypeOK
    <3>5. /\ lost' = lost \cup {n} /\ rput' = rput /\ Len(cmds') = Len(cmds) + 1
      BY <1>7, <2>1
    <3> QED BY <1>2, <2>3, <3>3, <3>4, <3>5
  <2>6. QueueInv'
    BY <1>1, <1>3, <2>1, <2>4, <2>5 DEF IInv, QueueInv, Increasing
  <2> QED BY <1>1, <1>4, <2>2, <2>6 DEF IInv
<1> QED BY <1>5, <1>6, <1>7 DEF Read

\* The next command taken has a higher number than all before it.
LEMMA TakenAreLower ==
  ASSUME TypeOK, QueueInv, NEW k, NEW x \in Numbers(k, rtook)
  PROVE  /\ x \in Nat
         /\ rq # <<>> => x < Last(rq)[2]
         /\ cmd # NONE => x <= cmd[2]
<1>1. PICK i \in 1 .. Len(rtook) : x = rtook[i][2]
  BY DEF Numbers
<1>2. /\ Len(rtook) \in Nat /\ Len(rtook) <= Len(rput) /\ Len(rput) \in Nat
      /\ \A j \in 1 .. Len(rtook) : rtook[j] = rput[j] /\ rtook[j] \in Commands
      /\ rq # <<>> => Len(rtook) < Len(rput) /\ Last(rq) = rput[Len(rtook) + 1]
  BY TakenSoFar, LenProperties DEF TypeOK
<1>3. \A a, b \in 1 .. Len(rput) : a < b => rput[a][2] < rput[b][2]
  BY DEF QueueInv, Increasing
<1>4. x \in Nat
  BY <1>1, <1>2 DEF Commands
<1>5. ASSUME rq # <<>> PROVE x < Last(rq)[2]
  <2>1. i \in 1 .. Len(rput) /\ Len(rtook) + 1 \in 1 .. Len(rput) /\ i < Len(rtook) + 1
    BY <1>2, <1>5
  <2>2. rput[i][2] < rput[Len(rtook) + 1][2]
    BY <1>3, <2>1
  <2> QED BY <1>1, <1>2, <1>5, <2>2
<1>6. ASSUME cmd # NONE PROVE x <= cmd[2]
  <2>1. cmd = rtook[Len(rtook)]
    BY <1>6 DEF QueueInv
  <2>2. CASE i = Len(rtook)
    BY <1>1, <1>4, <2>1, <2>2
  <2>3. CASE i # Len(rtook)
    <3>1. i \in 1 .. Len(rput) /\ Len(rtook) \in 1 .. Len(rput) /\ i < Len(rtook) /\ Len(rtook) \in 1 .. Len(rtook)
      BY <1>2, <2>3
    <3>2. rput[i][2] < rput[Len(rtook)][2]
      BY <1>3, <3>1
    <3>3. x < cmd[2] /\ cmd[2] \in Nat
      BY <1>1, <1>2, <2>1, <3>1, <3>2 DEF Commands
    <3> QED BY <1>4, <3>3
  <2> QED BY <2>2, <2>3
<1> QED BY <1>4, <1>5, <1>6

\* CmdparseProcess takes the oldest command.
LEMMA TakeStep ==
  ASSUME IInv, NEW v \in Commands, cmd = NONE, R!ReadOne("parse", v), cmd' = v,
         UNCHANGED <<fvars, wvars, lines, count, out, lost, refused>>
  PROVE  IInv'
<1>1. rq # <<>> /\ v = Last(rq) /\ rq' = Front(rq) /\ rtook' = Append(rtook, v) /\ rput' = rput
  BY TakenFromR
<1>2. /\ rq \in Seq(Commands) /\ rtook \in Seq(Commands) /\ Len(rtook) \in Nat
  BY LenProperties DEF IInv, TypeOK
<1>3. /\ rtook' \in Seq(Commands) /\ Len(rtook') = Len(rtook) + 1 /\ rtook'[Len(rtook) + 1] = v
  BY <1>1, <1>2, AppendProperties
<1>4. rq' \in Seq(Commands)
  BY <1>1, <1>2, FrontFacts
<1>5. UNCHANGED <<req, need_to_get_new_cmd, cmds, wire, clean, wq, wput, wtook, lines, count, lost, refused>>
  BY DEF fvars, wvars
<1>6. F!TypeOK' /\ F!StartsWithHat'
  BY <1>5 DEF IInv, TypeOK, F!TypeOK, F!StartsWithHat
<1>7. TypeOK'
  BY <1>1, <1>3, <1>4, <1>5, <1>6 DEF IInv, TypeOK
<1>8. rput' = rtook' \o Reverse(rq')
  <2> DEFINE C == Commands
             s == rtook
             t == Reverse(rq)
             u == rtook'
             r == Reverse(rq')
  <2>1. s \in Seq(C) /\ t \in Seq(C) /\ t # <<>> /\ v = Head(t) /\ u = Append(s, v) /\ r = Tail(t)
    BY <1>1, <1>2, ReverseFacts, ReverseFront
  <2>2. rput' = s \o t
    BY <1>1 DEF IInv, QueueInv
  <2> HIDE DEF C, s, t, u, r
  <2>3. u \o r = s \o t
    BY <2>1, TakeNext
  <2> QED BY <2>2, <2>3 DEF u, r
<1>9. QueueInv'
  <2>1. rtook' # <<>> /\ cmd' = rtook'[Len(rtook')]
    BY <1>2, <1>3, EmptySeq
  <2> QED BY <1>1, <1>5, <1>8, <2>1 DEF IInv, QueueInv, Increasing
<1>10. ReplyInv'
  <2> DEFINE taken == Numbers("query", rtook)
             done  == Numbers("reply", wput)
  <2>1. Numbers("query", rtook') = taken \cup (IF v[1] = "query" THEN {v[2]} ELSE {})
    BY <1>1, <1>2, NumbersAppend
  <2>2. taken = done \cup refused /\ done \cap refused = {}
    BY DEF IInv, ReplyInv, NONE
  <2>3. v[2] \notin taken
    <3>1. ASSUME v[2] \in taken PROVE v[2] \in Nat /\ v[2] < v[2]
      BY <1>1, <3>1, TakenAreLower DEF IInv
    <3> QED BY <3>1
  <2>4. Numbers("reply", wput') = done
    BY <1>5
  <2>5. \A i, j \in 1..Len(wput) :
          i < j /\ wput[i][1] = "reply" /\ wput[j][1] = "reply" => wput[i][2] < wput[j][2]
    BY DEF IInv, ReplyInv
  <2> HIDE DEF taken, done
  <2> QED BY <1>5, <2>1, <2>2, <2>3, <2>4, <2>5 DEF ReplyInv
<1> QED BY <1>6, <1>7, <1>9, <1>10 DEF IInv

\* What rFifo and the parser keep when only the strings for the line change.
LEMMA SameCommands ==
  ASSUME IInv, UNCHANGED <<fvars, rvars, lost>>,
         count' \in 0 .. Pieces, lines' \in 0 .. MaxLines, cmd' \in {NONE, cmd},
         wq' \in Seq(Strings), wput' \in Seq(Strings), wtook' \in Seq(Strings)
  PROVE  TypeOK' /\ F!StartsWithHat' /\ QueueInv'
<1>1. UNCHANGED <<req, need_to_get_new_cmd, cmds, wire, clean, rq, rput, rtook, lost>>
  BY DEF fvars, rvars
<1>2. F!TypeOK' /\ F!StartsWithHat'
  BY <1>1 DEF IInv, TypeOK, F!TypeOK, F!StartsWithHat
<1>3. TypeOK'
  BY <1>1, <1>2 DEF IInv, TypeOK
<1>4. QueueInv'
  BY <1>1 DEF IInv, QueueInv, Increasing
<1> QED BY <1>2, <1>3, <1>4

\* The handler of a query answers it, or is refused the room for the answer.
LEMMA ReplyStep ==
  ASSUME IInv, Reply
  PROVE  IInv'
<1>1. /\ cmd # NONE /\ cmd[1] = "query" /\ cmd \in Commands /\ cmd' = NONE
      /\ UNCHANGED <<fvars, rvars, lines, count, lost, rtook>>
  BY DEF IInv, TypeOK, NONE, Reply, rvars
<1> DEFINE taken == Numbers("query", rtook)
           done  == Numbers("reply", wput)
           v     == <<"reply", cmd[2]>>
<1>2. /\ taken = done \cup refused \cup {cmd[2]}
      /\ done \cap refused = {} /\ cmd[2] \notin done /\ cmd[2] \notin refused
      /\ \A i, j \in 1..Len(wput) :
           i < j /\ wput[i][1] = "reply" /\ wput[j][1] = "reply" => wput[i][2] < wput[j][2]
  BY <1>1 DEF IInv, ReplyInv
<1>3. Numbers("query", rtook') = taken
  BY <1>1 DEF Numbers
<1>4. v \in Strings /\ v[1] = "reply" /\ v[2] = cmd[2] /\ cmd[2] \in Nat
  BY <1>1 DEF Commands, Strings
<1>5. ASSUME NEW x \in done PROVE x \in Nat /\ x < cmd[2]
  <2>1. x \in taken /\ x # cmd[2]
    BY <1>2
  <2>2. x \in Nat /\ x <= cmd[2]
    BY <1>1, <2>1, TakenAreLower DEF IInv
  <2> QED BY <1>4, <2>1, <2>2
<1> HIDE DEF taken, v
<1>6. CASE W!WriteOne("parse", v) /\ refused' = refused
  <2>1. wq' = Cons(v, wq) /\ wput' = Append(wput, v) /\ wtook' = wtook
    BY <1>6, PutIntoW
  <2>2. /\ wput' \in Seq(Strings) /\ Len(wput') = Len(wput) + 1 /\ Len(wput) \in Nat
        /\ (\A i \in 1 .. Len(wput) : wput'[i] = wput[i]) /\ wput'[Len(wput) + 1] = v
    BY <1>4, <2>1, AppendProperties, LenProperties DEF IInv, TypeOK
  <2>3. wq' \in Seq(Strings) /\ wtook' \in Seq(Strings)
    BY <1>4, <2>1, ConsFacts DEF IInv, TypeOK
  <2>4. TypeOK' /\ F!StartsWithHat' /\ QueueInv'
    <3> lines' \in 0 .. MaxLines /\ count' \in 0 .. Pieces
      BY <1>1 DEF IInv, TypeOK
    <3> QED BY <1>1, <2>2, <2>3, SameCommands
  <2>5. Numbers("reply", wput') = done \cup {cmd[2]}
    BY <1>4, <2>1, NumbersAppend DEF IInv, TypeOK
  <2>6. ASSUME NEW i \in 1 .. Len(wput'), NEW j \in 1 .. Len(wput'), i < j,
               wput'[i][1] = "reply", wput'[j][1] = "reply"
        PROVE  wput'[i][2] < wput'[j][2]
    <3>1. i \in 1 .. Len(wput) /\ wput'[i] = wput[i]
      BY <2>2, <2>6
    <3>2. CASE j = Len(wput) + 1
      <4>1. wput[i][2] \in done
        BY <2>6, <3>1 DEF Numbers
      <4> QED BY <1>4, <1>5, <2>2, <3>1, <3>2, <4>1
    <3>3. CASE j # Len(wput) + 1
      <4> j \in 1 .. Len(wput)
        BY <2>2, <3>3
      <4> QED BY <1>2, <2>2, <2>6, <3>1
    <3> QED BY <3>2, <3>3
  <2>7. ReplyInv'
    <3> HIDE DEF done
    <3> QED BY <1>1, <1>2, <1>3, <1>6, <2>5, <2>6 DEF ReplyInv, NONE
  <2> QED BY <2>4, <2>7 DEF IInv
<1>7. CASE W!WriteFails("parse") /\ refused' = refused \cup {cmd[2]}
  <2>1. UNCHANGED <<wq, wput, wtook>>
    BY <1>7 DEF W!WriteFails, W!fvars
  <2>2. TypeOK' /\ F!StartsWithHat' /\ QueueInv'
    <3> /\ lines' \in 0 .. MaxLines /\ count' \in 0 .. Pieces
        /\ wq' \in Seq(Strings) /\ wput' \in Seq(Strings) /\ wtook' \in Seq(Strings)
      BY <1>1, <2>1 DEF IInv, TypeOK
    <3> QED BY <1>1, SameCommands
  <2>3. Numbers("reply", wput') = done
    BY <2>1 DEF Numbers
  <2>4. ReplyInv'
    <3> HIDE DEF done
    <3> QED BY <1>1, <1>2, <1>3, <1>7, <2>1, <2>3 DEF ReplyInv, NONE
  <2> QED BY <2>2, <2>4 DEF IInv
<1> QED BY <1>6, <1>7 DEF Reply, v

\* The other steps change no answer: those of the lines of stdin among them.
LEMMA OtherSteps ==
  ASSUME IInv, UNCHANGED <<fvars, rq, rput, rtook, lost, refused>>,
         count' \in 0 .. Pieces, lines' \in 0 .. MaxLines,
         cmd' = cmd \/ (cmd[1] = "note" /\ cmd' = NONE),
         wq' \in Seq(Strings), wtook' \in Seq(Strings),
         \/ wput' = wput
         \/ \E v \in Strings : v[1] = "line" /\ wput' = Append(wput, v)
  PROVE  IInv'
<1>1. UNCHANGED <<req, need_to_get_new_cmd, cmds, wire, clean>>
  BY DEF fvars
<1>2. F!TypeOK' /\ F!StartsWithHat'
  BY <1>1 DEF IInv, TypeOK, F!TypeOK, F!StartsWithHat
<1>3. wput \in Seq(Strings) /\ Len(wput) \in Nat
  BY LenProperties DEF IInv, TypeOK
<1>4. wput' \in Seq(Strings)
  <2>1. \A v \in Strings : Append(wput, v) \in Seq(Strings)
    BY <1>3, AppendProperties
  <2> QED BY <1>3, <2>1
<1>5. TypeOK'
  BY <1>1, <1>2, <1>4 DEF IInv, TypeOK
<1>6. QueueInv'
  BY <1>1 DEF IInv, QueueInv, Increasing
<1>7. Numbers("reply", wput') = Numbers("reply", wput)
  <2>1. CASE wput' = wput
    BY <2>1
  <2>2. ASSUME NEW v \in Strings, v[1] = "line", wput' = Append(wput, v)
        PROVE  Numbers("reply", wput') = Numbers("reply", wput)
    <3>1. Numbers("reply", Append(wput, v))
            = Numbers("reply", wput) \cup (IF v[1] = "reply" THEN {v[2]} ELSE {})
      BY <1>3, NumbersAppend
    <3>2. v[1] # "reply"
      BY <2>2
    <3> QED BY <2>2, <3>1, <3>2
  <2> QED BY <2>1, <2>2
<1>8. ASSUME NEW i \in 1 .. Len(wput'), NEW j \in 1 .. Len(wput'), i < j,
             wput'[i][1] = "reply", wput'[j][1] = "reply"
      PROVE  wput'[i][2] < wput'[j][2]
  <2>1. \A a, b \in 1..Len(wput) :
          a < b /\ wput[a][1] = "reply" /\ wput[b][1] = "reply" => wput[a][2] < wput[b][2]
    BY DEF IInv, ReplyInv
  <2>2. CASE wput' = wput
    BY <1>8, <2>1, <2>2
  <2>3. ASSUME NEW v \in Strings, v[1] = "line", wput' = Append(wput, v)
        PROVE  wput'[i][2] < wput'[j][2]
    <3>1. /\ Len(wput') = Len(wput) + 1
          /\ (\A k \in 1 .. Len(wput) : wput'[k] = wput[k]) /\ wput'[Len(wput) + 1] = v
      BY <1>3, <2>3, AppendProperties
    <3>2. i # Len(wput) + 1 /\ j # Len(wput) + 1
      BY <1>8, <2>3, <3>1
    <3>3. i \in 1 .. Len(wput) /\ j \in 1 .. Len(wput)
      BY <1>3, <3>1, <3>2
    <3> QED BY <1>8, <2>1, <3>1, <3>3
  <2> QED BY <2>2, <2>3
<1>9. Numbers("query", rtook') = Numbers("query", rtook)
  BY DEF Numbers
<1>10. (IF cmd'[1] = "query" THEN {cmd'[2]} ELSE {}) = (IF cmd[1] = "query" THEN {cmd[2]} ELSE {})
  <2>1. CASE cmd' = cmd
    BY <2>1
  <2>2. CASE cmd[1] = "note" /\ cmd' = NONE
    <3> cmd[1] # "query" /\ cmd'[1] # "query"
      BY <2>2 DEF NONE
    <3> QED OBVIOUS
  <2> QED BY <2>1, <2>2
<1>11. ReplyInv'
  BY <1>7, <1>8, <1>9, <1>10 DEF IInv, ReplyInv
<1> QED BY <1>2, <1>5, <1>6, <1>11 DEF IInv

\* The invariant is inductive.
LEMMA Inductive == IInv /\ [Next]_vars => IInv'
<1> SUFFICES ASSUME IInv, [Next]_vars PROVE IInv'
  OBVIOUS
<1>1. /\ count \in 0 .. Pieces /\ lines \in 0 .. MaxLines /\ cmd \in Commands \cup {NONE}
      /\ wq \in Seq(Strings) /\ wput \in Seq(Strings) /\ wtook \in Seq(Strings)
  BY DEF IInv, TypeOK
<1>2. Pieces \in Nat \ {0} /\ MaxLines \in Nat
  BY UartdAssumption
<1>3. ASSUME NEW bytes \in Chunks, Read(bytes) PROVE IInv'
  BY <1>3, ReadStep
<1>4. CASE ReadNotify \/ ParseWait \/ ParseNotify \/ TtyNotify \/ WriteWait \/ SpuriousWakeup \/ UNCHANGED vars
  <2>1. UNCHANGED <<fvars, rq, rput, rtook, wq, wput, wtook, own>>
    BY <1>4 DEF ReadNotify, ParseWait, ParseNotify, TtyNotify, WriteWait, SpuriousWakeup, vars, rvars, wvars,
                R!NotifyOne, R!ReadWaits, R!SpuriousWakeup, W!NotifyOne, W!ReadWaits, W!SpuriousWakeup
  <2> QED BY <1>1, <2>1, OtherSteps DEF own
<1>5. CASE ParseTake
  <2>1. PICK v \in Commands : R!ReadOne("parse", v) /\ cmd' = v
    BY <1>5 DEF ParseTake
  <2> QED BY <1>5, <2>1, TakeStep DEF ParseTake
<1>6. CASE Reply
  BY <1>6, ReplyStep
<1>7. CASE NoReply
  BY <1>1, <1>7, OtherSteps DEF NoReply, rvars, wvars
<1>8. CASE Tty
  <2>1. /\ lines' = lines + 1 /\ lines' \in 0 .. MaxLines /\ lines + 1 \in 1 .. MaxLines
        /\ UNCHANGED <<fvars, rq, rput, rtook, cmd, count, lost, refused>>
    BY <1>1, <1>2, <1>8 DEF Tty, rvars
  <2> DEFINE v == <<"line", lines + 1>>
  <2>2. v \in Strings /\ v[1] = "line"
    BY <2>1 DEF Strings
  <2> HIDE DEF v
  <2>3. CASE W!WriteOne("tty", v)
    <3>1. wq' = Cons(v, wq) /\ wput' = Append(wput, v) /\ wtook' = wtook
      BY <2>3, PutIntoW
    <3>2. wq' \in Seq(Strings)
      BY <1>1, <2>2, <3>1, ConsFacts
    <3> QED BY <1>1, <2>1, <2>2, <3>1, <3>2, OtherSteps
  <2>4. CASE W!WriteFails("tty")
    BY <1>1, <2>1, <2>4, OtherSteps DEF W!WriteFails, W!fvars
  <2> QED BY <1>8, <2>3, <2>4 DEF Tty, v
<1>9. CASE WriteTake
  <2>1. PICK v \in Strings : W!ReadOne("write", v)
    BY <1>9 DEF WriteTake
  <2>2. wq # <<>> /\ wq' = Front(wq) /\ wtook' = Append(wtook, v) /\ wput' = wput
    BY <2>1, TakenFromW
  <2>3. wq' \in Seq(Strings) /\ wtook' \in Seq(Strings)
    BY <1>1, <2>2, FrontFacts, AppendProperties
  <2>4. UNCHANGED <<fvars, rq, rput, rtook, lines, cmd, lost, refused>> /\ count' \in 0 .. Pieces
    BY <1>2, <1>9 DEF WriteTake, rvars
  <2> QED BY <1>1, <2>2, <2>3, <2>4, OtherSteps
<1>10. ASSUME NEW n \in 1 .. Pieces, Write(n) PROVE IInv'
  <2>1. count' \in 0 .. Pieces
    BY <1>1, <1>2, <1>10 DEF Write
  <2> QED BY <1>1, <1>10, <2>1, OtherSteps DEF Write, rvars, wvars
<1> QED BY <1>3, <1>4, <1>5, <1>6, <1>7, <1>8, <1>9, <1>10 DEF Next, Parser, Writer

\* It holds at the start: nothing is queued.
LEMMA Start == Init => IInv
<1> SUFFICES ASSUME Init PROVE IInv
  OBVIOUS
<1>1. /\ req = <<>> /\ need_to_get_new_cmd = TRUE /\ cmds = <<>> /\ wire = <<>> /\ clean = TRUE
      /\ rq = <<>> /\ rput = <<>> /\ rtook = <<>> /\ wq = <<>> /\ wput = <<>> /\ wtook = <<>>
      /\ lines = 0 /\ cmd = NONE /\ count = Pieces /\ lost = {} /\ refused = {}
  BY DEF Init, F!Init, R!Init, W!Init
<1>2. TypeOK
  BY <1>1, UartdAssumption DEF TypeOK, F!TypeOK
<1>3. F!StartsWithHat
  BY <1>1 DEF F!StartsWithHat
<1>4. QueueInv
  <2>1. Reverse(<<>>) = <<>> /\ <<>> = <<>> \o <<>>
    BY ReverseEmpty
  <2>2. Cardinality({}) = 0
    BY FS_EmptySet
  <2> QED BY <1>1, <2>1, <2>2 DEF QueueInv, Increasing
<1>5. ReplyInv
  BY <1>1 DEF ReplyInv, Numbers, NONE
<1> QED BY <1>2, <1>3, <1>4, <1>5 DEF IInv

\* The counts of OneReplyEach: the parts are disjoint, so their sizes add up.
LEMMA Counted ==
  ASSUME IInv
  PROVE  LET taken == Numbers("query", rtook)
             done  == Numbers("reply", wput)
             now   == IF cmd[1] = "query" THEN {cmd[2]} ELSE {}
         IN  Cardinality(done) + Cardinality(refused) + Cardinality(now) = Cardinality(taken)
<1> DEFINE taken == Numbers("query", rtook)
           done  == Numbers("reply", wput)
           now   == IF cmd[1] = "query" THEN {cmd[2]} ELSE {}
<1>1. /\ taken = done \cup refused \cup now
      /\ done \cap refused = {} /\ done \cap now = {} /\ refused \cap now = {}
  BY DEF IInv, ReplyInv
<1>2. IsFiniteSet(taken)
  <2>1. Len(cmds) \in Nat /\ IsFiniteSet(1 .. Len(cmds))
    BY FS_Interval, LenProperties DEF IInv, TypeOK, F!TypeOK
  <2>2. taken \subseteq 1 .. Len(cmds)
    <3>1. ASSUME NEW x \in taken PROVE x \in 1 .. Len(cmds)
      <4>1. PICK i \in 1 .. Len(rtook) : x = rtook[i][2]
        BY DEF Numbers
      <4>2. i \in 1 .. Len(rput) /\ rtook[i] = rput[i]
        BY TakenSoFar, LenProperties DEF IInv, TypeOK
      <4> QED BY <4>1, <4>2 DEF IInv, QueueInv
    <3> QED BY <3>1
  <2> QED BY <2>1, <2>2, FS_Subset
<1> HIDE DEF taken, done, now
<1>3. IsFiniteSet(done) /\ IsFiniteSet(refused) /\ IsFiniteSet(now)
  BY <1>1, <1>2, FS_Subset
<1>4. /\ Cardinality(done) \in Nat /\ Cardinality(refused) \in Nat /\ Cardinality(now) \in Nat
      /\ Cardinality({}) = 0
  BY <1>3, FS_CardinalityType, FS_EmptySet
<1> DEFINE both == done \cup refused
<1>5. IsFiniteSet(both) /\ Cardinality(both) = Cardinality(done) + Cardinality(refused)
  BY <1>1, <1>3, Disjoint
<1>6. both \cap now = {} /\ taken = both \cup now
  BY <1>1
<1> HIDE DEF both
<1>7. Cardinality(both \cup now) = Cardinality(both) + Cardinality(now)
  BY <1>3, <1>5, <1>6, Disjoint
<1> QED BY <1>4, <1>5, <1>6, <1>7 DEF taken, done, now

\* uartd answers each query once, in order, or its writer queue was full: no command is
\* executed twice or overtakes another, whatever the line carries and however the
\* threads are scheduled.
THEOREM EveryQueryAnsweredOnce == Spec => []OneReplyEach
<1>1. IInv => OneReplyEach
  BY Counted DEF IInv, QueueInv, ReplyInv, OneReplyEach
<1> QED BY <1>1, Start, Inductive, PTL DEF Spec

\* Every variable keeps its type, and no command is numbered beyond the bytes received.
THEOREM TypeCorrect == Spec => []TypeOK
<1>1. IInv => TypeOK
  BY DEF IInv
<1> QED BY <1>1, Start, Inductive, PTL DEF Spec

\* The character that CmdparseProcess drops without a look is there and is the '^'.
THEOREM HatIsThere == Spec => []F!StartsWithHat
<1>1. IInv => F!StartsWithHat
  BY DEF IInv
<1> QED BY <1>1, Start, Inductive, PTL DEF Spec
-----------------------------------------------------------------------------
\* Where the commands stand in a text: the rank of a place is how many begin no later.
Places == Nat \X Nat
Rank(S, p) == Cardinality({s \in S : s[1] <= p[1]})
OneEach(S) == S \subseteq Places /\ IsFiniteSet(S) /\ \A p, q \in S : p[1] = q[1] => p = q

\* The instance counts like this module.
LEMMA SameCount == ASSUME NEW S PROVE F!Cardinality(S) = Cardinality(S)
  BY DEF F!Cardinality, Cardinality

\* Those that begin no later are some of the places.
LEMMA Subsets ==
  ASSUME NEW S, OneEach(S), NEW p
  PROVE  IsFiniteSet({s \in S : s[1] <= p[1]}) /\ Rank(S, p) \in Nat /\ Rank(S, p) <= Cardinality(S) /\ Cardinality(S) \in Nat
<1> DEFINE B == {s \in S : s[1] <= p[1]}
<1>1. B \subseteq S /\ IsFiniteSet(S)
  BY DEF OneEach
<1>2. IsFiniteSet(B) /\ Cardinality(B) <= Cardinality(S)
  BY <1>1, FS_Subset
<1>3. Cardinality(B) \in Nat /\ Cardinality(S) \in Nat
  BY <1>1, <1>2, FS_CardinalityType
<1> QED BY <1>2, <1>3 DEF Rank

\* Who begins later has a higher rank.
LEMMA RankRises ==
  ASSUME NEW S, OneEach(S), NEW p \in S, NEW q \in S, p[1] < q[1]
  PROVE  Rank(S, p) < Rank(S, q)
<1> DEFINE A == {s \in S : s[1] <= p[1]}
           B == {s \in S : s[1] <= q[1]}
<1>1. IsFiniteSet(A) /\ IsFiniteSet(B) /\ Cardinality(A) \in Nat /\ Cardinality(B) \in Nat
  BY Subsets, FS_CardinalityType
<1>2. p \in Places /\ q \in Places /\ S \subseteq Places
  BY DEF OneEach
<1>3. A \subseteq B /\ q \in B /\ q \notin A
  BY <1>2 DEF Places
<1> HIDE DEF A, B
<1>4. Cardinality(A) <= Cardinality(B) /\ (Cardinality(A) = Cardinality(B) => A = B)
  <2>1. A \in SUBSET B
    BY <1>3
  <2>2. Cardinality(A) <= Cardinality(B) /\ (Cardinality(B) = Cardinality(A) => B = A)
    BY <1>1, <2>1, FS_Subset
  <2> QED BY <2>2
<1>5. Cardinality(A) < Cardinality(B)
  BY <1>1, <1>3, <1>4
<1> QED BY <1>5 DEF Rank, A, B

\* Every rank belongs to one place, the one that Nth chooses.
LEMMA NthFacts ==
  ASSUME NEW S, OneEach(S)
  PROVE  /\ Cardinality(S) \in Nat
         /\ \A n \in 1 .. Cardinality(S) : F!Nth(S, n) \in S /\ Rank(S, F!Nth(S, n)) = n
         /\ \A p \in S : Rank(S, p) \in 1 .. Cardinality(S) /\ F!Nth(S, Rank(S, p)) = p
<1>1. IsFiniteSet(S) /\ S \subseteq Places /\ Cardinality(S) \in Nat
  BY FS_CardinalityType DEF OneEach
<1>2. ASSUME NEW p \in S PROVE Rank(S, p) \in 1 .. Cardinality(S)
  <2> DEFINE B == {s \in S : s[1] <= p[1]}
  <2>1. Rank(S, p) \in Nat /\ Rank(S, p) <= Cardinality(S) /\ IsFiniteSet(B)
    BY Subsets
  <2>2. p \in B
    BY <1>1 DEF Places
  <2>3. Cardinality(B) # 0
    BY <2>1, <2>2, FS_EmptySet
  <2> QED BY <1>1, <2>1, <2>3 DEF Rank
<1>3. ASSUME NEW p \in S, NEW q \in S, Rank(S, p) = Rank(S, q) PROVE p = q
  <2>1. p[1] \in Nat /\ q[1] \in Nat
    BY <1>1 DEF Places
  <2>2. Rank(S, p) \in Nat /\ Rank(S, q) \in Nat
    BY <1>2
  <2>3. ~(p[1] < q[1]) /\ ~(q[1] < p[1])
    BY <1>3, <2>2, RankRises
  <2>4. p[1] = q[1]
    BY <2>1, <2>3
  <2> QED BY <2>4 DEF OneEach
<1> DEFINE T == 1 .. Cardinality(S)
           f == [p \in S |-> Rank(S, p)]
<1>4. f \in Injection(S, T)
  BY <1>2, <1>3 DEF Injection, IsInjective
<1>5. IsFiniteSet(T) /\ Cardinality(T) = Cardinality(S)
  <2>1. IsFiniteSet(1 .. Cardinality(S)) /\ Cardinality(1 .. Cardinality(S)) =
          IF 1 > Cardinality(S) THEN 0 ELSE Cardinality(S) - 1 + 1
    BY <1>1, FS_Interval
  <2> QED BY <1>1, <2>1
<1> HIDE DEF T
<1>6. f \in Surjection(S, T)
  <2> HIDE DEF f
  <2> QED BY <1>4, <1>5, FS_Injection
<1>7. ASSUME NEW n \in 1 .. Cardinality(S) PROVE \E p \in S : Rank(S, p) = n
  <2>1. \E p \in S : f[p] = n
    BY <1>6 DEF Surjection, T
  <2> QED BY <2>1
<1>8. ASSUME NEW n \in 1 .. Cardinality(S) PROVE F!Nth(S, n) \in S /\ Rank(S, F!Nth(S, n)) = n
  <2>1. \A p \in S : F!Cardinality({s \in S : s[1] <= p[1]}) = Rank(S, p)
    BY SameCount DEF Rank
  <2> QED BY <1>7, <2>1 DEF F!Nth
<1>9. ASSUME NEW p \in S PROVE F!Nth(S, Rank(S, p)) = p
  BY <1>2, <1>3, <1>8
<1> QED BY <1>1, <1>2, <1>8, <1>9

\* The same places further on.
Moved(S, m) == {<<p[1] + m, p[2] + m>> : p \in S}

LEMMA MovedSize ==
  ASSUME NEW S, S \subseteq Places, IsFiniteSet(S), NEW m \in Nat
  PROVE  IsFiniteSet(Moved(S, m)) /\ Cardinality(Moved(S, m)) = Cardinality(S) /\ Moved(S, m) \subseteq Places
<1> DEFINE T == Moved(S, m)
           f == [p \in S |-> <<p[1] + m, p[2] + m>>]
<1>1. \A p \in S : p[1] \in Nat /\ p[2] \in Nat /\ p = <<p[1], p[2]>>
  BY DEF Places
<1>2. f \in [S -> T]
  BY DEF Moved
<1>3. \A p, q \in S : f[p] = f[q] => p = q
  BY <1>1
<1>4. \A y \in T : \E p \in S : f[p] = y
  BY DEF Moved
<1>5. f \in Bijection(S, T)
  <2> HIDE DEF f, T
  <2> QED BY <1>2, <1>3, <1>4 DEF Bijection, Injection, Surjection, IsInjective
<1>6. IsFiniteSet(T) /\ Cardinality(T) = Cardinality(S)
  <2> HIDE DEF T
  <2>1. ExistsBijection(S, T)
    BY <1>5 DEF ExistsBijection
  <2> QED BY <2>1, FS_Bijection
<1>7. T \subseteq Places
  BY <1>1 DEF Moved, Places
<1> QED BY <1>6, <1>7

\* The places of the commands are finitely many, and no two begin alike.
LEMMA SpansAreOneEach ==
  ASSUME NEW text \in Seq(Chars)
  PROVE  OneEach(F!Spans(text)) /\ Len(text) \in Nat
<1>1. Len(text) \in Nat
  BY LenProperties
<1> DEFINE I == 1 .. Len(text)
<1>2. F!Spans(text) \subseteq I \X I
  BY DEF F!Spans
<1>3. F!Spans(text) \subseteq Places
  BY <1>1, <1>2 DEF Places
<1>4. IsFiniteSet(F!Spans(text))
  <2>1. IsFiniteSet(I)
    BY <1>1, FS_Interval
  <2>2. IsFiniteSet(I \X I)
    BY <2>1, FS_Product
  <2> QED BY <1>2, <2>2, FS_Subset
<1>5. ASSUME NEW p \in F!Spans(text), NEW q \in F!Spans(text), p[1] = q[1] PROVE p = q
  <2>1. /\ p[1] \in I /\ p[2] \in I /\ p = <<p[1], p[2]>> /\ p[1] < p[2] /\ text[p[2]] = F!NL
        /\ q[1] \in I /\ q[2] \in I /\ q = <<q[1], q[2]>> /\ q[1] < q[2] /\ text[q[2]] = F!NL
    BY DEF F!Spans
  <2>2. /\ \A k \in p[1] .. p[2] - 1 : text[k] # F!NL
        /\ \A k \in q[1] .. q[2] - 1 : text[k] # F!NL
    BY DEF F!Spans, F!Plain
  <2>3. ~(p[2] < q[2]) /\ ~(q[2] < p[2])
    BY <1>1, <1>5, <2>1, <2>2
  <2>4. p[2] = q[2]
    BY <1>1, <2>1, <2>3
  <2> QED BY <1>5, <2>1, <2>4
<1> QED BY <1>1, <1>3, <1>4, <1>5 DEF OneEach

\* A text in which every '^' is followed by a newline: no command is begun at its end.
Closed(a) == \A i \in 1 .. Len(a) : a[i] = F!HAT => \E j \in i .. Len(a) : a[j] = F!NL

\* A text behind a closed one has the same commands, further on.
LEMMA SpansBehind ==
  ASSUME NEW a \in Seq(Chars), NEW b \in Seq(Chars), Closed(a)
  PROVE  /\ F!Spans(a \o b) = F!Spans(a) \cup Moved(F!Spans(b), Len(a))
         /\ \A p \in F!Spans(a) : p[1] <= Len(a)
         /\ \A p \in F!Spans(b) : p[1] + Len(a) > Len(a)
<1> DEFINE t == a \o b
           m == Len(a)
           n == Len(b)
<1>1. /\ t \in Seq(Chars) /\ Len(t) = m + n /\ m \in Nat /\ n \in Nat
      /\ \A i \in 1 .. m + n : t[i] = IF i <= m THEN a[i] ELSE b[i - m]
  BY ConcatProperties, LenProperties
<1> HIDE DEF t
<1>2. (\A i \in 1 .. m : t[i] = a[i]) /\ (\A i \in 1 .. n : t[i + m] = b[i])
  <2>1. ASSUME NEW i \in 1 .. n PROVE t[i + m] = b[i]
    <3> i + m \in 1 .. m + n /\ ~(i + m <= m) /\ (i + m) - m = i
      BY <1>1
    <3> QED BY <1>1
  <2> QED BY <1>1, <2>1
<1>3. ASSUME NEW p \in F!Spans(a) PROVE p \in F!Spans(t) /\ p[1] <= m
  <2> DEFINE i == p[1]
             j == p[2]
  <2>1. /\ i \in 1 .. m /\ j \in 1 .. m /\ i < j /\ a[i] = F!HAT /\ a[j] = F!NL /\ p = <<i, j>>
        /\ \A k \in i .. j - 1 : a[k] # F!NL
        /\ \A k \in 1 .. i - 1 : a[k] = F!HAT => \E l \in k .. i : a[l] = F!NL
    BY DEF F!Spans, F!Plain
  <2> HIDE DEF i, j
  <2>2. i \in 1 .. m + n /\ j \in 1 .. m + n /\ t[i] = F!HAT /\ t[j] = F!NL
    BY <1>1, <1>2, <2>1
  <2>3. ASSUME NEW k \in i .. j - 1 PROVE t[k] # F!NL
    <3> k \in 1 .. m
      BY <1>1, <2>1
    <3> QED BY <1>2, <2>1
  <2>4. ASSUME NEW k \in 1 .. i - 1, t[k] = F!HAT PROVE \E l \in k .. i : t[l] = F!NL
    <3>1. k \in 1 .. m /\ a[k] = F!HAT
      BY <1>1, <1>2, <2>1, <2>4
    <3>2. PICK l \in k .. i : a[l] = F!NL
      BY <2>1, <3>1
    <3>3. t[l] = F!NL
      BY <1>1, <1>2, <2>1, <3>1, <3>2
    <3> QED BY <3>3
  <2>5. <<i, j>> \in F!Spans(t)
    BY <1>1, <2>1, <2>2, <2>3, <2>4 DEF F!Spans, F!Plain
  <2>6. p \in F!Spans(t)
    BY <2>1, <2>5
  <2>7. i <= m
    BY <1>1, <2>1
  <2> QED BY <2>6, <2>7 DEF i
<1>4. ASSUME NEW p \in F!Spans(b)
      PROVE  <<p[1] + m, p[2] + m>> \in F!Spans(t) /\ p[1] + m > m
  <2> DEFINE i == p[1]
             j == p[2]
  <2>1. /\ i \in 1 .. n /\ j \in 1 .. n /\ i < j /\ b[i] = F!HAT /\ b[j] = F!NL
        /\ \A k \in i .. j - 1 : b[k] # F!NL
        /\ \A k \in 1 .. i - 1 : b[k] = F!HAT => \E l \in k .. i : b[l] = F!NL
    BY DEF F!Spans, F!Plain
  <2> HIDE DEF i, j
  <2>2. t[i + m] = F!HAT /\ t[j + m] = F!NL /\ i + m \in 1 .. m + n /\ j + m \in 1 .. m + n /\ i + m < j + m
    BY <1>1, <1>2, <2>1
  <2>3. ASSUME NEW k \in i + m .. (j + m) - 1 PROVE t[k] # F!NL
    <3>1. k - m \in i .. j - 1 /\ k - m \in 1 .. n /\ (k - m) + m = k
      BY <1>1, <2>1
    <3>2. t[(k - m) + m] = b[k - m]
      BY <1>2, <3>1
    <3> QED BY <2>1, <3>1, <3>2
  <2>4. ASSUME NEW k \in 1 .. (i + m) - 1, t[k] = F!HAT PROVE \E l \in k .. i + m : t[l] = F!NL
    <3>1. CASE k <= m
      <4>1. k \in 1 .. m /\ a[k] = F!HAT
        BY <1>1, <1>2, <2>4, <3>1
      <4>2. PICK l \in k .. m : a[l] = F!NL
        BY <4>1 DEF Closed
      <4>3. l \in k .. i + m /\ t[l] = F!NL
        BY <1>1, <1>2, <2>1, <4>1, <4>2
      <4> QED BY <4>3
    <3>2. CASE k > m
      <4>1. k - m \in 1 .. i - 1 /\ k - m \in 1 .. n /\ (k - m) + m = k
        BY <1>1, <2>1, <3>2
      <4>2. b[k - m] = F!HAT
        BY <1>2, <2>4, <4>1
      <4>3. PICK l \in k - m .. i : b[l] = F!NL
        BY <2>1, <4>1, <4>2
      <4>4. l + m \in k .. i + m /\ l \in 1 .. n
        BY <1>1, <2>1, <4>1
      <4>5. t[l + m] = F!NL
        BY <1>2, <4>3, <4>4
      <4> QED BY <4>4, <4>5
    <3> QED BY <1>1, <3>1, <3>2
  <2>5. <<i + m, j + m>> \in F!Spans(t)
    BY <1>1, <2>2, <2>3, <2>4 DEF F!Spans, F!Plain
  <2>6. i + m > m
    BY <1>1, <2>1
  <2> QED BY <2>5, <2>6 DEF i, j
<1>5. ASSUME NEW p \in F!Spans(t) PROVE p \in F!Spans(a) \/ \E q \in F!Spans(b) : p = <<q[1] + m, q[2] + m>>
  <2> DEFINE i == p[1]
             j == p[2]
  <2>1. /\ i \in 1 .. m + n /\ j \in 1 .. m + n /\ i < j /\ t[i] = F!HAT /\ t[j] = F!NL /\ p = <<i, j>>
        /\ \A k \in i .. j - 1 : t[k] # F!NL
        /\ \A k \in 1 .. i - 1 : t[k] = F!HAT => \E l \in k .. i : t[l] = F!NL
    BY <1>1 DEF F!Spans, F!Plain
  <2> HIDE DEF i, j
  <2>2. CASE i <= m
    <3>1. i \in 1 .. m /\ a[i] = F!HAT
      BY <1>1, <1>2, <2>1, <2>2
    <3>2. PICK l \in i .. m : a[l] = F!NL
      BY <3>1 DEF Closed
    <3>3. t[l] = F!NL /\ j <= m
      BY <1>1, <1>2, <2>1, <3>1, <3>2
    <3>4. j \in 1 .. m /\ a[j] = F!NL
      BY <1>1, <1>2, <2>1, <3>3
    <3>5. ASSUME NEW k \in i .. j - 1 PROVE a[k] # F!NL
      BY <1>1, <1>2, <2>1, <3>1, <3>4
    <3>6. ASSUME NEW k \in 1 .. i - 1, a[k] = F!HAT PROVE \E r \in k .. i : a[r] = F!NL
      <4>1. k \in 1 .. m /\ t[k] = F!HAT
        BY <1>1, <1>2, <3>1, <3>6
      <4>2. PICK r \in k .. i : t[r] = F!NL
        BY <2>1, <4>1
      <4>3. a[r] = F!NL
        BY <1>1, <1>2, <3>1, <4>1, <4>2
      <4> QED BY <4>3
    <3>7. <<i, j>> \in F!Spans(a)
      BY <2>1, <3>1, <3>4, <3>5, <3>6 DEF F!Spans, F!Plain
    <3> QED BY <2>1, <3>7
  <2>3. CASE i > m
    <3> DEFINE x == i - m
               y == j - m
    <3>1. x \in 1 .. n /\ y \in 1 .. n /\ x < y /\ x + m = i /\ y + m = j
      BY <1>1, <2>1, <2>3
    <3> HIDE DEF x, y
    <3>2. b[x] = F!HAT /\ b[y] = F!NL
      BY <1>2, <2>1, <3>1
    <3>3. ASSUME NEW k \in x .. y - 1 PROVE b[k] # F!NL
      <4> k + m \in i .. j - 1 /\ k \in 1 .. n
        BY <1>1, <3>1
      <4> QED BY <1>2, <2>1
    <3>4. ASSUME NEW k \in 1 .. x - 1, b[k] = F!HAT PROVE \E r \in k .. x : b[r] = F!NL
      <4>1. k + m \in 1 .. i - 1 /\ k \in 1 .. n
        BY <1>1, <3>1
      <4>2. t[k + m] = F!HAT
        BY <1>2, <3>4, <4>1
      <4>3. PICK r \in k + m .. i : t[r] = F!NL
        BY <2>1, <4>1, <4>2
      <4>4. r - m \in k .. x /\ r - m \in 1 .. n /\ (r - m) + m = r
        BY <1>1, <3>1, <4>1
      <4>5. b[r - m] = F!NL
        BY <1>2, <4>3, <4>4
      <4> QED BY <4>4, <4>5
    <3>5. <<x, y>> \in F!Spans(b)
      BY <3>1, <3>2, <3>3, <3>4 DEF F!Spans, F!Plain
    <3>6. p = <<<<x, y>>[1] + m, <<x, y>>[2] + m>>
      BY <2>1, <3>1
    <3> QED BY <3>5, <3>6
  <2> QED BY <1>1, <2>1, <2>2, <2>3
<1> QED BY <1>3, <1>4, <1>5 DEF Moved, t

\* The commands are texts, as many as there are places.
LEMMA CommandsType ==
  ASSUME NEW text \in Seq(Chars)
  PROVE  /\ F!CommandsIn(text) \in Seq(Seq(Chars)) /\ Len(F!CommandsIn(text)) = Cardinality(F!Spans(text))
         /\ \A n \in 1 .. Cardinality(F!Spans(text)) :
              F!CommandsIn(text)[n] = SubSeq(text, F!Nth(F!Spans(text), n)[1], F!Nth(F!Spans(text), n)[2] - 1)
<1> DEFINE S == F!Spans(text)
           s == F!CommandsIn(text)
<1>1. OneEach(S) /\ Len(text) \in Nat
  BY SpansAreOneEach
<1>2. Cardinality(S) \in Nat /\ \A n \in 1 .. Cardinality(S) : F!Nth(S, n) \in S
  BY <1>1, NthFacts
<1>3. \A p \in S : p[1] \in 1 .. Len(text) /\ p[2] \in 1 .. Len(text) /\ p[1] < p[2]
  BY DEF F!Spans
<1>4. s = [n \in 1 .. Cardinality(S) |-> SubSeq(text, F!Nth(S, n)[1], F!Nth(S, n)[2] - 1)]
  BY SameCount DEF F!CommandsIn
<1> HIDE DEF S, s
<1>5. ASSUME NEW n \in 1 .. Cardinality(S)
      PROVE  s[n] = SubSeq(text, F!Nth(S, n)[1], F!Nth(S, n)[2] - 1) /\ s[n] \in Seq(Chars)
  <2> DEFINE i == F!Nth(S, n)[1]
             j == F!Nth(S, n)[2] - 1
  <2>1. i \in 1 .. Len(text) + 1 /\ j \in i - 1 .. Len(text)
    BY <1>1, <1>2, <1>3
  <2> HIDE DEF i, j
  <2>2. SubSeq(text, i, j) \in Seq(Chars)
    BY <2>1, Part
  <2> QED BY <1>4, <2>2 DEF i, j
<1>6. s \in [1 .. Cardinality(S) -> Seq(Chars)]
  BY <1>4, <1>5
<1>7. s \in Seq(Seq(Chars)) /\ Len(s) = Cardinality(S)
  BY <1>2, <1>6, SeqDef, LenProperties
<1> QED BY <1>5, <1>7 DEF s, S

\* The commands of a closed text and of what follows it are those of both together.
LEMMA CommandsBehind ==
  ASSUME NEW a \in Seq(Chars), NEW b \in Seq(Chars), Closed(a)
  PROVE  F!CommandsIn(a \o b) = F!CommandsIn(a) \o F!CommandsIn(b)
<1> DEFINE t == a \o b
           A == F!Spans(a)
           B == F!Spans(b)
           S == F!Spans(t)
           m == Len(a)
           ca == Cardinality(A)
           cb == Cardinality(B)
<1>1. /\ t \in Seq(Chars) /\ Len(t) = m + Len(b) /\ m \in Nat /\ Len(b) \in Nat
  BY ConcatProperties, LenProperties
<1>2. /\ S = A \cup Moved(B, m)
      /\ (\A p \in A : p[1] <= m) /\ (\A p \in B : p[1] + m > m)
  BY SpansBehind
<1>3. OneEach(A) /\ OneEach(B) /\ OneEach(S)
  BY <1>1, SpansAreOneEach
<1> HIDE DEF t
<1>4. /\ ca \in Nat /\ \A n \in 1 .. ca : F!Nth(A, n) \in A /\ Rank(A, F!Nth(A, n)) = n
      /\ cb \in Nat /\ \A n \in 1 .. cb : F!Nth(B, n) \in B /\ Rank(B, F!Nth(B, n)) = n
      /\ \A p \in S : F!Nth(S, Rank(S, p)) = p
  BY <1>3, NthFacts
<1>5. /\ A \subseteq Places /\ IsFiniteSet(A) /\ B \subseteq Places /\ IsFiniteSet(B)
  BY <1>3 DEF OneEach
<1>6. \A p \in B : p[1] \in Nat /\ p[2] \in Nat
  BY <1>5 DEF Places
<1>7. \A s \in Moved(B, m) : s[1] > m
  BY <1>2 DEF Moved
<1>8. \A p \in A : p[1] \in 1 .. m /\ p[2] - 1 \in 1 .. m
  BY <1>1 DEF F!Spans
<1>9. \A p \in B : p[1] \in 1 .. Len(b) /\ p[2] - 1 \in 1 .. Len(b)
  BY <1>1 DEF F!Spans
<1> HIDE DEF A, B, S
<1>10. Cardinality(S) = ca + cb
  <2>1. IsFiniteSet(Moved(B, m)) /\ Cardinality(Moved(B, m)) = cb
    BY <1>1, <1>5, MovedSize
  <2>2. A \cap Moved(B, m) = {}
    BY <1>1, <1>2, <1>7, <1>8
  <2> QED BY <1>2, <1>5, <2>1, <2>2, Disjoint
<1>11. ASSUME NEW n \in 1 .. ca PROVE F!Nth(S, n) = F!Nth(A, n)
  <2> DEFINE p == F!Nth(A, n)
  <2>1. p \in A /\ Rank(A, p) = n
    BY <1>4
  <2> HIDE DEF p
  <2>2. {s \in S : s[1] <= p[1]} = {s \in A : s[1] <= p[1]}
    <3>1. \A s \in Moved(B, m) : ~(s[1] <= p[1])
      <4> SUFFICES ASSUME NEW s \in Moved(B, m) PROVE ~(s[1] <= p[1])
        OBVIOUS
      <4>1. PICK q \in B : s = <<q[1] + m, q[2] + m>>
        BY DEF Moved
      <4> QED BY <1>1, <1>6, <1>7, <1>8, <2>1, <4>1
    <3> QED BY <1>2, <3>1
  <2>3. Rank(S, p) = n
    BY <2>1, <2>2 DEF Rank
  <2> QED BY <1>2, <1>4, <2>1, <2>3 DEF p
<1>12. ASSUME NEW n \in 1 .. cb
       PROVE  F!Nth(S, ca + n) = <<F!Nth(B, n)[1] + m, F!Nth(B, n)[2] + m>>
  <2> DEFINE q == F!Nth(B, n)
             r == <<q[1] + m, q[2] + m>>
             L == {s \in B : s[1] <= q[1]}
  <2>1. q \in B /\ Rank(B, q) = n
    BY <1>4
  <2> HIDE DEF q
  <2>2. r \in S /\ r[1] = q[1] + m
    BY <1>2, <2>1 DEF Moved
  <2>3. {s \in S : s[1] <= r[1]} = A \cup Moved(L, m)
    <3>1. \A s \in A : s[1] <= r[1]
      BY <1>1, <1>8, <1>9, <2>1, <2>2
    <3>2. ASSUME NEW s \in Moved(B, m), s[1] <= r[1] PROVE s \in Moved(L, m)
      <4>1. PICK p \in B : s = <<p[1] + m, p[2] + m>>
        BY DEF Moved
      <4>2. p \in L
        BY <1>1, <1>6, <2>1, <2>2, <3>2, <4>1
      <4> QED BY <4>1, <4>2 DEF Moved
    <3>3. ASSUME NEW s \in Moved(L, m) PROVE s \in Moved(B, m) /\ s[1] <= r[1]
      <4>1. PICK p \in L : s = <<p[1] + m, p[2] + m>>
        BY DEF Moved
      <4>2. s[1] <= r[1]
        BY <1>1, <1>6, <2>1, <2>2, <4>1
      <4> QED BY <4>1, <4>2 DEF Moved
    <3> HIDE DEF r, L
    <3> QED BY <1>2, <3>1, <3>2, <3>3
  <2>4. Cardinality(L) = n /\ IsFiniteSet(L) /\ L \subseteq Places /\ L \subseteq B
    <3>1. L \subseteq B
      OBVIOUS
    <3> QED BY <1>5, <2>1, <3>1, FS_Subset DEF Rank
  <2> HIDE DEF L
  <2>5. IsFiniteSet(Moved(L, m)) /\ Cardinality(Moved(L, m)) = n
    BY <1>1, <2>4, MovedSize
  <2>6. A \cap Moved(L, m) = {}
    <3>1. Moved(L, m) \subseteq Moved(B, m)
      BY <2>4 DEF Moved
    <3>2. ASSUME NEW s \in A, s \in Moved(B, m) PROVE FALSE
      BY <1>1, <1>7, <1>8, <3>2
    <3> QED BY <3>1, <3>2
  <2>7. Cardinality(A \cup Moved(L, m)) = ca + n
    BY <1>5, <2>5, <2>6, Disjoint
  <2>8. Rank(S, r) = ca + n
    BY <2>3, <2>7 DEF Rank
  <2> QED BY <1>4, <2>2, <2>8 DEF q
<1> DEFINE x == F!CommandsIn(a)
           y == F!CommandsIn(b)
           z == F!CommandsIn(t)
<1>13. /\ x \in Seq(Seq(Chars)) /\ Len(x) = ca /\ \A n \in 1 .. ca : x[n] = SubSeq(a, F!Nth(A, n)[1], F!Nth(A, n)[2] - 1)
       /\ y \in Seq(Seq(Chars)) /\ Len(y) = cb /\ \A n \in 1 .. cb : y[n] = SubSeq(b, F!Nth(B, n)[1], F!Nth(B, n)[2] - 1)
       /\ z \in Seq(Seq(Chars)) /\ Len(z) = ca + cb
       /\ \A n \in 1 .. ca + cb : z[n] = SubSeq(t, F!Nth(S, n)[1], F!Nth(S, n)[2] - 1)
  BY <1>1, <1>10, CommandsType DEF A, B, S
<1> HIDE DEF ca, cb, x, y, z
<1>14. ASSUME NEW n \in 1 .. ca PROVE z[n] = x[n]
  <2> DEFINE i == F!Nth(A, n)[1]
             j == F!Nth(A, n)[2] - 1
  <2>1. i \in 1 .. m /\ j \in 1 .. m
    BY <1>4, <1>8
  <2>2. z[n] = SubSeq(t, i, j) /\ x[n] = SubSeq(a, i, j)
    BY <1>4, <1>11, <1>13
  <2> HIDE DEF i, j
  <2> QED BY <2>1, <2>2, SubSeqOfConcat1 DEF t
<1>15. ASSUME NEW n \in 1 .. cb PROVE z[ca + n] = y[n]
  <2> DEFINE i == F!Nth(B, n)[1]
             j == F!Nth(B, n)[2] - 1
             k == i + m
             l == j + m
  <2>1. i \in 1 .. Len(b) /\ j \in 1 .. Len(b)
    BY <1>4, <1>9
  <2>2. F!Nth(S, ca + n)[1] = k /\ F!Nth(S, ca + n)[2] - 1 = l
    <3>1. F!Nth(B, n)[2] \in Nat
      BY <1>4, <1>6
    <3> QED BY <1>1, <1>12, <3>1
  <2>3. ca + n \in 1 .. ca + cb
    BY <1>4
  <2>4. z[ca + n] = SubSeq(t, k, l) /\ y[n] = SubSeq(b, i, j)
    BY <1>13, <2>2, <2>3
  <2> HIDE DEF i, j
  <2>5. k \in m + 1 .. m + Len(b) /\ l \in m + 1 .. m + Len(b) /\ k - m = i /\ l - m = j
    BY <1>1, <2>1
  <2> HIDE DEF k, l
  <2>6. SubSeq(t, k, l) = SubSeq(b, k - m, l - m)
    BY <2>5, SubSeqOfConcat2 DEF t
  <2> QED BY <2>4, <2>5, <2>6
<1> DEFINE w == x \o y
<1>16. /\ w \in Seq(Seq(Chars)) /\ Len(w) = ca + cb
       /\ \A n \in 1 .. ca + cb : w[n] = IF n <= ca THEN x[n] ELSE y[n - ca]
  <2>1. x \in Seq(Seq(Chars)) /\ Len(x) = ca /\ y \in Seq(Seq(Chars)) /\ Len(y) = cb
    BY <1>13
  <2> HIDE DEF x, y, ca, cb
  <2> QED BY <2>1, ConcatProperties DEF w
<1> HIDE DEF w
<1>17. ASSUME NEW n \in 1 .. ca + cb PROVE z[n] = w[n]
  <2>1. CASE n <= ca
    BY <1>4, <1>14, <1>16, <2>1
  <2>2. CASE n > ca
    <3>1. n - ca \in 1 .. cb /\ ca + (n - ca) = n
      BY <1>4, <2>2
    <3>2. z[ca + (n - ca)] = y[n - ca]
      BY <1>15, <3>1
    <3> QED BY <1>4, <1>16, <2>2, <3>1, <3>2
  <2> QED BY <1>4, <2>1, <2>2
<1>18. z = w
  BY <1>13, <1>16, <1>17, SeqEqual
<1> QED BY <1>18 DEF z, w, x, y, t

\* A text without a '^' has no command and begins none.
LEMMA NoHat ==
  ASSUME NEW text \in Seq(Chars), \A i \in 1 .. Len(text) : text[i] # F!HAT
  PROVE  F!CommandsIn(text) = <<>> /\ Closed(text)
<1>1. F!Spans(text) = {}
  BY DEF F!Spans
<1>2. Cardinality(F!Spans(text)) = 0
  BY <1>1, FS_EmptySet
<1>3. F!CommandsIn(text) \in Seq(Seq(Chars)) /\ Len(F!CommandsIn(text)) = 0
  BY <1>2, CommandsType
<1> QED BY <1>3, EmptySeq DEF Closed

\* A line that begins with a '^' is one command.
LEMMA OneLine ==
  ASSUME NEW u \in Seq(Chars), Len(u) > 1, u[1] = F!HAT, u[Len(u)] = F!NL,
         \A i \in 1 .. Len(u) - 1 : u[i] # F!NL
  PROVE  F!CommandsIn(u) = <<SubSeq(u, 1, Len(u) - 1)>> /\ Closed(u)
<1> DEFINE S == F!Spans(u)
           n == Len(u)
           p == <<1, n>>
<1>1. n \in Nat /\ n > 1
  BY LenProperties
<1>2. p \in S
  BY <1>1 DEF F!Spans, F!Plain
<1>3. ASSUME NEW q \in S PROVE q = p
  <2> DEFINE i == q[1]
             j == q[2]
  <2>1. /\ i \in 1 .. n /\ j \in 1 .. n /\ i < j /\ u[j] = F!NL /\ q = <<i, j>>
        /\ \A k \in 1 .. i - 1 : u[k] = F!HAT => \E l \in k .. i : u[l] = F!NL
    BY DEF F!Spans, F!Plain
  <2> HIDE DEF i, j
  <2>2. j = n
    BY <1>1, <2>1
  <2>3. i = 1
    <3>1. CASE i > 1
      <4>1. 1 \in 1 .. i - 1
        BY <2>1, <3>1
      <4>2. PICK l \in 1 .. i : u[l] = F!NL
        BY <2>1, <4>1
      <4>3. l \in 1 .. n - 1
        BY <1>1, <2>1, <2>2
      <4> QED BY <4>2, <4>3
    <3> QED BY <2>1, <3>1
  <2> QED BY <2>1, <2>2, <2>3
<1>4. S = {p}
  BY <1>2, <1>3
<1>5. Cardinality(S) = 1
  BY <1>4, FS_Singleton
<1>6. F!Nth(S, 1) = p
  <2>1. OneEach(S)
    BY SpansAreOneEach
  <2> HIDE DEF S
  <2>2. F!Nth(S, 1) \in S
    BY <1>5, <2>1, NthFacts
  <2> QED BY <1>4, <2>2
<1> DEFINE c == F!CommandsIn(u)
           r == SubSeq(u, 1, n - 1)
<1>7. c \in Seq(Seq(Chars)) /\ Len(c) = 1 /\ c[1] = SubSeq(u, F!Nth(S, 1)[1], F!Nth(S, 1)[2] - 1)
  <2>1. 1 \in 1 .. Cardinality(S)
    BY <1>5
  <2> HIDE DEF p, r, n
  <2> QED BY <1>5, <2>1, CommandsType
<1>8. c[1] = r
  <2>1. F!Nth(S, 1)[1] = 1 /\ F!Nth(S, 1)[2] = n
    BY <1>6
  <2> QED BY <1>7, <2>1
<1> HIDE DEF c, S
<1>9. r \in Seq(Chars)
  <2> 1 \in 1 .. n + 1 /\ n - 1 \in 1 - 1 .. n
    BY <1>1
  <2> QED BY Part
<1> HIDE DEF r
<1>10. <<r>> \in Seq(Seq(Chars)) /\ Len(<<r>>) = 1 /\ <<r>>[1] = r
  BY <1>9
<1>11. c = <<r>>
  BY <1>7, <1>8, <1>10, SeqEqual
<1>12. Closed(u)
  BY <1>1 DEF Closed
<1> QED BY <1>11, <1>12 DEF c, r

\* Two closed texts are closed together.
LEMMA ClosedBehind ==
  ASSUME NEW a \in Seq(Chars), NEW b \in Seq(Chars), Closed(a), Closed(b)
  PROVE  Closed(a \o b) /\ a \o b \in Seq(Chars)
<1> DEFINE t == a \o b
           m == Len(a)
           n == Len(b)
<1>1. /\ t \in Seq(Chars) /\ Len(t) = m + n /\ m \in Nat /\ n \in Nat
      /\ \A i \in 1 .. m + n : t[i] = IF i <= m THEN a[i] ELSE b[i - m]
  BY ConcatProperties, LenProperties
<1> HIDE DEF t
<1>2. ASSUME NEW i \in 1 .. m + n, t[i] = F!HAT PROVE \E j \in i .. m + n : t[j] = F!NL
  <2>1. CASE i <= m
    <3>1. PICK j \in i .. m : a[j] = F!NL
      BY <1>1, <1>2, <2>1 DEF Closed
    <3>2. j \in i .. m + n /\ t[j] = F!NL
      BY <1>1, <2>1, <3>1
    <3> QED BY <3>2
  <2>2. CASE i > m
    <3>1. i - m \in 1 .. n /\ b[i - m] = F!HAT
      BY <1>1, <1>2, <2>2
    <3>2. PICK j \in i - m .. n : b[j] = F!NL
      BY <3>1 DEF Closed
    <3>3. j + m \in i .. m + n /\ j + m > m /\ (j + m) - m = j
      BY <1>1, <2>2, <3>1
    <3>4. t[j + m] = b[(j + m) - m]
      <4>1. j + m \in 1 .. m + n /\ ~(j + m <= m)
        BY <1>1, <1>2, <3>3
      <4> QED BY <1>1, <4>1
    <3>5. t[j + m] = F!NL
      BY <3>2, <3>3, <3>4
    <3> QED BY <3>3, <3>5
  <2>3. i <= m \/ i > m
    BY <1>1, <1>2
  <2> QED BY <2>1, <2>2, <2>3
<1> QED BY <1>1, <1>2 DEF Closed, t

\* What the parser drops before a command holds no '^'.
LEMMA Dropped ==
  ASSUME NEW s \in Seq(Chars), need_to_get_new_cmd \in BOOLEAN,
         ~need_to_get_new_cmd => s # <<>>
  PROVE  \E d \in Seq(Chars) : /\ s = d \o F!FromHat(s) /\ F!FromHat(s) \in Seq(Chars)
                              /\ \A i \in 1 .. Len(d) : d[i] # F!HAT
<1> DEFINE n == F!Find(s, F!HAT)
<1>1. Len(s) \in Nat /\ <<>> \in Seq(Chars) /\ Len(<<>>) = 0
  BY LenProperties
<1>2. /\ n \in 0 .. Len(s)
      /\ n # 0 => s[n] = F!HAT /\ \A i \in 1 .. n - 1 : s[i] # F!HAT
      /\ n = 0 => \A i \in 1 .. Len(s) : s[i] # F!HAT
  BY FindFacts
<1> HIDE DEF n
<1>3. CASE ~need_to_get_new_cmd
  <2>1. F!FromHat(s) = s /\ s = <<>> \o s
    BY <1>3, ConcatEmptySeq DEF F!FromHat
  <2>2. \A i \in 1 .. Len(<<>>) : <<>>[i] # F!HAT
    BY <1>1
  <2>3. F!FromHat(s) \in Seq(Chars)
    BY <2>1
  <2> QED BY <1>1, <2>1, <2>2, <2>3
<1>4. CASE need_to_get_new_cmd /\ n = 0
  <2>1. F!FromHat(s) = <<>> /\ s = s \o <<>>
    BY <1>4, ConcatEmptySeq DEF F!FromHat, n
  <2> QED BY <1>1, <1>2, <1>4, <2>1
<1>5. CASE need_to_get_new_cmd /\ n # 0
  <2> DEFINE d == SubSeq(s, 1, n - 1)
             k == n - 1
  <2>1. F!FromHat(s) = SubSeq(s, n, Len(s))
    BY <1>5 DEF F!FromHat, n
  <2>2. /\ 1 \in 1 .. Len(s) + 1 /\ k \in 1 - 1 .. Len(s) /\ Len(s) \in k .. Len(s) /\ k + 1 = n
        /\ n \in 1 .. Len(s) + 1 /\ Len(s) \in n - 1 .. Len(s) /\ k - 1 + 1 = k
    BY <1>1, <1>2, <1>5
  <2> HIDE DEF k
  <2>3. SubSeq(s, 1, k) \o SubSeq(s, k + 1, Len(s)) = SubSeq(s, 1, Len(s))
    BY <2>2, ConcatAdjacentSubSeq
  <2>4. SubSeq(s, 1, Len(s)) = s
    BY SubSeqFull
  <2>5. SubSeq(s, 1, k) \in Seq(Chars) /\ Len(SubSeq(s, 1, k)) = k
        /\ \A i \in 1 .. k : SubSeq(s, 1, k)[i] = s[1 + i - 1]
    BY <2>2, Part
  <2>6. SubSeq(s, n, Len(s)) \in Seq(Chars)
    BY <2>2, Part
  <2>7. d = SubSeq(s, 1, k)
    BY DEF k
  <2> HIDE DEF d
  <2>8. \A i \in 1 .. Len(d) : d[i] # F!HAT
    BY <1>1, <1>2, <1>5, <2>2, <2>5, <2>7
  <2>9. s = d \o SubSeq(s, n, Len(s)) /\ d \in Seq(Chars)
    BY <2>2, <2>3, <2>4, <2>5, <2>7
  <2> QED BY <2>1, <2>6, <2>8, <2>9
<1> QED BY <1>3, <1>4, <1>5
-----------------------------------------------------------------------------
\* As long as every byte got through: what was received and is no longer in req holds
\* exactly the commands that were handed on, and begins none.
Consumed ==
  clean => \E a \in Seq(Chars) : wire = a \o req /\ Closed(a) /\ F!CommandsIn(a) = cmds

\* One pass of the loop: the bytes before the '^' hold no command, the line that is cut
\* off holds one.
LEMMA ReadConsumes ==
  ASSUME F!TypeOK, Consumed, NEW bytes \in Chunks, F!Read(bytes)
  PROVE  Consumed'
<1> SUFFICES ASSUME clean'
             PROVE  \E a \in Seq(Chars) : wire' = a \o req' /\ Closed(a) /\ F!CommandsIn(a) = cmds'
  BY DEF Consumed
<1>1. /\ clean /\ wire' = wire \o bytes
      /\ F!Skip(req \o bytes) \/ F!Collect(req \o bytes) \/ F!Cut(req \o bytes)
  BY DEF F!Read
<1>2. PICK a \in Seq(Chars) : wire = a \o req /\ Closed(a) /\ F!CommandsIn(a) = cmds
  BY <1>1 DEF Consumed
<1>3. /\ req \in Seq(Chars) /\ cmds \in Seq(Seq(Chars)) /\ need_to_get_new_cmd \in BOOLEAN
      /\ ~need_to_get_new_cmd => req # <<>> /\ req[1] = F!HAT
      /\ bytes \in Seq(Chars) /\ Len(bytes) \in Nat \ {0}
  BY UartdAssumption DEF F!TypeOK
<1> DEFINE text == req \o bytes
           t == F!FromHat(text)
<1>4. text \in Seq(Chars) /\ text # <<>> /\ (~need_to_get_new_cmd => text[1] = F!HAT)
  <2>1. /\ text \in Seq(Chars) /\ Len(text) = Len(req) + Len(bytes) /\ Len(req) \in Nat
        /\ \A i \in 1 .. Len(req) + Len(bytes) : text[i] = IF i <= Len(req) THEN req[i] ELSE bytes[i - Len(req)]
    BY <1>3, ConcatProperties, LenProperties
  <2>2. req # <<>> => Len(req) > 0
    BY <1>3, <2>1, EmptySeq
  <2> QED BY <1>3, <2>1, <2>2, EmptySeq
<1>5. wire' = a \o text
  BY <1>1, <1>2, <1>3, ConcatAssociative
<1> HIDE DEF text
<1>6. t \in Seq(Chars) /\ (t # <<>> => t[1] = F!HAT) /\ Len(t) \in Nat
  BY <1>4, FromHatFacts, LenProperties
<1>7. PICK d \in Seq(Chars) : text = d \o t /\ \A i \in 1 .. Len(d) : d[i] # F!HAT
  BY <1>3, <1>4, Dropped
<1> HIDE DEF t
<1> DEFINE b == a \o d
<1>8. b \in Seq(Chars) /\ Closed(b) /\ F!CommandsIn(b) = cmds /\ wire' = b \o t
  <2>1. F!CommandsIn(d) = <<>> /\ Closed(d)
    BY <1>7, NoHat
  <2>2. F!CommandsIn(b) = F!CommandsIn(a) \o F!CommandsIn(d) /\ Closed(b) /\ b \in Seq(Chars)
    <3>1. a \in Seq(Chars) /\ d \in Seq(Chars) /\ Closed(a) /\ Closed(d)
      BY <1>2, <1>7, <2>1
    <3>2. F!CommandsIn(b) = F!CommandsIn(a) \o F!CommandsIn(d)
      BY <3>1, CommandsBehind
    <3>3. Closed(b) /\ b \in Seq(Chars)
      BY <3>1, ClosedBehind
    <3> QED BY <3>2, <3>3
  <2>3. cmds \o <<>> = cmds
    BY <1>3, ConcatEmptySeq
  <2>4. wire' = b \o t
    <3>1. a \o (d \o t) = (a \o d) \o t
      BY <1>6, ConcatAssociative
    <3> QED BY <1>5, <1>7, <3>1
  <2>5. F!CommandsIn(b) = cmds
    BY <1>2, <2>1, <2>2, <2>3
  <2> HIDE DEF b
  <2> QED BY <2>2, <2>4, <2>5
<1> HIDE DEF b
<1>9. CASE F!Skip(text)
  <2>1. t = <<>> /\ req' = <<>> /\ cmds' = cmds
    BY <1>9 DEF F!Skip, t
  <2> QED BY <1>8, <2>1
<1>10. CASE F!Collect(text)
  <2>1. req' = t /\ cmds' = cmds
    BY <1>10 DEF F!Collect, t
  <2> QED BY <1>8, <2>1
<1>11. CASE F!Cut(text)
  <2> DEFINE n == F!Find(t, F!NL)
             k == n - 1
             u == SubSeq(t, 1, n)
             c == SubSeq(t, 1, k)
             r == SubSeq(t, n + 1, Len(t))
  <2>1. n # 0 /\ cmds' = Append(cmds, c) /\ req' = r
    BY <1>11 DEF F!Cut, t
  <2>2. n \in 1 .. Len(t) /\ t[n] = F!NL /\ \A i \in 1 .. n - 1 : t[i] # F!NL
    BY <1>6, <2>1, FindFacts
  <2> HIDE DEF n
  <2>3. t[1] = F!HAT
    BY <1>6, <2>2
  <2>4. n # 1
    BY <2>2, <2>3 DEF F!HAT, F!NL
  <2>5. /\ 1 \in 1 .. Len(t) + 1 /\ n \in 1 - 1 .. Len(t) /\ n - 1 + 1 = n
        /\ n + 1 \in 1 .. Len(t) + 1 /\ Len(t) \in (n + 1) - 1 .. Len(t)
        /\ n \in 1 - 1 .. Len(t) /\ Len(t) \in n .. Len(t) /\ n > 1
    BY <1>6, <2>2, <2>4
  <2>6. u \in Seq(Chars) /\ Len(u) = n /\ \A i \in 1 .. n : u[i] = t[1 + i - 1]
    BY <1>6, <2>5, Part
  <2>7. r \in Seq(Chars)
    BY <1>6, <2>5, Part
  <2>8. t = u \o r
    <3>1. SubSeq(t, 1, n) \o SubSeq(t, n + 1, Len(t)) = SubSeq(t, 1, Len(t))
      BY <1>6, <2>5, ConcatAdjacentSubSeq
    <3>2. SubSeq(t, 1, Len(t)) = t
      BY <1>6, SubSeqFull
    <3> QED BY <3>1, <3>2
  <2>9. k \in 0 .. n /\ k \in 0 .. Len(t) /\ n = k + 1
    BY <1>6, <2>5
  <2>10. c = SubSeq(u, 1, k)
    <3>1. SubSeq(t, 1, k) \in Seq(Chars) /\ Len(SubSeq(t, 1, k)) = k - 1 + 1
          /\ \A i \in 1 .. k - 1 + 1 : SubSeq(t, 1, k)[i] = t[1 + i - 1]
      <4> 1 \in 1 .. Len(t) + 1 /\ k \in 1 - 1 .. Len(t)
        BY <2>5, <2>9
      <4> HIDE DEF k
      <4> QED BY <1>6, Part
    <3>2. SubSeq(u, 1, k) \in Seq(Chars) /\ Len(SubSeq(u, 1, k)) = k - 1 + 1
          /\ \A i \in 1 .. k - 1 + 1 : SubSeq(u, 1, k)[i] = u[1 + i - 1]
      <4> 1 \in 1 .. Len(u) + 1 /\ k \in 1 - 1 .. Len(u)
        BY <2>5, <2>6, <2>9
      <4> HIDE DEF k, u
      <4> QED BY <2>6, Part
    <3> DEFINE x == SubSeq(t, 1, k)
               y == SubSeq(u, 1, k)
    <3>3. ASSUME NEW i \in 1 .. k PROVE x[i] = y[i]
      <4>1. i \in 1 .. k - 1 + 1 /\ i \in 1 .. n /\ 1 + i - 1 = i
        BY <2>5, <2>9
      <4> HIDE DEF k, u
      <4> QED BY <2>6, <3>1, <3>2, <4>1
    <3>4. Len(x) = k /\ Len(y) = k /\ x \in Seq(Chars) /\ y \in Seq(Chars)
      BY <2>5, <3>1, <3>2
    <3> HIDE DEF x, y, k, u
    <3>5. x = y
      BY <3>3, <3>4, SeqEqual
    <3> QED BY <3>5 DEF x, y
  <2> HIDE DEF u, r, c
  <2>11. u[1] = F!HAT /\ u[Len(u)] = F!NL /\ Len(u) > 1
    <3>1. 1 \in 1 .. n /\ n \in 1 .. n /\ 1 + 1 - 1 = 1 /\ 1 + n - 1 = n
      BY <2>5
    <3> QED BY <2>2, <2>3, <2>5, <2>6, <3>1
  <2>12. \A i \in 1 .. Len(u) - 1 : u[i] # F!NL
    <3> SUFFICES ASSUME NEW i \in 1 .. n - 1 PROVE u[i] # F!NL
      BY <2>6
    <3>1. i \in 1 .. n /\ 1 + i - 1 = i
      BY <2>5
    <3> QED BY <2>2, <2>6, <3>1
  <2>13. F!CommandsIn(u) = <<c>> /\ Closed(u)
    <3>1. Len(u) - 1 = k
      BY <2>6
    <3>2. F!CommandsIn(u) = <<SubSeq(u, 1, Len(u) - 1)>> /\ Closed(u)
      BY <2>6, <2>11, <2>12, OneLine
    <3> QED BY <2>10, <3>1, <3>2
  <2> DEFINE e == b \o u
  <2>14. F!CommandsIn(e) = cmds \o <<c>> /\ Closed(e) /\ e \in Seq(Chars)
    <3>1. u \in Seq(Chars) /\ b \in Seq(Chars) /\ Closed(b) /\ Closed(u)
      BY <1>8, <2>6, <2>13
    <3>2. F!CommandsIn(b \o u) = F!CommandsIn(b) \o F!CommandsIn(u)
      BY <3>1, CommandsBehind
    <3>3. Closed(b \o u) /\ b \o u \in Seq(Chars)
      BY <3>1, ClosedBehind
    <3> QED BY <1>8, <2>13, <3>2, <3>3
  <2>15. cmds \o <<c>> = Append(cmds, c)
    <3>1. c \in Seq(Chars)
      <4> 1 \in 1 .. Len(t) + 1 /\ k \in 1 - 1 .. Len(t)
        BY <2>5, <2>9
      <4> HIDE DEF k
      <4> QED BY <1>6, Part DEF c
    <3> QED BY <1>3, <3>1, AppendIsConcat
  <2> HIDE DEF e
  <2>16. wire' = e \o r
    <3>1. b \in Seq(Chars) /\ wire' = b \o t
      BY <1>8
    <3>2. b \o (u \o r) = (b \o u) \o r
      <4>1. b \in Seq(Chars) /\ u \in Seq(Chars) /\ r \in Seq(Chars)
        BY <2>6, <2>7, <3>1
      <4> QED BY <4>1, ConcatAssociative, SMTT(30)
    <3> QED BY <2>8, <3>1, <3>2 DEF e
  <2> QED BY <2>1, <2>14, <2>15, <2>16
<1> QED BY <1>1, <1>9, <1>10, <1>11 DEF text

\* However read() splits the line: what the parser handed on and what waits in req are
\* the commands received, each of them once, whole and in order.
THEOREM EveryCommandOnce == Spec => []NoCommandLost
<1>1. Init => Consumed
  <2> SUFFICES ASSUME Init PROVE Consumed
    OBVIOUS
  <2>1. req = <<>> /\ cmds = <<>> /\ wire = <<>>
    BY DEF Init, F!Init
  <2>2. <<>> \in Seq(Chars) /\ Len(<<>>) = 0
    OBVIOUS
  <2> <<>> = <<>> \o <<>>
    OBVIOUS
  <2> DEFINE a == <<>>
  <2>3. a \in Seq(Chars) /\ \A i \in 1 .. Len(a) : a[i] # F!HAT
    BY <2>2
  <2> HIDE DEF a
  <2>4. F!CommandsIn(a) = <<>> /\ Closed(a)
    BY <2>3, NoHat
  <2>5. wire = a \o req /\ cmds = <<>>
    BY <2>1, <2>2 DEF a
  <2> QED BY <2>3, <2>4, <2>5, <2>2, <2>3 DEF Consumed
<1>2. IInv /\ Consumed /\ [Next]_vars => Consumed'
  <2> SUFFICES ASSUME IInv, Consumed, [Next]_vars PROVE Consumed'
    OBVIOUS
  <2>1. ASSUME NEW bytes \in Chunks, Read(bytes) PROVE Consumed'
    BY <2>1, ReadConsumes DEF IInv, TypeOK, Read
  <2>2. CASE UNCHANGED fvars
    BY <2>2 DEF fvars, Consumed
  <2>3. (\E bytes \in Chunks : Read(bytes)) \/ UNCHANGED fvars
    BY DEF Next, Parser, Writer, vars, ReadNotify, Tty, TtyNotify, SpuriousWakeup, ParseTake, ParseWait,
           Reply, NoReply, ParseNotify, WriteTake, WriteWait, Write
  <2> QED BY <2>1, <2>2, <2>3
<1>3. IInv /\ Consumed => NoCommandLost
  <2> SUFFICES ASSUME IInv, Consumed PROVE NoCommandLost
    OBVIOUS
  <2>1. ASSUME clean PROVE F!CommandsIn(wire) = cmds \o F!CommandsIn(req)
    <3>1. PICK a \in Seq(Chars) : wire = a \o req /\ Closed(a) /\ F!CommandsIn(a) = cmds
      BY <2>1 DEF Consumed
    <3>2. req \in Seq(Chars)
      BY DEF IInv, TypeOK, F!TypeOK
    <3> QED BY <3>1, <3>2, CommandsBehind
  <2> QED BY <2>1 DEF NoCommandLost, F!NoCommandLost, IInv
<1> QED BY <1>1, <1>2, <1>3, Start, Inductive, PTL DEF Spec

\* A text that holds a command still holds its newline once the bytes before the first
\* '^' are dropped: the pass hands on a command.
LEMMA Delivers ==
  ASSUME F!TypeOK, NEW bytes \in Chunks, F!Read(bytes), clean', F!CommandsIn(req \o bytes) # <<>>
  PROVE  Len(cmds') = Len(cmds) + 1
<1> DEFINE text == req \o bytes
           t == F!FromHat(text)
<1>1. F!Skip(text) \/ F!Collect(text) \/ F!Cut(text)
  BY DEF F!Read
<1>2. /\ req \in Seq(Chars) /\ cmds \in Seq(Seq(Chars)) /\ need_to_get_new_cmd \in BOOLEAN
      /\ ~need_to_get_new_cmd => req # <<>> /\ req[1] = F!HAT
      /\ bytes \in Seq(Chars) /\ Len(bytes) \in Nat \ {0}
  BY UartdAssumption DEF F!TypeOK
<1>3. text \in Seq(Chars) /\ text # <<>> /\ (~need_to_get_new_cmd => text[1] = F!HAT)
  <2>1. /\ text \in Seq(Chars) /\ Len(text) = Len(req) + Len(bytes) /\ Len(req) \in Nat
        /\ \A i \in 1 .. Len(req) + Len(bytes) : text[i] = IF i <= Len(req) THEN req[i] ELSE bytes[i - Len(req)]
    BY <1>2, ConcatProperties, LenProperties
  <2>2. req # <<>> => Len(req) > 0
    BY <1>2, <2>1, EmptySeq
  <2> QED BY <1>2, <2>1, <2>2, EmptySeq
<1>4. PICK p \in F!Spans(text) : TRUE
  <2>1. CASE F!Spans(text) = {}
    <3>1. Cardinality(F!Spans(text)) = 0
      BY <2>1, FS_EmptySet
    <3>2. F!CommandsIn(text) \in Seq(Seq(Chars)) /\ Len(F!CommandsIn(text)) = 0
      BY <1>3, <3>1, CommandsType
    <3> QED BY <3>2, EmptySeq
  <2> QED BY <2>1
<1> HIDE DEF text
<1>5. /\ p[1] \in 1 .. Len(text) /\ p[2] \in 1 .. Len(text) /\ p[1] < p[2]
      /\ text[p[1]] = F!HAT /\ text[p[2]] = F!NL /\ Len(text) \in Nat
  BY <1>3, LenProperties DEF F!Spans
<1>6. PICK d \in Seq(Chars) : text = d \o t /\ t \in Seq(Chars) /\ \A i \in 1 .. Len(d) : d[i] # F!HAT
  BY <1>2, <1>3, Dropped
<1> HIDE DEF t
<1>7. /\ Len(text) = Len(d) + Len(t) /\ Len(d) \in Nat /\ Len(t) \in Nat
      /\ \A i \in 1 .. Len(d) + Len(t) : text[i] = IF i <= Len(d) THEN d[i] ELSE t[i - Len(d)]
  BY <1>6, ConcatProperties, LenProperties
<1>8. F!Find(t, F!NL) # 0
  <2>1. p[1] > Len(d)
    BY <1>5, <1>6, <1>7
  <2> DEFINE j == p[2] - Len(d)
  <2>2. j \in 1 .. Len(t) /\ t[j] = F!NL
    BY <1>5, <1>7, <2>1
  <2> QED BY <1>6, <2>2, FindFacts
<1>9. t # <<>>
  <2>1. F!Find(t, F!NL) \in 0 .. Len(t)
    BY <1>6, FindFacts
  <2>2. Len(t) # 0
    BY <1>7, <1>8, <2>1
  <2> QED BY <2>2
<1>10. F!Cut(text)
  BY <1>1, <1>8, <1>9 DEF F!Skip, F!Collect, t
<1> DEFINE n == F!Find(t, F!NL)
           c == SubSeq(t, 1, n - 1)
<1>11. n # 0 /\ cmds' = Append(cmds, c)
  BY <1>10 DEF F!Cut, t
<1>12. n \in 1 .. Len(t)
  BY <1>6, <1>11, FindFacts
<1> HIDE DEF n
<1>13. c \in Seq(Chars)
  <2> 1 \in 1 .. Len(t) + 1 /\ n - 1 \in 1 - 1 .. Len(t)
    BY <1>7, <1>12
  <2> QED BY <1>6, Part
<1> HIDE DEF c
<1> QED BY <1>2, <1>11, <1>13, AppendProperties

\* A command that waits behind another needs further bytes and no particular ones:
\* every read that leaves a whole command in req takes one out.
THEOREM NoReadIsIdle == Spec => F!EveryReadDelivers
<1>1. IInv /\ [Next]_vars
        => [clean' /\ F!CommandsIn(req \o SubSeq(wire', Len(wire) + 1, Len(wire'))) # <<>>
              => Len(cmds') = Len(cmds) + 1]_F!vars
  <2> SUFFICES ASSUME IInv, [Next]_vars, clean',
                      F!CommandsIn(req \o SubSeq(wire', Len(wire) + 1, Len(wire'))) # <<>>
               PROVE  Len(cmds') = Len(cmds) + 1 \/ UNCHANGED F!vars
    OBVIOUS
  <2>1. ASSUME NEW bytes \in Chunks, Read(bytes) PROVE Len(cmds') = Len(cmds) + 1
    <3>1. F!TypeOK /\ F!Read(bytes) /\ wire' = wire \o bytes /\ wire \in Seq(Chars) /\ bytes \in Seq(Chars)
      BY <2>1, UartdAssumption DEF IInv, TypeOK, Read, F!Read, F!TypeOK
    <3> DEFINE m == Len(wire) + 1
               x == SubSeq(wire', m, Len(wire'))
    <3>2. /\ Len(wire') = Len(wire) + Len(bytes) /\ Len(wire) \in Nat /\ Len(bytes) \in Nat /\ wire' \in Seq(Chars)
          /\ \A i \in 1 .. Len(wire) + Len(bytes) : wire'[i] = IF i <= Len(wire) THEN wire[i] ELSE bytes[i - Len(wire)]
      BY <3>1, ConcatProperties, LenProperties
    <3>3. /\ m \in 1 .. Len(wire') + 1 /\ Len(wire') \in m - 1 .. Len(wire') /\ Len(wire') - m + 1 = Len(bytes)
          /\ m = Len(wire) + 1
      BY <3>2
    <3> HIDE DEF m
    <3>4. /\ x \in Seq(Chars) /\ Len(x) = Len(wire') - m + 1
          /\ \A i \in 1 .. Len(wire') - m + 1 : x[i] = wire'[m + i - 1]
      BY <3>2, <3>3, Part
    <3> HIDE DEF x
    <3>5. ASSUME NEW i \in 1 .. Len(bytes) PROVE x[i] = bytes[i]
      <4> DEFINE j == m + i - 1
      <4>1. j \in 1 .. Len(wire) + Len(bytes) /\ ~(j <= Len(wire)) /\ j - Len(wire) = i
        BY <3>2, <3>3
      <4>2. x[i] = wire'[j]
        BY <3>3, <3>4
      <4> HIDE DEF j
      <4> QED BY <3>2, <4>1, <4>2
    <3>6. x = bytes
      BY <3>1, <3>3, <3>4, <3>5, SeqEqual
    <3>7. F!CommandsIn(req \o bytes) # <<>>
      BY <3>6 DEF x, m
    <3> QED BY <3>1, <3>7, Delivers
  <2>2. (\E bytes \in Chunks : Read(bytes)) \/ UNCHANGED fvars
    BY DEF Next, Parser, Writer, vars, ReadNotify, Tty, TtyNotify, SpuriousWakeup, ParseTake, ParseWait,
           Reply, NoReply, ParseNotify, WriteTake, WriteWait, Write
  <2> QED BY <2>1, <2>2 DEF fvars, F!vars
<1> QED BY <1>1, Start, Inductive, PTL DEF Spec, F!EveryReadDelivers
=============================================================================
