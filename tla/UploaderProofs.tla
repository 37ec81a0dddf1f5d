---------------------------- MODULE UploaderProofs ----------------------------
(***************************************************************************)
(* Proofs about Uploader, for any items, capacity, length of the history   *)
(* and number of reloads: each item is taken once (TaskPool), the file is  *)
(* the history when nothing is pending, the history holds the last links,  *)
(* and a worker that panicked is never replaced.                           *)
(***************************************************************************)
EXTENDS Uploader, SequenceTheorems, TLAPS

(***************************************************************************)
(* Facts about sequences.                                                  *)
(***************************************************************************)
LEMMA TrimmedInSeq ==
  ASSUME NEW h \in Seq(Items)
  PROVE  /\ Trimmed(h) \in Seq(Items)
         /\ HistoryMax > 0 => Len(Trimmed(h)) <= HistoryMax
         /\ (HistoryMax > 0 => Len(h) <= HistoryMax) => Trimmed(h) = h
BY ConstantsAssumption, SMTT(30) DEF Trimmed

LEMMA HeadGoesOver ==
  ASSUME NEW r \in Seq(Items), NEW q \in Seq(Items), q # <<>>
  PROVE  Append(r, Head(q)) \o Tail(q) = r \o q
BY SMTT(30)

LEMMA AppendGoesOver ==
  ASSUME NEW r \in Seq(Items), NEW q \in Seq(Items), NEW i \in Items
  PROVE  r \o Append(q, i) = Append(r \o q, i)
BY SMTT(30)

(***************************************************************************)
(* Types: a worker that uploads or adds a link holds an item.              *)
(***************************************************************************)
TInv == TypeOK /\ \A i \in Items : pc[i] \in {"upload", "append", "appendw"} => cur[i] \in Items

LEMMA InitTInv == Init => TInv
<1> SUFFICES ASSUME Init PROVE TInv
  OBVIOUS
<1>1. /\ queue \in Seq(Items) /\ history \in Seq(Items) /\ file \in Seq(Items)
      /\ linked \in Seq(Items) /\ sent \in Seq(Items) /\ received \in Seq(Items)
      /\ Len(queue) = 0
  BY DEF Init
<1>2. /\ pc \in [Items -> Locations] /\ cur \in [Items -> Items \cup {Idle}]
      /\ reg \in [Items -> Seq(Items)]
      /\ \A i \in Items : pc[i] \notin {"upload", "append", "appendw"}
  BY DEF Init, Locations
<1>3. active \in BOOLEAN /\ raced \in BOOLEAN /\ reload = "no" /\ reloads \in Nat
  BY DEF Init
<1>4. QED
  BY <1>1, <1>2, <1>3, ConstantsAssumption DEF TInv, TypeOK

LEMMA NextTInv == TInv /\ [Next]_vars => TInv'
<1> SUFFICES ASSUME TInv, [Next]_vars PROVE TInv'
  OBVIOUS
<1> USE ConstantsAssumption DEF TInv, TypeOK, Locations, Working, Goto, ReloadAt, hist, chanVars
<1>1. ASSUME NEW i \in Items, Drop(i) PROVE TInv'
  BY <1>1 DEF Drop
<1>2. ASSUME NEW i \in Items, Step(i) PROVE TInv'
  <2>1. CASE Send(i)        BY <2>1 DEF Send
  <2>2. CASE TestActive(i)  BY <2>2 DEF TestActive
  <2>3. CASE SetActive(i)   BY <2>3 DEF SetActive
  <2>4. CASE Loop(i)        BY <2>4 DEF Loop
  <2>5. CASE Receive(i)     BY <2>5 DEF Receive
  <2>6. CASE Upload(i)      BY <2>6 DEF Upload
  <2>7. CASE AddHistory(i)
    <3>1. Append(history, cur[i]) \in Seq(Items)
      BY <2>7 DEF AddHistory
    <3>2. reg' \in [Items -> Seq(Items)]
      BY <2>7, <3>1 DEF AddHistory
    <3>3. QED BY <2>7, <3>2 DEF AddHistory
  <2>8. CASE AddHistoryWrite(i)
    <3>1. Append(linked, cur[i]) \in Seq(Items) /\ <<>> \in Seq(Items)
      BY <2>8 DEF AddHistoryWrite
    <3>2. history' \in Seq(Items) /\ linked' \in Seq(Items) /\ reg' \in [Items -> Seq(Items)]
      BY <2>8, <3>1 DEF AddHistoryWrite
    <3>3. QED BY <2>8, <3>2 DEF AddHistoryWrite
  <2>9. CASE TrimHistory(i) BY <2>9, TrimmedInSeq DEF TrimHistory
  <2>10. CASE SaveHistory(i) BY <2>10 DEF SaveHistory
  <2>11. CASE Post(i)       BY <2>11 DEF Post
  <2>12. QED
    BY <1>2, <2>1, <2>2, <2>3, <2>4, <2>5, <2>6, <2>7, <2>8, <2>9, <2>10, <2>11 DEF Step
<1>3. CASE ReloadClear      BY <1>3 DEF ReloadClear
<1>4. CASE ReloadRead       BY <1>4 DEF ReloadRead
<1>5. CASE ReloadTrim       BY <1>5, TrimmedInSeq DEF ReloadTrim
<1>6. CASE UNCHANGED vars   BY <1>6 DEF vars
<1>7. QED BY <1>1, <1>2, <1>3, <1>4, <1>5, <1>6 DEF Next

(***************************************************************************)
(* The channel. An item is sent by its own goroutine, once: what was sent  *)
(* has no double, so what is received was never received before.           *)
(***************************************************************************)
ReceivedInOrder == received \o queue = sent
SentOnce ==
  /\ \A n \in DOMAIN sent : pc[sent[n]] \notin {"off", "send"}
  /\ \A m, n \in DOMAIN sent : sent[m] = sent[n] => m = n

LEMMA NextReceived == TInv /\ ReceivedInOrder /\ [Next]_vars => ReceivedInOrder'
<1> SUFFICES ASSUME TInv, ReceivedInOrder, [Next]_vars PROVE ReceivedInOrder'
  OBVIOUS
<1> USE DEF TInv, TypeOK, ReceivedInOrder, hist, chanVars
<1>1. ASSUME NEW i \in Items, Send(i) PROVE ReceivedInOrder'
  BY <1>1, AppendGoesOver DEF Send
<1>2. ASSUME NEW i \in Items, Receive(i) PROVE ReceivedInOrder'
  BY <1>2, HeadGoesOver DEF Receive
<1>3. CASE UNCHANGED <<queue, sent, received>>
  BY <1>3
<1>4. ASSUME NEW i \in Items, Drop(i) \/ Step(i)
      PROVE  Send(i) \/ Receive(i) \/ UNCHANGED <<queue, sent, received>>
  BY <1>4 DEF Drop, Step, TestActive, SetActive, Loop, Upload, AddHistory, AddHistoryWrite,
     TrimHistory, SaveHistory, Post
<1>5. QED
  BY <1>1, <1>2, <1>3, <1>4 DEF Next, vars, ReloadClear, ReloadRead, ReloadTrim

LEMMA NextSentOnce == TInv /\ SentOnce /\ [Next]_vars => SentOnce'
<1> SUFFICES ASSUME TInv, SentOnce, [Next]_vars PROVE SentOnce'
  OBVIOUS
<1> USE DEF TInv, TypeOK, hist, chanVars, Goto
<1>1. ASSUME NEW i \in Items, Send(i) PROVE SentOnce'
  <2>1. \A n \in DOMAIN sent : sent[n] # i
    BY <1>1 DEF SentOnce, Send
  <2>2. /\ sent' = Append(sent, i) /\ pc' = [pc EXCEPT ![i] = "test"]
    BY <1>1 DEF Send
  <2>3. /\ DOMAIN sent' = 1..(Len(sent) + 1) /\ DOMAIN sent = 1..Len(sent)
        /\ sent'[Len(sent) + 1] = i /\ \A n \in DOMAIN sent : sent'[n] = sent[n] /\ sent[n] \in Items
        /\ Len(sent) \in Nat
    BY <2>2
  <2>4. \A n \in DOMAIN sent' : n \in DOMAIN sent \/ n = Len(sent) + 1
    <3> DEFINE L == Len(sent)
    <3>1. L \in Nat /\ DOMAIN sent' = 1..(L + 1) /\ DOMAIN sent = 1..L
      BY <2>3
    <3> HIDE DEF L
    <3>2. \A n \in 1..(L + 1) : n \in 1..L \/ n = L + 1
      BY <3>1
    <3>3. QED BY <3>1, <3>2 DEF L
  <2>5. \A n \in DOMAIN sent' : pc'[sent'[n]] \notin {"off", "send"}
    <3> TAKE n \in DOMAIN sent'
    <3>1. CASE n \in DOMAIN sent
      BY <2>1, <2>2, <2>3, <3>1 DEF SentOnce
    <3>2. CASE n = Len(sent) + 1
      BY <2>2, <2>3, <3>2
    <3>3. QED BY <2>4, <3>1, <3>2
  <2>6. ASSUME NEW m \in DOMAIN sent', NEW n \in DOMAIN sent', sent'[m] = sent'[n]
        PROVE  m = n
    <3>1. CASE m \in DOMAIN sent /\ n \in DOMAIN sent
      <4>1. sent[m] = sent[n]
        BY <2>3, <2>6, <3>1
      <4>2. QED BY <3>1, <4>1 DEF SentOnce
    <3>2. CASE m \in DOMAIN sent /\ n = Len(sent) + 1
      BY <2>1, <2>3, <2>6, <3>2
    <3>3. CASE m = Len(sent) + 1 /\ n \in DOMAIN sent
      BY <2>1, <2>3, <2>6, <3>3
    <3>4. CASE m = Len(sent) + 1 /\ n = Len(sent) + 1
      BY <3>4
    <3>5. QED BY <2>4, <3>1, <3>2, <3>3, <3>4
  <2>7. QED
    BY <2>5, <2>6 DEF SentOnce
<1>2. CASE sent' = sent /\ \A j \in Items : pc[j] \notin {"off", "send"} => pc'[j] \notin {"off", "send"}
  BY <1>2 DEF SentOnce
<1>3. ASSUME NEW i \in Items, Drop(i) \/ Step(i)
      PROVE  Send(i) \/ (sent' = sent /\ \A j \in Items : pc[j] \notin {"off", "send"} => pc'[j] \notin {"off", "send"})
  BY <1>3 DEF Drop, Step, TestActive, SetActive, Loop, Receive, Upload, AddHistory, AddHistoryWrite,
     TrimHistory, SaveHistory, Post
<1>4. QED
  BY <1>1, <1>2, <1>3 DEF Next, vars, ReloadClear, ReloadRead, ReloadTrim

LEMMA Channel == Spec => [](TInv /\ ReceivedInOrder /\ SentOnce)
<1>1. Init => ReceivedInOrder /\ SentOnce
  BY DEF Init, ReceivedInOrder, SentOnce
<1>2. QED
  BY <1>1, InitTInv, NextTInv, NextReceived, NextSentOnce, PTL DEF Spec

(***************************************************************************)
(* The uploader implements TaskPool: pending items are those in the        *)
(* channel, taken ones those that were received.                           *)
(***************************************************************************)
LEMMA Halves ==
  ASSUME NEW r \in Seq(Items), NEW q \in Seq(Items)
  PROVE  /\ Len(r) \in Nat /\ Len(q) \in Nat /\ DOMAIN r = 1..Len(r) /\ DOMAIN q = 1..Len(q)
         /\ DOMAIN (r \o q) = 1..(Len(r) + Len(q))
         /\ \A m \in DOMAIN r : m \in DOMAIN (r \o q) /\ (r \o q)[m] = r[m]
         /\ \A n \in DOMAIN q : Len(r) + n \in DOMAIN (r \o q) /\ (r \o q)[Len(r) + n] = q[n]
OBVIOUS

\* Two halves of what was sent have no item in common.
LEMMA HalvesAreApart ==
  ASSUME NEW r \in Seq(Items), NEW q \in Seq(Items), NEW s, s = r \o q,
         \A m, n \in DOMAIN s : s[m] = s[n] => m = n
  PROVE  /\ \A m, n \in DOMAIN q : q[m] = q[n] => m = n
         /\ \A m \in DOMAIN r, n \in DOMAIN q : r[m] # q[n]
<1>1. /\ Len(r) \in Nat /\ DOMAIN r = 1..Len(r) /\ DOMAIN q = 1..Len(q)
      /\ \A m \in DOMAIN r : m \in DOMAIN s /\ s[m] = r[m]
      /\ \A n \in DOMAIN q : Len(r) + n \in DOMAIN s /\ s[Len(r) + n] = q[n]
  BY Halves
<1>2. ASSUME NEW m \in DOMAIN q, NEW n \in DOMAIN q, q[m] = q[n] PROVE m = n
  <2>1. Len(r) + m \in DOMAIN s /\ Len(r) + n \in DOMAIN s /\ s[Len(r) + m] = s[Len(r) + n]
    BY <1>1, <1>2
  <2>2. QED BY <1>1, <2>1
<1>3. ASSUME NEW m \in DOMAIN r, NEW n \in DOMAIN q, r[m] = q[n] PROVE FALSE
  <2>1. m \in DOMAIN s /\ Len(r) + n \in DOMAIN s /\ s[m] = s[Len(r) + n] /\ m # Len(r) + n
    BY <1>1, <1>3
  <2>2. QED BY <2>1
<1>4. QED BY <1>2, <1>3

LEMMA SetOfAppend ==
  ASSUME NEW q \in Seq(Items), NEW i \in Items
  PROVE  ToSet(Append(q, i)) = ToSet(q) \cup {i}
<1>1. /\ DOMAIN Append(q, i) = 1..(Len(q) + 1) /\ DOMAIN q = 1..Len(q) /\ Len(q) \in Nat
      /\ Append(q, i)[Len(q) + 1] = i /\ \A n \in 1..Len(q) : Append(q, i)[n] = q[n]
  OBVIOUS
<1> DEFINE L == Len(q)
<1>2. \A n \in 1..(L + 1) : n \in 1..L \/ n = L + 1
  BY <1>1
<1>3. \A n \in 1..L : n \in 1..(L + 1)
  BY <1>1
<1>4. L + 1 \in 1..(L + 1)
  BY <1>1
<1> HIDE DEF L
<1>5. QED BY <1>1, <1>2, <1>3, <1>4 DEF ToSet, L

LEMMA SetOfTail ==
  ASSUME NEW q \in Seq(Items), q # <<>>, \A m, n \in DOMAIN q : q[m] = q[n] => m = n
  PROVE  /\ Head(q) \in ToSet(q)
         /\ ToSet(Tail(q)) = ToSet(q) \ {Head(q)}
<1>1. /\ Len(q) \in Nat \ {0} /\ DOMAIN q = 1..Len(q) /\ Head(q) = q[1] /\ DOMAIN Tail(q) = 1..(Len(q) - 1)
      /\ \A n \in 1..(Len(q) - 1) : Tail(q)[n] = q[n + 1]
  OBVIOUS
<1>2. ASSUME NEW x \in ToSet(Tail(q)) PROVE x \in ToSet(q) \ {Head(q)}
  <2>1. PICK n \in DOMAIN Tail(q) : x = Tail(q)[n]
    BY DEF ToSet
  <2>2. n + 1 \in DOMAIN q /\ 1 \in DOMAIN q /\ n + 1 # 1 /\ x = q[n + 1]
    BY <1>1, <2>1
  <2>3. q[n + 1] # q[1]
    BY <2>2
  <2>4. QED BY <1>1, <2>2, <2>3 DEF ToSet
<1>3. ASSUME NEW x \in ToSet(q), x # Head(q) PROVE x \in ToSet(Tail(q))
  <2>1. PICK n \in DOMAIN q : x = q[n]
    BY DEF ToSet
  <2>2. n - 1 \in 1..(Len(q) - 1) /\ n = (n - 1) + 1
    BY <1>1, <1>3, <2>1
  <2>3. Tail(q)[n - 1] = q[n]
    BY <1>1, <2>2
  <2>4. QED BY <1>1, <2>1, <2>2, <2>3 DEF ToSet
<1>4. Head(q) \in ToSet(q)
  BY <1>1 DEF ToSet
<1>5. QED BY <1>2, <1>3, <1>4

LEMMA InitPool == Init => Pool!Init
BY DEF Init, Pool!Init, ToSet

LEMMA StepPool ==
  ASSUME TInv, ReceivedInOrder, SentOnce, [Next]_vars
  PROVE  [Pool!Next]_<<ToSet(queue), ToSet(received)>>
<1> USE DEF hist, chanVars
<1>0. queue \in Seq(Items) /\ received \in Seq(Items)
  BY DEF TInv, TypeOK
<1>1. ASSUME NEW i \in Items, Send(i) PROVE Pool!Submit(i)
  <2>1. queue' = Append(queue, i) /\ received' = received /\ pc[i] = "send"
    BY <1>1 DEF Send
  <2>2. \A n \in DOMAIN sent : sent[n] # i
    BY <2>1 DEF SentOnce
  <2>3. i \notin ToSet(queue) \cup ToSet(received)
    <3>1. /\ \A n \in DOMAIN received : n \in DOMAIN sent /\ sent[n] = received[n]
          /\ \A n \in DOMAIN queue : Len(received) + n \in DOMAIN sent /\ sent[Len(received) + n] = queue[n]
      BY <1>0, Halves DEF ReceivedInOrder
    <3>2. \A n \in DOMAIN received : received[n] # i
      BY <2>2, <3>1
    <3>3. \A n \in DOMAIN queue : queue[n] # i
      BY <2>2, <3>1
    <3>4. QED BY <3>2, <3>3 DEF ToSet
  <2>4. QED BY <1>0, <2>1, <2>3, SetOfAppend DEF Pool!Submit
<1>2. ASSUME NEW i \in Items, Receive(i) PROVE \E t \in Items : Pool!Take(t)
  <2>1. /\ queue # <<>> /\ queue' = Tail(queue) /\ received' = Append(received, Head(queue))
    BY <1>2 DEF Receive
  <2>2. Head(queue) \in Items
    BY <1>0, <2>1
  <2>3. \A m, n \in DOMAIN queue : queue[m] = queue[n] => m = n
    BY <1>0, HalvesAreApart DEF ReceivedInOrder, SentOnce
  <2>4. Pool!Take(Head(queue))
    BY <1>0, <2>1, <2>2, <2>3, SetOfTail, SetOfAppend DEF Pool!Take
  <2>5. QED BY <2>2, <2>4
<1>3. CASE UNCHANGED <<queue, received>>
  BY <1>3
<1>4. ASSUME NEW i \in Items, Drop(i) \/ Step(i)
      PROVE  Send(i) \/ Receive(i) \/ UNCHANGED <<queue, received>>
  BY <1>4 DEF Drop, Step, TestActive, SetActive, Loop, Upload, AddHistory, AddHistoryWrite,
     TrimHistory, SaveHistory, Post
<1>5. QED
  BY <1>1, <1>2, <1>3, <1>4 DEF Next, vars, ReloadClear, ReloadRead, ReloadTrim, Pool!Next

\* Every item is taken from the channel at most once, and only when it was sent.
THEOREM ImplementsTaskPool == Spec => TakenOnce
<1>1. TInv /\ ReceivedInOrder /\ SentOnce /\ [Next]_vars => [Pool!Next]_<<ToSet(queue), ToSet(received)>>
  BY StepPool
<1>2. QED
  BY <1>1, InitPool, Channel, PTL DEF Spec, TakenOnce, Pool!Spec

(***************************************************************************)
(* History and file. As long as no updates of the list overlap, a worker   *)
(* writes back what it read and one link more, and a reload, which finds   *)
(* nothing pending, reads what it cleared. What the history holds, or will *)
(* hold when a worker or a reload has trimmed it, are the last links.      *)
(***************************************************************************)
Short(h) == HistoryMax > 0 => Len(h) <= HistoryMax
Ends(h, l) == \E p \in Seq(Items) : l = p \o h
Kept(h, l) ==
  /\ Ends(h, l)
  /\ Len(h) = IF HistoryMax = 0 \/ Len(l) <= HistoryMax THEN Len(l) ELSE HistoryMax
Pending == \E i \in Items : pc[i] \in {"trim", "save"}
FInv ==
  ~raced =>
    /\ ~Races(pc, reload)
    /\ \A i \in Items : pc[i] = "appendw" => reg[i] = Append(history, cur[i])
    /\ (\A i \in Items : pc[i] # "trim") => Short(history)
    /\ Kept(Trimmed(IF reload = "read" THEN file ELSE history), linked)
    /\ reload = "no" /\ ~Pending => file = history
    /\ reload = "read" => history = <<>> /\ Short(file)
    /\ reload = "trim" => history = file /\ Short(file)

LEMMA TrimmedIsShort ==
  ASSUME NEW h \in Seq(Items), Short(h)
  PROVE  Trimmed(h) = h
BY TrimmedInSeq DEF Short

\* One link more at the end, trimmed or not, and the list still holds the last ones.
LEMMA KeptAppend ==
  ASSUME NEW h \in Seq(Items), NEW l \in Seq(Items), NEW x \in Items, Kept(h, l)
  PROVE  Kept(Trimmed(Append(h, x)), Append(l, x))
<1> DEFINE g == Append(h, x)
           m == Append(l, x)
<1>1. PICK p \in Seq(Items) : l = p \o h
  BY DEF Kept, Ends
<1>2. m = p \o g /\ g \in Seq(Items) /\ Len(g) = Len(h) + 1 /\ Len(m) = Len(l) + 1
  BY <1>1, AppendGoesOver
<1>3. /\ Len(h) \in Nat /\ Len(l) \in Nat /\ HistoryMax \in Nat
      /\ Len(h) = IF HistoryMax = 0 \/ Len(l) <= HistoryMax THEN Len(l) ELSE HistoryMax
  BY ConstantsAssumption DEF Kept
<1> HIDE DEF g, m
<1>4. CASE HistoryMax > 0 /\ Len(g) > HistoryMax
  <2> DEFINE a == SubSeq(g, 1, Len(g) - HistoryMax)
             b == SubSeq(g, Len(g) - HistoryMax + 1, Len(g))
  <2>1. Trimmed(g) = b
    BY <1>4 DEF Trimmed
  <2>2. a \in Seq(Items) /\ b \in Seq(Items) /\ Len(b) = HistoryMax /\ g = a \o b
    <3> DEFINE k == Len(g) - HistoryMax
    <3>1. k \in 1..Len(g) /\ k + 1 \in 1..Len(g) + 1 /\ HistoryMax \in Nat /\ HistoryMax > 0
      BY <1>2, <1>3, <1>4
    <3>2. a \in Seq(Items) /\ Len(a) = k /\ \A n \in 1..k : a[n] = g[n]
      BY <1>2, <3>1
    <3>3. b \in Seq(Items) /\ Len(b) = HistoryMax /\ \A n \in 1..HistoryMax : b[n] = g[k + n]
      BY <1>2, <3>1
    <3> HIDE DEF a, b
    <3>4. SubSeq(g, 1, k) \o SubSeq(g, k + 1, Len(g)) = SubSeq(g, 1, Len(g))
      <4>1. Len(g) \in Nat /\ 1 \in 1..Len(g) + 1 /\ k \in 1 - 1..Len(g) /\ Len(g) \in k..Len(g)
        BY <1>2, <3>1
      <4> HIDE DEF k
      <4> QED BY <1>2, <4>1, ConcatAdjacentSubSeq
    <3>5. SubSeq(g, 1, Len(g)) = g
      BY <1>2, SubSeqFull
    <3> QED BY <3>2, <3>3, <3>4, <3>5 DEF a, b
  <2> HIDE DEF a, b
  <2>3. m = (p \o a) \o b /\ p \o a \in Seq(Items)
    BY <1>2, <2>2, SMTT(30)
  <2>4. Ends(b, m)
    BY <2>3 DEF Ends
  <2>5. Len(b) = IF HistoryMax = 0 \/ Len(m) <= HistoryMax THEN Len(m) ELSE HistoryMax
    BY <1>2, <1>3, <1>4, <2>2
  <2> QED BY <2>1, <2>4, <2>5 DEF Kept, g, m
<1>5. CASE ~(HistoryMax > 0 /\ Len(g) > HistoryMax)
  <2>1. Trimmed(g) = g
    BY <1>5 DEF Trimmed
  <2>2. Ends(g, m)
    BY <1>2 DEF Ends
  <2>3. Len(g) = IF HistoryMax = 0 \/ Len(m) <= HistoryMax THEN Len(m) ELSE HistoryMax
    BY <1>2, <1>3, <1>5
  <2> QED BY <2>1, <2>2, <2>3 DEF Kept, g, m
<1> QED BY <1>4, <1>5

LEMMA InitFInv == Init => FInv
<1> SUFFICES ASSUME Init PROVE FInv
  OBVIOUS
<1>1. Len(file) = 0 /\ Len(history) = 0 /\ file = history /\ reload = "no" /\ history = <<>> /\ linked = <<>>
  BY DEF Init
<1>2. /\ ~Races(pc, reload)
      /\ \A i \in Items : pc[i] = "off"
  BY DEF Init, Races, Updating
<1>3. <<>> \in Seq(Items) /\ Trimmed(history) = history
  BY <1>1, ConstantsAssumption DEF Trimmed
<1>4. Kept(history, linked)
  <2>1. linked = <<>> \o history
    BY <1>1, <1>3, ConcatEmptySeq
  <2>2. Ends(history, linked)
    BY <1>3, <2>1 DEF Ends
  <2>3. Len(linked) = 0 /\ HistoryMax \in Nat
    BY <1>1, ConstantsAssumption
  <2> QED BY <1>1, <2>2, <2>3 DEF Kept
<1>5. Short(history) /\ Short(file) /\ Kept(Trimmed(history), linked)
  BY <1>1, <1>3, <1>4, ConstantsAssumption DEF Short
<1>6. \A i \in Items : pc[i] # "appendw"
  BY <1>2
<1>7. QED BY <1>1, <1>2, <1>5, <1>6 DEF FInv

LEMMA NextFInv == TInv /\ FInv /\ [Next]_vars => FInv'
<1> SUFFICES ASSUME TInv, FInv, [Next]_vars, ~raced' PROVE FInv'
  BY DEF FInv
<1> DEFINE Live == IF reload = "read" THEN file ELSE history
<1> USE DEF hist, chanVars
<1>0. /\ history \in Seq(Items) /\ file \in Seq(Items) /\ linked \in Seq(Items)
      /\ pc \in [Items -> Locations] /\ reg \in [Items -> Seq(Items)]
      /\ raced \in BOOLEAN /\ reload \in {"no", "read", "trim"}
      /\ \A i \in Items : pc[i] \in {"append", "appendw"} => cur[i] \in Items
  BY DEF TInv, TypeOK
<1>1. ~raced /\ ~Races(pc', reload')
  <2>1. CASE UNCHANGED vars
    BY <2>1 DEF vars, FInv
  <2>2. ASSUME NEW i \in Items, Drop(i) \/ Step(i)
        PROVE  raced' = (raced \/ Races(pc', reload)) /\ reload' = reload
    BY <2>2 DEF Drop, Step, Send, TestActive, SetActive, Loop, Receive, Upload, AddHistory, AddHistoryWrite,
       TrimHistory, SaveHistory, Post, Goto
  <2>3. ASSUME ReloadClear \/ ReloadRead \/ ReloadTrim
        PROVE  raced' = (raced \/ Races(pc, reload')) /\ pc' = pc
    BY <2>3 DEF ReloadClear, ReloadRead, ReloadTrim, ReloadAt
  <2>4. QED BY <2>1, <2>2, <2>3 DEF Next
<1>2. /\ \A i \in Items : pc[i] = "appendw" => reg[i] = Append(history, cur[i])
      /\ (\A i \in Items : pc[i] # "trim") => Short(history)
      /\ Kept(Trimmed(Live), linked)
      /\ reload = "no" /\ ~Pending => file = history
      /\ reload = "read" => history = <<>> /\ Short(file)
      /\ reload = "trim" => history = file /\ Short(file)
      /\ ~Races(pc, reload)
  BY <1>1 DEF FInv
<1>3. /\ \A i, j \in Items : pc[i] \in {"appendw", "trim"} /\ pc[j] \in {"appendw", "trim"} => i = j
      /\ reload # "no" => \A i \in Items : pc[i] \notin {"appendw", "trim", "save"}
  BY <1>2 DEF Races, Updating
<1>4. ASSUME NEW i \in Items, AddHistory(i) PROVE FInv'
  <2>1. /\ UNCHANGED <<history, file, linked, reload, cur>> /\ reg' = [reg EXCEPT ![i] = Append(history, cur[i])]
        /\ pc[i] = "append" /\ pc' = [pc EXCEPT ![i] = "appendw"]
    BY <1>4 DEF AddHistory, Goto
  <2>2. \A j \in Items : pc'[j] = "appendw" => reg'[j] = Append(history', cur'[j])
    BY <1>0, <1>2, <2>1
  <2>3. /\ Pending' <=> Pending
        /\ (\A j \in Items : pc'[j] # "trim") <=> (\A j \in Items : pc[j] # "trim")
    BY <1>0, <2>1 DEF Pending
  <2>4. QED BY <1>1, <1>2, <2>1, <2>2, <2>3 DEF FInv, Short
<1>5. ASSUME NEW i \in Items, AddHistoryWrite(i) PROVE FInv'
  <2>1. /\ UNCHANGED <<file, reload, cur>> /\ history' = reg[i] /\ linked' = Append(linked, cur[i])
        /\ pc[i] = "appendw" /\ pc' = [pc EXCEPT ![i] = "trim"] /\ cur[i] \in Items
    BY <1>0, <1>5 DEF AddHistoryWrite, Goto
  <2>2. reload = "no" /\ Live = history /\ history' = Append(history, cur[i])
    BY <1>0, <1>2, <1>3, <2>1
  <2>3. \A j \in Items : pc[j] # "trim"
    BY <1>3, <2>1
  <2>4. Trimmed(history) = history
    BY <1>0, <1>2, <2>3, TrimmedIsShort
  <2>5. Kept(Trimmed(history'), linked')
    BY <1>0, <1>2, <2>1, <2>2, <2>4, KeptAppend
  <2>6. pc'[i] = "trim" /\ \A j \in Items : pc'[j] # "appendw"
    BY <1>0, <1>3, <2>1
  <2>7. Pending'
    BY <2>6 DEF Pending
  <2>8. QED BY <1>1, <2>1, <2>2, <2>5, <2>6, <2>7 DEF FInv
<1>6. ASSUME NEW i \in Items, TrimHistory(i) PROVE FInv'
  <2>1. /\ UNCHANGED <<file, reload, cur, linked, reg>> /\ history' = Trimmed(history)
        /\ pc[i] = "trim" /\ pc' = [pc EXCEPT ![i] = "save"]
    BY <1>6 DEF TrimHistory, Goto
  <2>2. reload = "no" /\ Live = history
    BY <1>0, <1>3, <2>1
  <2>3. \A j \in Items : pc'[j] # "appendw"
    BY <1>0, <1>3, <2>1
  <2>4. Short(history') /\ history' \in Seq(Items)
    BY <1>0, <2>1, TrimmedInSeq DEF Short
  <2>5. Trimmed(history') = Trimmed(history)
    BY <2>1, <2>4, TrimmedIsShort
  <2>6. Kept(Trimmed(history'), linked')
    BY <1>2, <2>1, <2>2, <2>5
  <2>7. pc'[i] = "save"
    BY <1>0, <2>1
  <2>8. Pending'
    BY <2>7 DEF Pending
  <2>9. QED BY <1>1, <2>1, <2>2, <2>3, <2>4, <2>6, <2>8 DEF FInv, Short
<1>7. ASSUME NEW i \in Items, SaveHistory(i) PROVE FInv'
  <2>1. /\ UNCHANGED <<history, reload, linked, reg>> /\ file' = history
        /\ pc[i] = "save" /\ pc' = [pc EXCEPT ![i] = "loop"] /\ cur' = [cur EXCEPT ![i] = Idle]
    BY <1>7 DEF SaveHistory, Goto
  <2>2. reload = "no" /\ Live = history
    BY <1>0, <1>3, <2>1
  <2>3. /\ \A j \in Items : pc'[j] = "appendw" => reg'[j] = Append(history', cur'[j])
        /\ (\A j \in Items : pc'[j] # "trim") => \A j \in Items : pc[j] # "trim"
    BY <1>0, <1>2, <2>1
  <2>4. QED BY <1>1, <1>2, <2>1, <2>2, <2>3 DEF FInv, Short
<1>8. CASE /\ UNCHANGED <<file, history, linked, reload, reg>>
           /\ \A i \in Items : /\ pc'[i] \in {"appendw", "trim", "save"} <=> pc[i] \in {"appendw", "trim", "save"}
                               /\ pc'[i] \in {"appendw", "trim", "save"} => pc'[i] = pc[i] /\ cur'[i] = cur[i]
  <2>1. /\ \A j \in Items : pc'[j] = "appendw" => reg'[j] = Append(history', cur'[j])
        /\ (\A j \in Items : pc'[j] # "trim") <=> \A j \in Items : pc[j] # "trim"
        /\ Pending' <=> Pending
    BY <1>2, <1>8 DEF Pending
  <2>2. QED BY <1>1, <1>2, <1>8, <2>1 DEF FInv, Short
<1>9. ASSUME NEW i \in Items, Drop(i) \/ Step(i),
             ~AddHistory(i), ~AddHistoryWrite(i), ~TrimHistory(i), ~SaveHistory(i)
      PROVE  /\ UNCHANGED <<file, history, linked, reload, reg>>
             /\ \A j \in Items : /\ pc'[j] \in {"appendw", "trim", "save"} <=> pc[j] \in {"appendw", "trim", "save"}
                                 /\ pc'[j] \in {"appendw", "trim", "save"} => pc'[j] = pc[j] /\ cur'[j] = cur[j]
  <2>1. /\ UNCHANGED <<file, history, linked, reload, reg>>
        /\ pc[i] \in {"off", "send", "test", "set", "loop", "recv", "upload", "post"}
        /\ \E l \in {"send", "test", "set", "done", "loop", "recv", "post", "upload", "append", "dead"} :
              pc' = [pc EXCEPT ![i] = l]
        /\ cur' = cur \/ \E x : cur' = [cur EXCEPT ![i] = x]
    BY <1>9, Zenon DEF Drop, Step, Send, TestActive, SetActive, Loop, Receive, Upload, Post, Goto
  <2>2. \A j \in Items : j # i => cur'[j] = cur[j]
    BY <2>1 DEF TInv, TypeOK
  <2>3. QED BY <1>0, <2>1, <2>2
<1>10. CASE ReloadClear
  <2>1. /\ history' = <<>> /\ reload' = "read" /\ reload = "no" /\ UNCHANGED <<file, linked, pc, reg, cur>>
    BY <1>10 DEF ReloadClear, ReloadAt
  <2>2. \A i \in Items : pc[i] \notin {"appendw", "trim", "save"}
    BY <1>1, <2>1 DEF Races, Updating
  <2>3. file = history /\ Short(file)
    BY <1>2, <2>1, <2>2 DEF Pending
  <2>4. Short(history')
    BY <2>1, ConstantsAssumption DEF Short
  <2>5. QED BY <1>1, <1>2, <2>1, <2>2, <2>3, <2>4 DEF FInv, Short
<1>11. CASE ReloadRead
  <2>1. /\ history' = history \o file /\ reload' = "trim" /\ reload = "read" /\ UNCHANGED <<file, linked, pc, reg, cur>>
    BY <1>11 DEF ReloadRead, ReloadAt
  <2>2. history' = file
    BY <1>0, <1>2, <2>1
  <2>3. \A i \in Items : pc[i] \notin {"appendw", "trim", "save"}
    BY <1>3, <2>1
  <2>4. QED BY <1>1, <1>2, <2>1, <2>2, <2>3 DEF FInv, Short
<1>12. CASE ReloadTrim
  <2>1. /\ history' = Trimmed(history) /\ reload' = "no" /\ reload = "trim" /\ UNCHANGED <<file, linked, pc, reg, cur>>
    BY <1>12 DEF ReloadTrim, ReloadAt
  <2>2. history' = history
    BY <1>0, <1>2, <2>1, TrimmedIsShort DEF Short
  <2>3. \A i \in Items : pc[i] \notin {"appendw", "trim", "save"}
    BY <1>3, <2>1
  <2>4. QED BY <1>1, <1>2, <2>1, <2>2, <2>3 DEF FInv, Short
<1>13. CASE UNCHANGED vars
  BY <1>8, <1>13 DEF vars
<1>14. QED
  BY <1>4, <1>5, <1>6, <1>7, <1>8, <1>9, <1>10, <1>11, <1>12, <1>13 DEF Next

LEMMA SpecFInv == Spec => [](TInv /\ FInv)
BY InitTInv, InitFInv, NextTInv, NextFInv, PTL DEF Spec

\* When no save is pending the file is the history, whatever workers add links and
\* reloads come between their updates (addHistory, SetHistoryFile).
THEOREM HistoryIsSaved == Spec => []FileIsHistory
<1>1. FInv => FileIsHistory
  BY DEF FInv, FileIsHistory, NoReload, Pending
<1>2. QED
  BY <1>1, SpecFInv, PTL

\* The history holds the last historyMax links in the order in which workers obtained
\* them, as long as updates of the list do not overlap (addHistory, trimHistory).
THEOREM LastLinksKept == Spec => []LinksKept
<1>1. TInv /\ FInv => LinksKept
  <2> SUFFICES ASSUME TInv, FInv, NoReload, \A i \in Items : pc[i] # "trim"
               PROVE  /\ \E n \in 0..Len(linked) : linked = SubSeq(linked, 1, n) \o history
                      /\ Len(history) = IF HistoryMax = 0 \/ Len(linked) <= HistoryMax
                                           THEN Len(linked) ELSE HistoryMax
    BY DEF LinksKept
  <2>1. history \in Seq(Items) /\ linked \in Seq(Items)
    BY DEF TInv, TypeOK
  <2>2. Short(history) /\ Kept(Trimmed(history), linked)
    BY DEF FInv, NoReload
  <2>3. Kept(history, linked)
    BY <2>1, <2>2, TrimmedIsShort
  <2>4. PICK p \in Seq(Items) : linked = p \o history
    BY <2>3 DEF Kept, Ends
  <2>5. Len(p) \in 0..Len(linked) /\ SubSeq(linked, 1, Len(p)) = p
    BY <2>1, <2>4, SMTT(30)
  <2> QED BY <2>3, <2>4, <2>5 DEF Kept
<1>2. QED
  BY <1>1, SpecFInv, PTL

\* A worker that panics leaves active set: no item is received any more, whoever
\* sends one and however often the applet is reloaded (UploadGuess).
THEOREM OrphanedForever == Spec => OrphanedIsFinal
<1>1. ASSUME TInv, Orphaned, [Next]_vars PROVE Orphaned' /\ received' = received
  <2> USE DEF hist, chanVars, Goto, ReloadAt, Orphaned, Workers, Working
  <2>1. /\ pc \in [Items -> Locations] /\ active
        /\ \A i \in Items : pc[i] \in {"off", "send", "test", "done", "dead"}
    BY <1>1 DEF TInv, TypeOK, Locations
  <2>2. CASE UNCHANGED <<active, pc, received>>
    BY <1>1, <2>2
  <2>3. ASSUME NEW i \in Items, Drop(i) \/ Send(i) \/ TestActive(i) PROVE Orphaned' /\ received' = received
    BY <2>1, <2>3 DEF Drop, Send, TestActive
  <2>4. ASSUME NEW i \in Items, Step(i) PROVE Send(i) \/ TestActive(i)
    BY <2>1, <2>4 DEF Step, SetActive, Loop, Receive, Upload, AddHistory, AddHistoryWrite,
     TrimHistory, SaveHistory, Post
  <2>5. QED
    BY <1>1, <2>2, <2>3, <2>4 DEF Next, vars, ReloadClear, ReloadRead, ReloadTrim
<1>2. TInv /\ [Next]_vars => [Orphaned => Orphaned' /\ received' = received]_vars
  BY <1>1
<1>3. QED
  BY <1>2, InitTInv, NextTInv, PTL DEF Spec, OrphanedIsFinal
=============================================================================
