--------------------------- MODULE FailoverProofs ---------------------------
(***************************************************************************)
(* What the circuit breaker keeps for every chain, threshold, window and   *)
(* parking time and however many requests are in flight: a provider is     *)
(* parked only for failures of its own, in a row and inside one window,    *)
(* and stays parked unless a request already under way succeeds.           *)
(***************************************************************************)
EXTENDS Failover, SequenceTheorems, WellFoundedInduction, TLAPS

-----------------------------------------------------------------------------
(***************************************************************************)
(* Lists of ages.                                                          *)
(***************************************************************************)

\* Oldest first: ages never increase along a list.
Falls(list) == \A i, j \in 1..Len(list) : i < j => list[i] >= list[j]

\* tail is the end of list.
EndOf(tail, list) ==
  /\ Len(tail) <= Len(list)
  /\ \A i \in 1..Len(tail) : tail[i] = list[i + Len(list) - Len(tail)]

\* The filter keeps the end of a list, and in it what is in the window only.
LEMMA FilteredKeeps ==
  ASSUME NEW list \in Seq(Ages), Falls(list)
  PROVE  /\ Filtered(list) \in Seq(Ages)
         /\ EndOf(Filtered(list), list)
         /\ \A i \in 1..Len(Filtered(list)) : InWindow(Filtered(list)[i])
<1> DEFINE First(k) == \A i \in DOMAIN list : InWindow(list[i]) <=> i >= k
           first == CHOOSE k \in 1 .. (Len(list) + 1) : First(k)
           young == {i \in 1..Len(list) : InWindow(list[i])}
<1>1. Len(list) \in Nat /\ DOMAIN list = 1..Len(list) /\ \A i \in 1..Len(list) : list[i] \in Ages
  OBVIOUS
<1>2. \E k \in 1 .. (Len(list) + 1) : First(k)
  <2>1. CASE young = {}
    <3>1. Len(list) + 1 \in 1 .. (Len(list) + 1)
      BY <1>1
    <3>2. First(Len(list) + 1)
      BY <1>1, <2>1
    <3> HIDE DEF First
    <3> QED
      BY <3>1, <3>2
  <2>2. CASE young # {}
    <3> DEFINE Less == {p \in Nat \X Nat : p[1] < p[2]}
    <3>1. young \subseteq Nat /\ IsWellFoundedOn(Less, Nat)
      <4>1. young \subseteq Nat
        BY <1>1
      <4>2. IsWellFoundedOn(Less, Nat)
        BY NatLessThanWellFounded, Zenon DEF OpToRel
      <4> QED
        BY <4>1, <4>2
    <3>2. PICK k \in young : \A i \in young : <<i, k>> \notin Less
      <4> HIDE DEF Less, young, First
      <4> QED
        BY <2>2, <3>1, WFMin, Zenon
    <3>3. k \in 1..Len(list) /\ InWindow(list[k]) /\ \A i \in young : i >= k
      <4>1. ASSUME NEW i \in young
            PROVE  i >= k
        <5>1. <<i, k>> \notin Less /\ i \in Nat /\ k \in Nat
          BY <3>1, <3>2
        <5> QED
          BY <5>1
      <4> QED
        BY <4>1
    <3>4. ASSUME NEW i \in 1..Len(list), i >= k
          PROVE  InWindow(list[i])
      BY <1>1, <3>3, <3>4, BreakerAssumption DEF Falls, InWindow, Ages
    <3>5. First(k)
      BY <1>1, <3>3, <3>4
    <3> QED
      BY <1>1, <3>3, <3>5
  <2> QED
    BY <2>1, <2>2
<1>3. first \in 1 .. (Len(list) + 1) /\ First(first)
  <2> HIDE DEF First
  <2> QED
    BY <1>2
<1> HIDE DEF first
<1>4. Filtered(list) = SubSeq(list, first, Len(list))
  BY DEF Filtered, first
<1>5. /\ SubSeq(list, first, Len(list)) \in Seq(Ages)
      /\ Len(SubSeq(list, first, Len(list))) = Len(list) - first + 1
      /\ \A i \in 1 .. (Len(list) - first + 1) :
           SubSeq(list, first, Len(list))[i] = list[first + i - 1]
  <2>1. \A i \in first .. Len(list) : list[i] \in Ages
    BY <1>1, <1>3
  <2> QED
    BY <1>1, <1>3, <2>1, SubSeqProperties
<1> HIDE DEF young
<1>6. ASSUME NEW i \in 1 .. (Len(list) - first + 1)
      PROVE  InWindow(list[first + i - 1])
  BY <1>1, <1>3
<1>7. ASSUME NEW i \in 1 .. (Len(list) - first + 1)
      PROVE  first + i - 1 = i + Len(list) - (Len(list) - first + 1)
  BY <1>1, <1>3
<1> QED
  BY <1>1, <1>3, <1>4, <1>5, <1>6, <1>7 DEF EndOf

\* A shortened list is the end of the whole one, and Threshold long at most.
LEMMA YoungestKeeps ==
  ASSUME NEW list \in Seq(Ages)
  PROVE  /\ Youngest(list) \in Seq(Ages)
         /\ EndOf(Youngest(list), list)
         /\ Len(Youngest(list)) = IF Len(list) > Threshold THEN Threshold ELSE Len(list)
<1>1. Len(list) \in Nat /\ \A i \in 1..Len(list) : list[i] \in Ages
  OBVIOUS
<1>2. CASE Len(list) > Threshold
  <2> DEFINE from == Len(list) - Threshold + 1
  <2>1. from \in 1..Len(list) /\ \A i \in from .. Len(list) : list[i] \in Ages
    BY <1>1, <1>2, BreakerAssumption
  <2>2. /\ SubSeq(list, from, Len(list)) \in Seq(Ages)
        /\ Len(SubSeq(list, from, Len(list))) = Len(list) - from + 1
        /\ \A i \in 1 .. (Len(list) - from + 1) :
             SubSeq(list, from, Len(list))[i] = list[from + i - 1]
    BY <1>1, <2>1, SubSeqProperties
  <2> QED
    BY <1>1, <1>2, <2>2, BreakerAssumption DEF Youngest, EndOf
<1>3. CASE ~(Len(list) > Threshold)
  BY <1>1, <1>3, BreakerAssumption DEF Youngest, EndOf
<1> QED
  BY <1>1, <1>2, <1>3, BreakerAssumption

\* A failure of this instant has an age, and ages are numbers.
LEMMA ZeroIsAge ==
  0 \in Ages /\ \A age \in Ages : age \in Nat
BY BreakerAssumption DEF Ages

\* The same entry at the end of both keeps an end an end.
LEMMA AppendKeepsEnd ==
  ASSUME NEW tail \in Seq(Ages), NEW list \in Seq(Ages), EndOf(tail, list)
  PROVE  EndOf(Append(tail, 0), Append(list, 0))
<1> DEFINE T == Append(tail, 0)
           L == Append(list, 0)
           m == Len(tail)
           n == Len(list)
<1>1. /\ Len(T) = m + 1 /\ T[m + 1] = 0 /\ \A i \in 1..m : T[i] = tail[i]
      /\ Len(L) = n + 1 /\ L[n + 1] = 0 /\ \A i \in 1..n : L[i] = list[i]
  BY ZeroIsAge, AppendProperties
<1>2. m \in Nat /\ n \in Nat /\ m <= n /\ \A i \in 1..m : tail[i] = list[i + n - m]
  BY DEF EndOf
<1>3. Len(T) <= Len(L) /\ \A i \in 1..Len(T) : T[i] = L[i + Len(L) - Len(T)]
  <2> HIDE DEF T, L, m, n
  <2>1. ASSUME NEW i \in 1 .. (m + 1)
        PROVE  T[i] = L[i + (n + 1) - (m + 1)]
    <3>1. CASE i = m + 1
      BY <1>1, <1>2, <3>1
    <3>2. CASE i \in 1..m
      <4>1. i + n - m \in 1..n /\ i + (n + 1) - (m + 1) = i + n - m
        BY <1>2, <3>2
      <4> QED
        BY <1>1, <1>2, <3>2, <4>1
    <3> QED
      BY <1>2, <3>1, <3>2
  <2> QED
    BY <1>1, <1>2, <2>1
<1> QED
  BY <1>3 DEF EndOf

\* Of two lists, one the end of the other, so are the shortened ones.
LEMMA YoungestKeepsEnd ==
  ASSUME NEW tail \in Seq(Ages), NEW list \in Seq(Ages), EndOf(tail, list)
  PROVE  EndOf(Youngest(tail), Youngest(list))
<1> DEFINE T == Youngest(tail)
           L == Youngest(list)
           m == Len(tail)
           n == Len(list)
<1>1. /\ m \in Nat /\ n \in Nat /\ m <= n
      /\ \A i \in 1..m : tail[i] = list[i + n - m]
  BY DEF EndOf
<1>2. /\ Len(T) = IF m > Threshold THEN Threshold ELSE m
      /\ Len(L) = IF n > Threshold THEN Threshold ELSE n
      /\ \A i \in 1..Len(T) : T[i] = tail[i + m - Len(T)]
      /\ \A i \in 1..Len(L) : L[i] = list[i + n - Len(L)]
  BY YoungestKeeps DEF EndOf
<1>3. Len(T) <= Len(L) /\ \A i \in 1..Len(T) : T[i] = L[i + Len(L) - Len(T)]
  <2> HIDE DEF T, L, m, n
  <2>1. Len(T) \in Nat /\ Len(L) \in Nat /\ Len(T) <= Len(L) /\ Len(T) <= m /\ Len(L) <= n
    BY <1>1, <1>2, BreakerAssumption
  <2>2. ASSUME NEW i \in 1..Len(T)
        PROVE  T[i] = L[i + Len(L) - Len(T)]
    <3>1. i + m - Len(T) \in 1..m /\ i + Len(L) - Len(T) \in 1..Len(L)
      BY <1>1, <2>1
    <3>2. /\ T[i] = tail[i + m - Len(T)]
          /\ tail[i + m - Len(T)] = list[(i + m - Len(T)) + n - m]
          /\ L[i + Len(L) - Len(T)] = list[(i + Len(L) - Len(T)) + n - Len(L)]
      BY <1>1, <1>2, <3>1
    <3>3. (i + m - Len(T)) + n - m = (i + Len(L) - Len(T)) + n - Len(L)
      BY <1>1, <2>1
    <3> QED
      BY <3>2, <3>3
  <2> QED
    BY <2>1, <2>2
<1> QED
  BY <1>3 DEF EndOf

\* A failure now is the youngest entry, and ends of a falling list fall.
LEMMA AppendFalls ==
  ASSUME NEW list \in Seq(Ages), Falls(list)
  PROVE  Append(list, 0) \in Seq(Ages) /\ Falls(Append(list, 0))
<1>1. /\ Len(list) \in Nat /\ Len(Append(list, 0)) = Len(list) + 1
      /\ \A i \in 1..Len(list) : Append(list, 0)[i] = list[i] /\ list[i] \in Ages
      /\ Append(list, 0)[Len(list) + 1] = 0
      /\ Append(list, 0) \in Seq(Ages)
  BY ZeroIsAge, AppendProperties
<1>2. ASSUME NEW i \in 1 .. (Len(list) + 1), NEW j \in 1 .. (Len(list) + 1), i < j
      PROVE  Append(list, 0)[i] >= Append(list, 0)[j]
  <2>1. i \in 1..Len(list)
    BY <1>1, <1>2
  <2>2. CASE j = Len(list) + 1
    BY <1>1, <2>1, <2>2, ZeroIsAge
  <2>3. CASE j \in 1..Len(list)
    BY <1>1, <1>2, <2>1, <2>3 DEF Falls
  <2> QED
    BY <1>1, <2>2, <2>3
<1> QED
  BY <1>1, <1>2 DEF Falls

\* The end of a sequence in order of time is in order of time.
LEMMA EndFalls ==
  ASSUME NEW tail \in Seq(Ages), NEW list \in Seq(Ages), EndOf(tail, list), Falls(list)
  PROVE  Falls(tail)
<1>1. Len(tail) \in Nat /\ Len(list) \in Nat /\ Len(tail) <= Len(list)
  BY DEF EndOf
<1>2. SUFFICES ASSUME NEW i \in 1..Len(tail), NEW j \in 1..Len(tail), i < j
               PROVE  tail[i] >= tail[j]
  BY DEF Falls
<1> DEFINE shift == Len(list) - Len(tail)
<1>3. /\ i + shift \in 1..Len(list) /\ j + shift \in 1..Len(list) /\ i + shift < j + shift
      /\ tail[i] = list[i + shift] /\ tail[j] = list[j + shift]
  BY <1>1, <1>2 DEF EndOf
<1> QED
  BY <1>3 DEF Falls

\* The end of an end is an end.
LEMMA EndOfEnd ==
  ASSUME NEW a \in Seq(Ages), NEW b \in Seq(Ages), NEW c \in Seq(Ages),
         EndOf(a, b), EndOf(b, c)
  PROVE  EndOf(a, c)
<1>1. /\ Len(a) \in Nat /\ Len(b) \in Nat /\ Len(c) \in Nat
      /\ Len(a) <= Len(b) /\ Len(b) <= Len(c)
  BY DEF EndOf
<1>2. ASSUME NEW i \in 1..Len(a)
      PROVE  a[i] = c[i + Len(c) - Len(a)]
  <2> DEFINE j == i + Len(b) - Len(a)
  <2>1. j \in 1..Len(b) /\ a[i] = b[j] /\ j + Len(c) - Len(b) = i + Len(c) - Len(a)
    BY <1>1 DEF EndOf
  <2>2. b[j] = c[j + Len(c) - Len(b)]
    BY <2>1 DEF EndOf
  <2> QED
    BY <2>1, <2>2
<1> QED
  BY <1>1, <1>2 DEF EndOf

-----------------------------------------------------------------------------
(***************************************************************************)
(* The inductive invariant: the failures the breaker holds are the last    *)
(* ones of the reference since a success, oldest first.                    *)
(***************************************************************************)

Remembered(s, list) == Falls(list) /\ EndOf(s.failures, list)

BreakerInv ==
  /\ TypeOK
  /\ \A p \in Ref : Remembered(slot[p], strikes[p])

\* recordFailure keeps it, and parks for Threshold failures in one window only.
LEMMA FailureRecorded ==
  ASSUME NEW s \in Slots, NEW list \in Seq(Ages), Remembered(s, list)
  PROVE  LET after == recordFailure(s)
             struck == Youngest(Append(list, 0))
         IN  /\ after \in Slots /\ struck \in Seq(Ages)
             /\ Remembered(after, struck)
             /\ after.left = s.left \/ Struck(struck)
<1> DEFINE fs == s.failures
           added == Append(Filtered(fs), 0)
           kept == Youngest(added)
           all == Append(list, 0)
           struck == Youngest(all)
<1>1. fs \in Seq(Ages) /\ Falls(fs)
  BY EndFalls DEF Slots, Remembered
<1>2. /\ Filtered(fs) \in Seq(Ages) /\ EndOf(Filtered(fs), fs)
      /\ \A i \in 1..Len(Filtered(fs)) : InWindow(Filtered(fs)[i])
  BY <1>1, FilteredKeeps
<1>3. EndOf(Filtered(fs), list)
  BY <1>1, <1>2, EndOfEnd DEF Remembered
<1>4. /\ added \in Seq(Ages) /\ all \in Seq(Ages) /\ Falls(all)
      /\ EndOf(added, all) /\ \A i \in 1..Len(added) : InWindow(added[i])
  <2>1. added \in Seq(Ages) /\ all \in Seq(Ages) /\ Falls(all) /\ EndOf(added, all)
    BY <1>2, <1>3, ZeroIsAge, AppendProperties, AppendFalls, AppendKeepsEnd DEF Remembered
  <2>2. ASSUME NEW i \in 1..Len(added)
        PROVE  InWindow(added[i])
    <3> DEFINE F == Filtered(fs)
    <3>1. /\ Len(F) \in Nat /\ Len(added) = Len(F) + 1 /\ added[Len(F) + 1] = 0
          /\ \A j \in 1..Len(F) : added[j] = F[j] /\ InWindow(F[j])
      BY <1>2, ZeroIsAge, AppendProperties
    <3>2. InWindow(0)
      BY BreakerAssumption DEF InWindow
    <3> HIDE DEF F, added
    <3> QED
      BY <3>1, <3>2
  <2> QED
    BY <2>1, <2>2
<1> HIDE DEF added, all
<1>5. /\ kept \in Seq(Ages) /\ EndOf(kept, added) /\ Len(kept) \in Nat
      /\ struck \in Seq(Ages) /\ EndOf(struck, all) /\ Len(struck) \in Nat
      /\ Len(struck) <= Threshold /\ EndOf(kept, struck)
  <2>1. kept \in Seq(Ages) /\ EndOf(kept, added) /\ struck \in Seq(Ages) /\ EndOf(struck, all)
        /\ Len(struck) = IF Len(all) > Threshold THEN Threshold ELSE Len(all)
    BY <1>4, YoungestKeeps
  <2>2. EndOf(kept, struck)
    BY <1>4, YoungestKeepsEnd
  <2>3. Len(all) \in Nat /\ Len(kept) \in Nat
    BY <1>4, <2>1
  <2> HIDE DEF kept, struck
  <2> QED
    BY <2>1, <2>2, <2>3, BreakerAssumption
<1>6. Falls(struck)
  BY <1>4, <1>5, EndFalls
<1> HIDE DEF kept, struck
<1>7. ASSUME Len(kept) >= Threshold
      PROVE  Struck(struck)
  <2>1. Len(struck) = Threshold /\ Len(kept) = Threshold
    BY <1>5, <1>7, BreakerAssumption DEF EndOf
  <2>2. ASSUME NEW i \in 1..Len(struck)
        PROVE  InWindow(struck[i])
    <3>1. kept[i] = struck[i]
      <4>1. i + Len(struck) - Len(kept) = i
        BY <1>5, <2>1
      <4> QED
        BY <1>5, <2>1, <4>1 DEF EndOf
    <3>2. InWindow(kept[i])
      <4> DEFINE j == i + Len(added) - Len(kept)
      <4>1. j \in 1..Len(added) /\ kept[i] = added[j]
        <5>1. Len(added) \in Nat /\ Len(kept) <= Len(added)
          BY <1>4, <1>5 DEF EndOf
        <5> QED
          BY <1>5, <2>1, <5>1 DEF EndOf
      <4> QED
        BY <1>4, <4>1
    <3> QED
      BY <3>1, <3>2
  <2> QED
    BY <1>5, <2>1, <2>2 DEF Struck
<1>8. /\ recordFailure(s).failures = kept
      /\ recordFailure(s).left = IF Len(kept) >= Threshold THEN Park ELSE s.left
      /\ recordFailure(s) \in Slots
  <2>1. recordFailure(s) = [failures |-> kept,
                            left |-> IF Len(kept) >= Threshold THEN Park ELSE s.left]
    BY DEF recordFailure, kept, added
  <2>2. s.left \in {NotParked} \cup 0 .. Park /\ Park \in 0 .. Park
    BY BreakerAssumption DEF Slots
  <2> QED
    BY <1>5, <2>1, <2>2 DEF Slots
<1>9. /\ recordFailure(s) \in Slots /\ struck \in Seq(Ages)
      /\ Remembered(recordFailure(s), struck)
      /\ recordFailure(s).left = s.left \/ Struck(struck)
  BY <1>5, <1>6, <1>7, <1>8 DEF Remembered
<1> QED
  BY <1>9 DEF struck, all

\* Time passes for both lists alike.
LEMMA AllAge ==
  ASSUME NEW list \in Seq(Ages)
  PROVE  LET aged == [i \in DOMAIN list |-> Older(list[i])]
         IN  /\ aged \in Seq(Ages) /\ Len(aged) = Len(list)
             /\ \A i \in 1..Len(list) : aged[i] = Older(list[i])
             /\ Falls(list) => Falls(aged)
<1> DEFINE aged == [i \in DOMAIN list |-> Older(list[i])]
<1>1. DOMAIN list = 1..Len(list) /\ Len(list) \in Nat /\ \A i \in 1..Len(list) : list[i] \in Ages
  OBVIOUS
<1>2. ASSUME NEW age \in Ages
      PROVE  /\ Older(age) \in Ages
             /\ \A b \in Ages : age >= b => Older(age) >= Older(b)
  BY BreakerAssumption DEF Ages, Older
<1>3. aged \in [1..Len(list) -> Ages] /\ \A i \in 1..Len(list) : aged[i] = Older(list[i])
  BY <1>1, <1>2
<1>4. aged \in Seq(Ages) /\ Len(aged) = Len(list)
  <2> HIDE DEF aged
  <2> QED
    BY <1>1, <1>3
<1>5. ASSUME Falls(list) PROVE Falls(aged)
  <2> HIDE DEF aged
  <2> QED
    BY <1>1, <1>2, <1>3, <1>4, <1>5 DEF Falls
<1> HIDE DEF aged
<1> QED
  BY <1>3, <1>4, <1>5 DEF aged

\* The breaker forgets or keeps a reference when it is looked at.
LEMMA Looked ==
  ASSUME NEW s \in Slots, NEW list \in Seq(Ages), Remembered(s, list)
  PROVE  /\ afterIsOpen(s) \in Slots /\ NoSlot \in Slots
         /\ Remembered(afterIsOpen(s), list)
         /\ ~isOpen(NoSlot)
         /\ afterIsOpen(s) = s \/ (afterIsOpen(s) = NoSlot /\ s.left = 0)
<1>1. <<>> \in Seq(Ages) /\ Len(<<>>) = 0 /\ Len(list) \in Nat
  OBVIOUS
<1>2. /\ NoSlot \in Slots /\ NoSlot.failures = <<>> /\ NoSlot.left = -1
  BY <1>1 DEF NoSlot, Slots, NotParked
<1>3. EndOf(NoSlot.failures, list)
  BY <1>1, <1>2 DEF EndOf
<1>4. ~isOpen(NoSlot)
  BY <1>2 DEF isOpen
<1> QED
  BY <1>2, <1>3, <1>4 DEF afterIsOpen, Remembered

\* A breaker without failures and a request without a call are fit to start with.
LEMMA Fresh ==
  /\ NoSlot \in Slots /\ ~isOpen(NoSlot) /\ <<>> \in Seq(Ages)
  /\ Remembered(NoSlot, <<>>)
  /\ Idle \in Requests /\ Idle.pc # "calling"
<1>1. <<>> \in Seq(Ages) /\ Len(<<>>) = 0
  OBVIOUS
<1>2. NoSlot \in Slots /\ NoSlot.failures = <<>> /\ NoSlot.left = -1
  BY <1>1 DEF NoSlot, Slots, NotParked
<1>3. Remembered(NoSlot, <<>>)
  BY <1>1, <1>2 DEF Remembered, Falls, EndOf
<1>4. Idle \in Requests /\ Idle.pc # "calling"
  BY ChainAssumption, RouteAssumption DEF Idle, Requests
<1> QED
  BY <1>1, <1>2, <1>3, <1>4 DEF isOpen

\* What the walk of a request does to the request.
LEMMA RequestMoves ==
  ASSUME TypeOK, NEW r \in Request, Submit(r) \/ Choose(r) \/ Outcome(r)
  PROVE  /\ req' \in [Request -> Requests]
         /\ \A q \in Request : req'[q].pc = "calling" => req'[q].at <= Len(Chain)
<1>1. /\ req \in [Request -> Requests] /\ req[r] \in Requests
      /\ req[r].at \in 1 .. (Len(Chain) + 1) /\ Len(Chain) \in Nat
      /\ req[r].attempt \in 0 .. (Retries + 1) /\ Retries \in Nat
      /\ \A q \in Request : req[q].pc = "calling" => req[q].at <= Len(Chain)
  BY ChainAssumption, RouteAssumption DEF TypeOK, Requests
<1> DEFINE Moved(new) == /\ req' = [req EXCEPT ![r] = new]
                         /\ new \in Requests
                         /\ new.pc = "calling" => new.at <= Len(Chain)
<1>2. ASSUME NEW new, Moved(new)
      PROVE  /\ req' \in [Request -> Requests]
             /\ \A q \in Request : req'[q].pc = "calling" => req'[q].at <= Len(Chain)
  BY <1>1, <1>2
<1>3. ASSUME Leave(r), req[r].at <= Len(Chain)
      PROVE  Moved([pc |-> "choosing", at |-> req[r].at + 1, attempt |-> 0])
  BY <1>1, <1>3 DEF Leave, Requests
<1>4. ASSUME NEW pc \in {"choosing", "answered", "fatal", "exhausted"},
             req' = [req EXCEPT ![r] = [Idle EXCEPT !.pc = pc]]
      PROVE  Moved([Idle EXCEPT !.pc = pc])
  BY <1>1, <1>4 DEF Idle, Requests
<1> DEFINE Done == \E new : Moved(new)
<1>5. CASE Submit(r)
  <2>1. Moved([Idle EXCEPT !.pc = "choosing"])
    BY <1>4, <1>5 DEF Submit
  <2> QED
    BY <1>2, <2>1
<1>6. CASE SkipParked(r) \/ SkipUnavailable(r) \/ FailOver(r)
  <2>1. Leave(r) /\ req[r].at <= Len(Chain)
    BY <1>1, <1>6 DEF SkipParked, SkipUnavailable, FailOver
  <2> QED
    BY <1>2, <1>3, <2>1
<1>7. CASE Answer(r) \/ FailFatal(r) \/ Exhaust(r)
  <2>1. \E pc \in {"answered", "fatal", "exhausted"} :
          req' = [req EXCEPT ![r] = [Idle EXCEPT !.pc = pc]]
    BY <1>7 DEF Answer, FailFatal, Exhaust, End
  <2>2. PICK pc \in {"answered", "fatal", "exhausted"} : Moved([Idle EXCEPT !.pc = pc])
    BY <1>4, <2>1
  <2> QED
    BY <1>2, <2>2
<1>8. CASE Call(r)
  <2> DEFINE new == [pc |-> "calling", at |-> req[r].at, attempt |-> 1]
  <2>1. Moved(new)
    <3>1. new \in Requests /\ new.at = req[r].at
      <4>1. 1 \in 0 .. (Retries + 1)
        BY <1>1
      <4> QED
        BY <1>1, <4>1 DEF Requests
    <3>2. req' = [req EXCEPT ![r] = new]
      BY <1>1, <1>8 DEF Call
    <3>3. req[r].at <= Len(Chain)
      BY <1>8 DEF Call
    <3> QED
      BY <3>1, <3>2, <3>3
  <2> QED
    BY <1>2, <2>1
<1>9. CASE Retry(r)
  <2>1. Moved([req[r] EXCEPT !.attempt = @ + 1])
    BY <1>1, <1>9 DEF Retry, Requests
  <2> QED
    BY <1>2, <2>1
<1> QED
  BY <1>5, <1>6, <1>7, <1>8, <1>9 DEF Choose, Outcome

\* What it does to the breaker.
LEMMA BreakerMoves ==
  ASSUME BreakerInv, NEW r \in Request, Submit(r) \/ Choose(r) \/ Outcome(r)
  PROVE  /\ slot' \in [Ref -> Slots] /\ strikes' \in [Ref -> Seq(Ages)]
         /\ \A p \in Ref : Remembered(slot'[p], strikes'[p])
<1>1. /\ slot \in [Ref -> Slots] /\ strikes \in [Ref -> Seq(Ages)]
      /\ \A p \in Ref : Remembered(slot[p], strikes[p])
  BY DEF BreakerInv, TypeOK
<1>2. ASSUME req[r].at <= Len(Chain)
      PROVE  Here(r) \in Ref
  BY <1>2, ChainAssumption DEF BreakerInv, TypeOK, Requests, Here
<1>3. CASE UNCHANGED <<slot, strikes>>
  BY <1>1, <1>3
<1>4. CASE SkipUnavailable(r) \/ Call(r)
  <2>1. /\ Here(r) \in Ref /\ strikes' = strikes
        /\ slot' = [slot EXCEPT ![Here(r)] = afterIsOpen(@)]
    BY <1>2, <1>4 DEF SkipUnavailable, Call
  <2>2. /\ afterIsOpen(slot[Here(r)]) \in Slots
        /\ Remembered(afterIsOpen(slot[Here(r)]), strikes[Here(r)])
    BY <1>1, <2>1, Looked
  <2> QED
    BY <1>1, <2>1, <2>2
<1>5. CASE Answer(r)
  <2>1. /\ Here(r) \in Ref
        /\ slot' = [slot EXCEPT ![Here(r)] = NoSlot]
        /\ strikes' = [strikes EXCEPT ![Here(r)] = <<>>]
    BY <1>2, <1>5 DEF Answer, recordSuccess, BreakerInv, TypeOK
  <2> QED
    BY <1>1, <2>1, Fresh
<1>6. CASE FailOver(r)
  <2>1. /\ Here(r) \in Ref
        /\ slot' = [slot EXCEPT ![Here(r)] = recordFailure(@)]
        /\ strikes' = [strikes EXCEPT ![Here(r)] = Youngest(Append(@, 0))]
    BY <1>2, <1>6 DEF FailOver, BreakerInv, TypeOK
  <2>2. /\ recordFailure(slot[Here(r)]) \in Slots
        /\ Youngest(Append(strikes[Here(r)], 0)) \in Seq(Ages)
        /\ Remembered(recordFailure(slot[Here(r)]), Youngest(Append(strikes[Here(r)], 0)))
    BY <1>1, <2>1, FailureRecorded
  <2> QED
    BY <1>1, <2>1, <2>2
<1>7. \/ UNCHANGED <<slot, strikes>>
      \/ SkipUnavailable(r) \/ Call(r) \/ Answer(r) \/ FailOver(r)
  BY DEF Submit, Choose, Outcome, SkipParked, Exhaust, Retry, FailFatal
<1> QED
  BY <1>3, <1>4, <1>5, <1>6, <1>7

\* Time passes for every reference.
LEMMA TickMoves ==
  ASSUME BreakerInv, Tick
  PROVE  /\ slot' \in [Ref -> Slots] /\ strikes' \in [Ref -> Seq(Ages)]
         /\ \A p \in Ref : /\ Remembered(slot'[p], strikes'[p])
                            /\ slot'[p].left <= slot[p].left
                            /\ slot'[p].left >= slot[p].left - 1
<1>1. ASSUME NEW p \in Ref
      PROVE  /\ slot'[p] \in Slots /\ strikes'[p] \in Seq(Ages)
             /\ Remembered(slot'[p], strikes'[p])
             /\ slot'[p].left <= slot[p].left
             /\ slot'[p].left >= slot[p].left - 1
  <2> DEFINE fs == slot[p].failures
             ss == strikes[p]
             fs1 == [i \in DOMAIN fs |-> Older(fs[i])]
             ss1 == [i \in DOMAIN ss |-> Older(ss[i])]
  <2>1. /\ slot[p] \in Slots /\ fs \in Seq(Ages) /\ ss \in Seq(Ages)
        /\ Falls(ss) /\ EndOf(fs, ss)
        /\ slot[p].left \in {-1} \cup 0 .. Park /\ Park \in Nat
    BY BreakerAssumption DEF BreakerInv, TypeOK, Remembered, Slots, NotParked
  <2>2. slot'[p] = [failures |-> fs1,
                    left |-> IF slot[p].left > 0 THEN slot[p].left - 1 ELSE slot[p].left]
        /\ strikes'[p] = ss1
    BY DEF Tick
  <2>3. /\ fs1 \in Seq(Ages) /\ Len(fs1) = Len(fs)
        /\ \A i \in 1..Len(fs) : fs1[i] = Older(fs[i])
        /\ ss1 \in Seq(Ages) /\ Len(ss1) = Len(ss)
        /\ \A i \in 1..Len(ss) : ss1[i] = Older(ss[i])
        /\ Falls(ss1)
    BY <2>1, AllAge
  <2> HIDE DEF fs, ss, fs1, ss1
  <2>4. EndOf(fs1, ss1)
    <3>1. ASSUME NEW i \in 1..Len(fs)
          PROVE  fs1[i] = ss1[i + Len(ss) - Len(fs)]
      <4>1. /\ Len(fs) \in Nat /\ Len(ss) \in Nat /\ Len(fs) <= Len(ss)
            /\ fs[i] = ss[i + Len(ss) - Len(fs)]
        BY <2>1 DEF EndOf
      <4>2. i + Len(ss) - Len(fs) \in 1..Len(ss)
        BY <4>1
      <4> QED
        BY <2>3, <4>1, <4>2
    <3> QED
      BY <2>1, <2>3, <3>1 DEF EndOf
  <2>5. slot'[p] \in Slots /\ slot'[p].failures = fs1
    BY <2>1, <2>2, <2>3 DEF Slots, NotParked
  <2>6. slot'[p].left <= slot[p].left /\ slot'[p].left >= slot[p].left - 1
    BY <2>1, <2>2
  <2> QED
    BY <2>2, <2>3, <2>4, <2>5, <2>6 DEF Remembered
<1>2. /\ slot' = [p \in Ref |-> slot'[p]] /\ strikes' = [p \in Ref |-> strikes'[p]]
  BY DEF Tick
<1> QED
  BY <1>1, <1>2

\* The breaker invariant holds at the start.
LEMMA InitInv == Init => BreakerInv
  BY Fresh DEF Init, BreakerInv, TypeOK

\* The breaker invariant is inductive.
LEMMA NextInv == BreakerInv /\ [Next]_vars => BreakerInv'
<1> SUFFICES ASSUME BreakerInv, [Next]_vars
             PROVE  BreakerInv'
  OBVIOUS
<1>1. ASSUME NEW r \in Request, Submit(r) \/ Choose(r) \/ Outcome(r)
      PROVE  BreakerInv'
  <2>1. TypeOK
    BY DEF BreakerInv
  <2> QED
    BY <1>1, <2>1, RequestMoves, BreakerMoves DEF BreakerInv, TypeOK, Remembered
<1>2. CASE Snapshot
  <2>1. /\ slot \in [Ref -> Slots] /\ strikes \in [Ref -> Seq(Ages)]
        /\ \A p \in Ref : Remembered(slot[p], strikes[p])
    BY DEF BreakerInv, TypeOK
  <2>2. /\ slot' \in [Ref -> Slots] /\ strikes' = strikes /\ req' = req
        /\ \A p \in Ref : Remembered(slot'[p], strikes[p])
    BY <1>2, <2>1, Looked DEF Snapshot
  <2> QED
    BY <2>1, <2>2 DEF BreakerInv, TypeOK
<1>3. CASE Tick
  <2>1. req' = req
    BY <1>3 DEF Tick
  <2> QED
    BY <1>3, <2>1, TickMoves DEF BreakerInv, TypeOK
<1>4. CASE Restart
  BY <1>4, Fresh DEF Restart, BreakerInv, TypeOK
<1>5. CASE UNCHANGED vars
  BY <1>5 DEF vars, BreakerInv, TypeOK
<1> QED
  BY <1>1, <1>2, <1>3, <1>4, <1>5 DEF Next

\* At all times the breaker holds the end of each provider's run of failures.
LEMMA SpecInv == Spec => []BreakerInv
  BY InitInv, NextInv, PTL DEF Spec

-----------------------------------------------------------------------------
(***************************************************************************)
(* The theorems.                                                           *)
(***************************************************************************)

\* The breaker and the requests stay within their types, and a request calls a
\* reference of its chain only (executeWithFailover).
THEOREM SpecTypeOK == Spec => []TypeOK
<1>1. BreakerInv => TypeOK
  BY DEF BreakerInv
<1> QED
  BY <1>1, SpecInv, PTL

\* A provider is parked for its own last failures in one window, whatever the
\* number of requests and the order of their answers (recordFailure).
THEOREM SpecParkIsEarned == Spec => ParkIsEarned
<1> DEFINE Earned == \A p \in Ref : slot'[p].left > slot[p].left /\ isOpen(slot'[p])
                                      => Struck(strikes'[p])
<1>1. ASSUME BreakerInv, [Next]_vars PROVE [Earned]_vars
  <2>1. /\ slot \in [Ref -> Slots] /\ strikes \in [Ref -> Seq(Ages)]
        /\ \A p \in Ref : Remembered(slot[p], strikes[p])
        /\ \A p \in Ref : slot[p].left \in Int
    BY <1>1, BreakerAssumption DEF BreakerInv, TypeOK, Slots, NotParked
  <2>2. ASSUME \A p \in Ref : slot'[p] = slot[p] \/ slot'[p] = NoSlot PROVE Earned
    BY <2>1, <2>2, Fresh
  <2>3. ASSUME NEW r \in Request, FailOver(r) PROVE Earned
    <3>1. /\ Here(r) \in Ref
          /\ slot' = [slot EXCEPT ![Here(r)] = recordFailure(@)]
          /\ strikes' = [strikes EXCEPT ![Here(r)] = Youngest(Append(@, 0))]
      BY <1>1, <2>3, ChainAssumption DEF FailOver, BreakerInv, TypeOK, Requests, Here
    <3>2. \/ recordFailure(slot[Here(r)]).left = slot[Here(r)].left
          \/ Struck(Youngest(Append(strikes[Here(r)], 0)))
      BY <2>1, <3>1, FailureRecorded
    <3> QED
      BY <2>1, <3>1, <3>2
  <2>4. ASSUME NEW r \in Request, Submit(r) \/ Choose(r) \/ (Outcome(r) /\ ~FailOver(r))
        PROVE  Earned
    <3>1. CASE slot' = slot
      BY <2>2, <3>1
    <3>2. CASE SkipUnavailable(r) \/ Call(r)
      <4>1. slot' = [slot EXCEPT ![Here(r)] = afterIsOpen(slot[Here(r)])]
        BY <3>2 DEF SkipUnavailable, Call
      <4>2. \A p \in Ref : slot'[p] = slot[p] \/ slot'[p] = NoSlot
        BY <2>1, <4>1, Looked
      <4> QED
        BY <2>2, <4>2
    <3>3. CASE Answer(r)
      <4>1. \A p \in Ref : slot'[p] = slot[p] \/ slot'[p] = NoSlot
        BY <2>1, <3>3 DEF Answer, recordSuccess
      <4> QED
        BY <2>2, <4>1
    <3>4. slot' = slot \/ SkipUnavailable(r) \/ Call(r) \/ Answer(r)
      BY <2>4 DEF Submit, Choose, Outcome, SkipParked, Exhaust, Retry, FailFatal
    <3> QED
      BY <3>1, <3>2, <3>3, <3>4
  <2>5. CASE Snapshot
    <3>1. \A p \in Ref : slot'[p] = slot[p] \/ slot'[p] = NoSlot
      BY <2>1, <2>5, Looked DEF Snapshot
    <3> QED
      BY <2>2, <3>1
  <2>6. CASE Tick
    <3>1. \A p \in Ref : slot'[p].left <= slot[p].left /\ slot'[p] \in Slots
      BY <1>1, <2>6, TickMoves
    <3>2. \A p \in Ref : slot'[p].left \in Int
      BY <3>1, BreakerAssumption DEF Slots, NotParked
    <3> QED
      BY <2>1, <3>1, <3>2
  <2>7. CASE Restart
    BY <2>2, <2>7 DEF Restart
  <2> QED
    BY <1>1, <2>3, <2>4, <2>5, <2>6, <2>7 DEF Next, Outcome
<1> QED
  BY <1>1, SpecInv, PTL DEF Spec, ParkIsEarned

\* A parked provider stays parked unless a request that was already calling it
\* is answered, or the process starts anew (recordSuccess, isOpen).
THEOREM SpecParkIsKept == Spec => ParkIsKept
<1> DEFINE Back(p) == \/ \E r \in Request : /\ req[r].pc = "calling" /\ Here(r) = p
                                            /\ req'[r].pc = "answered"
                      \/ \A r \in Request : req'[r] = Idle
           Kept == \A p \in Ref : isOpen(slot[p]) /\ slot'[p].left < slot[p].left - 1 => Back(p)
<1>1. ASSUME BreakerInv, [Next]_vars PROVE [Kept]_vars
  <2>1. /\ slot \in [Ref -> Slots] /\ strikes \in [Ref -> Seq(Ages)]
        /\ \A p \in Ref : Remembered(slot[p], strikes[p])
        /\ \A p \in Ref : slot[p].left \in Int
        /\ Park \in Nat /\ \A p \in Ref : slot[p].left <= Park
    BY <1>1, BreakerAssumption DEF BreakerInv, TypeOK, Slots, NotParked
  <2> HIDE DEF Back
  <2>2. ASSUME \A p \in Ref : \/ slot'[p] = slot[p]
                              \/ ~isOpen(slot[p])
                              \/ Back(p)
        PROVE  Kept
    BY <2>1, <2>2
  <2>3. ASSUME NEW r \in Request, Submit(r) \/ Choose(r) \/ Outcome(r) PROVE Kept
    <3>1. CASE slot' = slot
      BY <2>2, <3>1
    <3>2. CASE SkipUnavailable(r) \/ Call(r)
      <4>1. /\ ~isOpen(slot[Here(r)])
            /\ slot' = [slot EXCEPT ![Here(r)] = afterIsOpen(slot[Here(r)])]
        BY <3>2 DEF SkipUnavailable, Call
      <4> QED
        BY <2>1, <2>2, <4>1
    <3>3. CASE Answer(r)
      <4>1. Back(Here(r))
        BY <1>1, <3>3 DEF Answer, End, Idle, Back, BreakerInv, TypeOK
      <4>2. slot' = [slot EXCEPT ![Here(r)] = recordSuccess(slot[Here(r)])]
        BY <3>3 DEF Answer
      <4> QED
        BY <2>1, <2>2, <4>1, <4>2
    <3>4. CASE FailOver(r)
      <4>1. slot' = [slot EXCEPT ![Here(r)] = recordFailure(slot[Here(r)])]
        BY <3>4 DEF FailOver
      <4>2. \A p \in Ref : slot'[p].left = slot[p].left \/ slot'[p].left = Park
        BY <2>1, <4>1 DEF recordFailure
      <4> QED
        BY <2>1, <4>2
    <3>5. slot' = slot \/ SkipUnavailable(r) \/ Call(r) \/ Answer(r) \/ FailOver(r)
      BY <2>3 DEF Submit, Choose, Outcome, SkipParked, Exhaust, Retry, FailFatal
    <3> QED
      BY <3>1, <3>2, <3>3, <3>4, <3>5
  <2>4. CASE Snapshot
    <3>1. \A p \in Ref : slot'[p] = slot[p] \/ slot[p].left = 0
      BY <2>1, <2>4, Looked DEF Snapshot
    <3> QED
      BY <2>1, <2>2, <3>1 DEF isOpen
  <2>5. CASE Tick
    <3>1. \A p \in Ref : slot'[p].left >= slot[p].left - 1 /\ slot'[p] \in Slots
      BY <1>1, <2>5, TickMoves
    <3>2. \A p \in Ref : slot'[p].left \in Int
      BY <3>1, BreakerAssumption DEF Slots, NotParked
    <3> QED
      BY <2>1, <3>1, <3>2
  <2>6. CASE Restart
    <3>1. \A p \in Ref : Back(p)
      BY <2>6 DEF Restart, Back
    <3> QED
      BY <2>2, <3>1
  <2> QED
    BY <1>1, <2>3, <2>4, <2>5, <2>6 DEF Next
<1> QED
  BY <1>1, SpecInv, PTL DEF Spec, ParkIsKept
=============================================================================
