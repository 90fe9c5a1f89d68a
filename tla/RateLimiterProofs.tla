-------------------------- MODULE RateLimiterProofs --------------------------
(***************************************************************************)
(* Proofs about RateLimiter and RateLimiterHistory, for every set of       *)
(* clients and limits, every window, every resolution of the clock, every  *)
(* width of the counters and every rounding of the products.  Three of     *)
(* them ask that the counts cannot wrap (NoWrap).                          *)
(***************************************************************************)
EXTENDS RateLimiterHistory, SequenceTheorems, WellFoundedInduction, TLAPS

(* The window is some ticks long. *)
LEMMA WindowType == Window \in Nat \ {0}
  BY WindowAssumption DEF Window

(* What is used of division by a positive number. *)
LEMMA Division ==
    ASSUME NEW a \in Int, NEW n \in Nat \ {0}
    PROVE  /\ a \div n \in Int
           /\ n * (a \div n) <= a
           /\ a < n * (a \div n) + n
           /\ a % n = a - n * (a \div n)
<1> DEFINE q == a \div n
<1>1. q \in Int /\ n * q <= a /\ a < n * (q + 1)
  OBVIOUS
<1>2. n * (q + 1) = n * q + n
  BY <1>1
<1>3. a % n = a - n * q
  OBVIOUS
<1> QED BY <1>1, <1>2, <1>3

(* Comparing products compares the factors. *)
LEMMA Cancel ==
    ASSUME NEW n \in Nat \ {0}, NEW a \in Int, NEW b \in Int, n * a < n * b + n
    PROVE  a <= b
<1>1. CASE a >= b + 1
  <2>1. n * a >= n * (b + 1)
    BY <1>1
  <2>2. n * (b + 1) = n * b + n
    OBVIOUS
  <2> QED BY <2>1, <2>2
<1> QED BY <1>1

(* A quotient is at least m exactly if the number is at least m times as much. *)
LEMMA Quotient ==
    ASSUME NEW a \in Int, NEW n \in Nat \ {0}, NEW m \in Int
    PROVE  a \div n >= m <=> a >= n * m
<1> DEFINE q == a \div n
<1>1. q \in Int /\ n * q <= a /\ a < n * q + n
  BY Division
<1> HIDE DEF q
<1>2. ASSUME q >= m PROVE a >= n * m
  <2>1. n * q >= n * m
    BY <1>1, <1>2
  <2> QED BY <1>1, <2>1
<1>3. ASSUME a >= n * m PROVE q >= m
  <2>1. n * m < n * q + n
    BY <1>1, <1>3
  <2> QED BY <1>1, <2>1, Cancel
<1> QED BY <1>2, <1>3 DEF q

(* The code's windows_passed >= 2, in whole seconds twice over, says that two whole
   windows have passed. *)
LEMMA TwoWindows ==
    ASSUME NEW e \in Nat
    PROVE  AsSecs(e) \div WindowSecs >= 2 <=> e >= 2 * Window
<1>1. AsSecs(e) \in Int
  BY Division, WindowAssumption DEF AsSecs
<1>2. AsSecs(e) \div WindowSecs >= 2 <=> AsSecs(e) >= WindowSecs * 2
  BY <1>1, Quotient, WindowAssumption
<1>3. AsSecs(e) >= WindowSecs * 2 <=> e >= Second * (WindowSecs * 2)
  <2>1. WindowSecs * 2 \in Int
    BY WindowAssumption
  <2> QED BY <2>1, Quotient, WindowAssumption DEF AsSecs
<1>4. Second * (WindowSecs * 2) = 2 * Window
  BY WindowAssumption DEF Window
<1> QED BY <1>2, <1>3, <1>4

(* What is left of a window, in whole seconds. *)
LEMMA LeftType ==
    ASSUME NEW left \in 0 .. Window
    PROVE  AsSecs(left) \in 0 .. WindowSecs
<1>1. AsSecs(left) \in Int /\ Second * AsSecs(left) <= left
  BY Division, WindowAssumption, WindowType DEF AsSecs
<1>2. AsSecs(left) >= 0
  BY Quotient, WindowAssumption, WindowType DEF AsSecs
<1>3. AsSecs(left) <= WindowSecs
  <2> DEFINE q == AsSecs(left)
  <2>1. q \in Int /\ Second * q <= left /\ left <= Second * WindowSecs
    BY <1>1, WindowAssumption, WindowType DEF Window
  <2> HIDE DEF q
  <2>2. Second * q < Second * WindowSecs + Second
    BY <2>1, WindowAssumption
  <2> QED BY <2>1, <2>2, Cancel, WindowAssumption DEF q
<1> QED BY <1>1, <1>2, <1>3, WindowAssumption

(* The counter a check works on is well formed and its window is not over. *)
LEMMA EntryType ==
    ASSUME TypeOK, NEW c \in Clients
    PROVE  /\ Entry(c) \in Counter
           /\ Entry(c).start <= now
           /\ Elapsed(Entry(c)) \in 0 .. Window - 1
<1>1. Fresh \in Counter /\ Fresh.start = now /\ Elapsed(Fresh) = 0
  BY WordAssumption, TimeAssumption DEF Fresh, Counter, U32, TypeOK, Elapsed
<1> DEFINE entry == IF counters[c] = Absent THEN Fresh ELSE counters[c]
<1>2. entry \in Counter /\ entry.start <= now
  BY <1>1 DEF TypeOK
<1>3. entry.start \in Nat /\ entry.current \in U32 /\ now \in Nat
  BY <1>2 DEF Counter, TypeOK
<1>4. CASE Elapsed(entry) < Window
  BY <1>2, <1>3, <1>4, WindowType DEF Entry, Rolled, Elapsed
<1>5. CASE ~(Elapsed(entry) < Window) /\ AsSecs(Elapsed(entry)) \div WindowSecs >= 2
  BY <1>1, <1>5, WindowType DEF Entry, Rolled, TypeOK
<1>6. CASE ~(Elapsed(entry) < Window) /\ ~(AsSecs(Elapsed(entry)) \div WindowSecs >= 2)
  <2>1. Entry(c) = [Fresh EXCEPT !.previous = entry.current]
    BY <1>6 DEF Entry, Rolled
  <2>2. Entry(c) \in Counter /\ Entry(c).start = now
    BY <1>1, <1>3, <2>1 DEF Counter
  <2> QED
    BY <2>2, <1>3, WindowType DEF Elapsed
<1> QED
  BY <1>4, <1>5, <1>6

(* Whatever was counted, the weighted count is a u32. *)
LEMMA WeightedType ==
    ASSUME NEW counter \in Counter, now \in Nat
    PROVE  Weighted(counter) \in U32
<1> DEFINE product == Product(counter.previous, Elapsed(counter))
<1>1. counter.current \in Nat /\ counter.previous \in Nat /\ Elapsed(counter) \in Int
  BY WordAssumption, TimeAssumption DEF Counter, U32, Elapsed
<1>2. product \in Int
  BY <1>1, WindowType DEF Product
<1>3. product \div Window \in Int
  <2> HIDE DEF product
  <2> QED
    BY <1>2, WindowType
<1>4. Overlap(counter.previous, Elapsed(counter)) \in Int
  BY <1>3 DEF Overlap
<1> HIDE DEF product
<1>5. counter.current + Overlap(counter.previous, Elapsed(counter)) \in Int
  BY <1>1, <1>4
<1> QED
  BY <1>5, WordAssumption DEF Weighted, U32

-----------------------------------------------------------------------------

LEMMA TypeInit == Init => TypeOK
  BY TimeAssumption DEF Init, TypeOK

LEMMA TypeStep == TypeOK /\ [Next]_vars => TypeOK'
<1> SUFFICES ASSUME TypeOK, [Next]_vars PROVE TypeOK'
  OBVIOUS
<1>1. ASSUME NEW c \in Clients, NEW limit \in Limits, Deny(c, limit) PROVE TypeOK'
  <2>1. /\ Entry(c) \in Counter /\ Entry(c).start <= now
        /\ Elapsed(Entry(c)) \in 0 .. Window - 1
    BY EntryType
  <2>2. AsSecs(Window - Elapsed(Entry(c))) \in 0 .. WindowSecs
    <3>1. Window - Elapsed(Entry(c)) \in 0 .. Window
      BY <2>1, WindowType
    <3> QED
      BY <3>1, LeftType
  <2>3. answers'[c] \in Result
    BY <1>1, <2>2, WindowAssumption, WordAssumption
    DEF Deny, Result, AtLeastOne, U32, TypeOK
  <2>4. counters'[c] = Entry(c) /\ counters' \in [Clients -> Counter \cup {Absent}]
    BY <1>1, <2>1 DEF Deny, TypeOK
  <2>5. \A d \in Clients : d # c => counters'[d] = counters[d]
    BY <1>1 DEF Deny, TypeOK
  <2>6. answers' \in [Clients -> Result \cup {Unasked}]
    BY <1>1, <2>3 DEF Deny, TypeOK
  <2>7. now' = now
    BY <1>1 DEF Deny
  <2> QED
    BY <2>1, <2>4, <2>5, <2>6, <2>7 DEF TypeOK
<1>2. ASSUME NEW c \in Clients, NEW limit \in Limits, Allow(c, limit) PROVE TypeOK'
  <2> DEFINE counted == [Entry(c) EXCEPT !.current = SaturatingIncrement(@)]
  <2>1. /\ Entry(c) \in Counter /\ Entry(c).start <= now
        /\ Elapsed(Entry(c)) \in 0 .. Window - 1
    BY EntryType
  <2>2. AsSecs(Window - Elapsed(Entry(c))) \in 0 .. WindowSecs
    <3>1. Window - Elapsed(Entry(c)) \in 0 .. Window
      BY <2>1, WindowType
    <3> QED
      BY <3>1, LeftType
  <2>3. Weighted(Entry(c)) \in U32 /\ limit \in U32
    BY <2>1, WeightedType, WordAssumption DEF TypeOK, U32
  <2>4. Remaining(Entry(c), limit) \in U32
    BY <2>3, WordAssumption DEF Remaining, SaturatingMinus, U32
  <2>5. answers'[c] \in Result
    BY <1>2, <2>2, <2>4, WindowAssumption DEF Allow, Result, TypeOK
  <2>6. counted \in Counter /\ counted.start = Entry(c).start
    BY <2>1, WordAssumption DEF Counter, SaturatingIncrement, U32
  <2>7. counters'[c] = counted /\ counters' \in [Clients -> Counter \cup {Absent}]
    BY <1>2, <2>6 DEF Allow, TypeOK
  <2>8. \A d \in Clients : d # c => counters'[d] = counters[d]
    BY <1>2 DEF Allow, TypeOK
  <2>9. answers' \in [Clients -> Result \cup {Unasked}]
    BY <1>2, <2>5 DEF Allow, TypeOK
  <2>10. now' = now
    BY <1>2 DEF Allow
  <2> HIDE DEF counted
  <2> QED
    BY <2>1, <2>6, <2>7, <2>8, <2>9, <2>10 DEF TypeOK
<1>3. CASE Prune
  BY <1>3 DEF Prune, TypeOK
<1>4. CASE Tick
  <2>1. now' \in 0 .. MaxTime /\ now <= now'
    BY <1>4, TimeAssumption DEF Tick, TypeOK
  <2>2. ASSUME NEW c \in Clients, counters[c] # Absent PROVE counters[c].start <= now'
    <3>1. counters[c] \in Counter /\ counters[c].start <= now
      BY <2>2 DEF TypeOK
    <3> QED
      BY <2>1, <3>1, TimeAssumption DEF TypeOK, Counter
  <2> QED
    BY <1>4, <2>1, <2>2 DEF Tick, TypeOK
<1>5. CASE UNCHANGED vars
  BY <1>5 DEF vars, TypeOK
<1> QED
  BY <1>1, <1>2, <1>3, <1>4, <1>5 DEF Next, Check

(* The limiter keeps the types of its variables: counts and answers stay within
   u32, whatever the limits, and a window is never over after a check. *)
THEOREM LimiterTypes == Spec => []TypeOK
<1>1. Init => TypeOK
  BY TypeInit
<1>2. TypeOK /\ [Next]_vars => TypeOK'
  BY TypeStep
<1> QED
  BY <1>1, <1>2, PTL DEF Spec

-----------------------------------------------------------------------------

(* Opening the abstract window is what making and rotating an entry is: the
   boundaries of one and of two windows, and a missing entry, agree. *)
LEMMA OpenIsEntry ==
    ASSUME TypeOK, NEW c \in Clients
    PROVE  Sliding!Open(Slot(c)) =
             [current |-> Entry(c).current, previous |-> Entry(c).previous,
              age |-> Elapsed(Entry(c))]
<1>1. now \in Nat /\ Window \in Nat \ {0}
  BY WindowType, TimeAssumption DEF TypeOK
<1>2. CASE counters[c] = Absent
  <2>1. Entry(c) = Fresh /\ Elapsed(Fresh) = 0
    BY <1>1, <1>2 DEF Entry, Rolled, Elapsed, Fresh
  <2>2. Slot(c) = [current |-> 0, previous |-> 0, age |-> 2 * Window]
    BY <1>2 DEF Slot
  <2> QED
    BY <1>1, <2>1, <2>2 DEF Fresh, Sliding!Open
<1>3. CASE counters[c] # Absent
  <2> DEFINE counter == counters[c]
  <2>1. counter \in Counter /\ Elapsed(counter) \in Nat
    <3>1. counter \in Counter /\ counter.start <= now
      BY <1>3 DEF TypeOK
    <3> QED
      BY <1>1, <3>1 DEF Counter, Elapsed
  <2>2. AsSecs(Elapsed(counter)) \div WindowSecs >= 2 <=> Elapsed(counter) >= 2 * Window
    BY <2>1, TwoWindows
  <2>3. Entry(c) = Rolled(counter)
    BY <1>3 DEF Entry
  <2>4. Elapsed(Fresh) = 0
    BY <1>1 DEF Elapsed, Fresh
  <2>5. CASE Elapsed(counter) < Window
    BY <1>1, <1>3, <2>1, <2>3, <2>5 DEF Rolled, Slot, Kept, Sliding!Open
  <2>6. CASE Elapsed(counter) >= Window /\ Elapsed(counter) < 2 * Window
    <3>1. Entry(c) = [Fresh EXCEPT !.previous = counter.current]
      BY <1>1, <2>1, <2>2, <2>3, <2>6 DEF Rolled
    <3>2. Slot(c) = [current |-> counter.current, previous |-> counter.previous,
                     age |-> Elapsed(counter)]
      BY <1>3, <2>6 DEF Slot, Kept
    <3>3. ~(Slot(c).age < Window)
      BY <1>1, <2>1, <2>6, <3>2
    <3>4. Elapsed(Entry(c)) = 0
      BY <2>4, <3>1 DEF Elapsed, Fresh
    <3> QED
      BY <3>1, <3>2, <3>3, <3>4 DEF Fresh, Sliding!Open
  <2>7. CASE Elapsed(counter) >= 2 * Window
    <3>1. Entry(c) = Fresh
      BY <1>1, <2>1, <2>2, <2>3, <2>7 DEF Rolled
    <3>2. Slot(c) = [current |-> 0, previous |-> 0, age |-> 2 * Window]
      BY <1>1, <2>1, <2>7 DEF Slot, Kept
    <3> QED
      BY <1>1, <2>4, <3>1, <3>2 DEF Fresh, Sliding!Open
  <2> QED
    BY <1>1, <2>1, <2>5, <2>6, <2>7
<1> QED
  BY <1>2, <1>3

(* A check is one step of the abstract limiter, with the same answer. *)
LEMMA CheckIsAsk ==
    ASSUME TypeOK, NEW c \in Clients, NEW limit \in Limits, Check(c, limit)
    PROVE  Sliding!Ask(c, limit)
<1> DEFINE entry == Entry(c)
           slot == [current |-> entry.current, previous |-> entry.previous,
                    age |-> Elapsed(entry)]
           fits == Weighted(entry) < limit
           left == AsSecs(Window - Elapsed(entry))
<1>1. entry \in Counter /\ Elapsed(entry) \in 0 .. Window - 1
  BY EntryType
<1>2. Sliding!Open(Slot(c)) = slot
  BY OpenIsEntry
<1>3. Sliding!Used(slot) = Weighted(entry)
  BY DEF Sliding!Used, Weighted
<1>4. Weighted(entry) \in Nat /\ limit \in Nat /\ entry.current \in Nat
  BY <1>1, WeightedType, WordAssumption, TimeAssumption DEF TypeOK, U32, Counter
<1>5. left \in Nat
  <2>1. Window - Elapsed(entry) \in 0 .. Window
    BY <1>1, WindowType
  <2> QED
    BY <2>1, LeftType, WindowAssumption
<1>6. now' = now
  BY DEF Check, Deny, Allow
<1>7. ASSUME NEW d \in Clients, d # c PROVE Slot(d)' = Slot(d)
  <2>1. counters'[d] = counters[d]
    BY <1>7 DEF Check, Deny, Allow, TypeOK
  <2> QED
    BY <1>6, <2>1 DEF Slot, Kept, Elapsed
<1>8. counters'[c] = IF fits THEN [entry EXCEPT !.current = SaturatingIncrement(@)]
                             ELSE entry
  BY <1>4 DEF Check, Deny, Allow, Exhausted, TypeOK
<1>9. Slot(c)' = IF fits /\ slot.current + 1 < Word
                 THEN [slot EXCEPT !.current = @ + 1] ELSE slot
  <2>1. counters'[c] \in Counter /\ counters'[c].start = entry.start
    BY <1>1, <1>4, <1>8, WordAssumption DEF Counter, SaturatingIncrement, U32
  <2>2. counters'[c] # Absent /\ Elapsed(counters[c])' = Elapsed(entry)
    BY <1>6, <2>1, NullAssumption DEF Elapsed
  <2>3. Kept(counters[c])'
    BY <1>1, <2>2, WindowType DEF Kept
  <2>4. Slot(c)' = [current |-> counters'[c].current,
                    previous |-> counters'[c].previous, age |-> Elapsed(entry)]
    BY <2>2, <2>3 DEF Slot
  <2>5. CASE fits /\ entry.current + 1 < Word
    BY <1>1, <1>8, <2>4, <2>5 DEF SaturatingIncrement, Counter
  <2>6. CASE fits /\ ~(entry.current + 1 < Word)
    BY <1>1, <1>8, <2>4, <2>6 DEF SaturatingIncrement, Counter
  <2>7. CASE ~fits
    BY <1>8, <2>4, <2>7
  <2> QED
    BY <2>5, <2>6, <2>7
<1>10. [d \in Clients |-> Slot(d)]' =
          [[d \in Clients |-> Slot(d)] EXCEPT ![c] =
             IF fits /\ slot.current + 1 < Word
             THEN [slot EXCEPT !.current = @ + 1] ELSE slot]
  BY <1>7, <1>9
<1>11. answers' = [answers EXCEPT ![c] =
          [allowed |-> fits, limit |-> limit,
           remaining |-> IF Weighted(entry) + 1 < limit
                         THEN limit - (Weighted(entry) + 1) ELSE 0,
           reset |-> left,
           retry |-> IF fits THEN 0 ELSE IF left = 0 THEN 1 ELSE left]]
  <2>1. CASE fits
    <3>1. Allow(c, limit)
      BY <1>4, <2>1 DEF Check, Deny, Exhausted
    <3> QED
      BY <2>1, <3>1 DEF Allow, Remaining, SaturatingMinus
  <2>2. CASE ~fits
    <3>1. Deny(c, limit)
      BY <1>4, <2>2 DEF Check, Allow, Exhausted
    <3>2. ~(Weighted(entry) + 1 < limit)
      BY <1>4, <2>2
    <3>3. AtLeastOne(left) = IF left = 0 THEN 1 ELSE left
      <4> HIDE DEF left
      <4> QED
        BY <1>5 DEF AtLeastOne
    <3>4. fits = FALSE
      BY <2>2
    <3>5. answers' = [answers EXCEPT ![c] =
            [allowed |-> FALSE, limit |-> limit, remaining |-> 0,
             reset |-> left, retry |-> IF left = 0 THEN 1 ELSE left]]
      BY <3>1, <3>3 DEF Deny
    <3> HIDE DEF fits, entry, left
    <3> QED
      BY <3>2, <3>4, <3>5
  <2> QED
    BY <2>1, <2>2
<1>12. [d \in Clients |-> Slot(d)][c] = Slot(c)
  OBVIOUS
<1>13. left = (Window - slot.age) \div Second /\ fits = (Sliding!Used(slot) < limit)
  BY <1>3 DEF AsSecs
<1> HIDE DEF entry, slot, fits, left
<1> QED
  BY <1>2, <1>3, <1>6, <1>10, <1>11, <1>12, <1>13 DEF Sliding!Ask

-----------------------------------------------------------------------------

LEMMA SlidingInit == Init => Sliding!Init
  BY DEF Init, Sliding!Init, Slot, Sliding!Idle

LEMMA SlidingStep == TypeOK /\ [Next]_vars => [Sliding!Next]_(Sliding!vars)
<1> SUFFICES ASSUME TypeOK, [Next]_vars PROVE [Sliding!Next]_(Sliding!vars)
  OBVIOUS
<1>1. ASSUME NEW c \in Clients, NEW limit \in Limits, Check(c, limit)
      PROVE  Sliding!Next
  BY <1>1, CheckIsAsk DEF Sliding!Next
<1>2. CASE Prune
  <2>1. ASSUME NEW c \in Clients PROVE Slot(c)' = Slot(c)
    <3>1. now' = now
      BY <1>2 DEF Prune
    <3>2. CASE counters[c] # Absent /\ Kept(counters[c])
      <4>1. counters'[c] = counters[c]
        BY <1>2, <3>2 DEF Prune
      <4> QED
        BY <3>1, <4>1 DEF Slot, Kept, Elapsed
    <3>3. CASE ~(counters[c] # Absent /\ Kept(counters[c]))
      <4>1. counters'[c] = Absent
        BY <1>2, <3>3 DEF Prune
      <4> QED
        BY <3>3, <4>1 DEF Slot
    <3> QED
      BY <3>2, <3>3
  <2>2. [c \in Clients |-> Slot(c)]' = [c \in Clients |-> Slot(c)]
    BY <2>1
  <2> QED
    BY <1>2, <2>2 DEF Prune, Sliding!vars
<1>3. CASE Tick
  <2>1. now' = now + 1 /\ now \in Nat /\ Window \in Nat \ {0} /\ counters' = counters
    BY <1>3, WindowType, TimeAssumption DEF Tick, TypeOK
  <2>2. ASSUME NEW c \in Clients PROVE Slot(c)' = Sliding!Older(Slot(c))
    <3>1. CASE counters[c] = Absent
      <4>1. Slot(c) = Sliding!Idle /\ Slot(c)' = Sliding!Idle
        BY <2>1, <3>1 DEF Slot, Sliding!Idle
      <4> QED
        BY <2>1, <4>1 DEF Sliding!Older, Sliding!Idle
    <3>2. CASE counters[c] # Absent
      <4> DEFINE counter == counters[c]
      <4>1. counter \in Counter /\ Elapsed(counter) \in Nat
        <5>1. counter \in Counter /\ counter.start <= now
          BY <3>2 DEF TypeOK
        <5> QED
          BY <2>1, <5>1 DEF Counter, Elapsed
      <4>2. Elapsed(counters[c])' = Elapsed(counter) + 1
        BY <2>1, <4>1 DEF Elapsed, Counter
      <4>3. CASE Elapsed(counter) + 1 < 2 * Window
        <5>1. Kept(counters[c]) /\ Kept(counters[c])'
          BY <2>1, <4>1, <4>2, <4>3 DEF Kept
        <5>2. Slot(c)' = [current |-> counter.current, previous |-> counter.previous,
                          age |-> Elapsed(counter) + 1]
          BY <2>1, <3>2, <4>2, <5>1 DEF Slot
        <5>3. Slot(c) = [current |-> counter.current, previous |-> counter.previous,
                         age |-> Elapsed(counter)]
          BY <3>2, <5>1 DEF Slot
        <5> QED
          BY <4>3, <5>2, <5>3 DEF Sliding!Older
      <4>4. CASE ~(Elapsed(counter) + 1 < 2 * Window)
        <5>1. ~Kept(counters[c])'
          BY <2>1, <4>1, <4>2, <4>4 DEF Kept
        <5>2. Slot(c)' = Sliding!Idle
          BY <5>1 DEF Slot, Sliding!Idle
        <5>3. ~(Slot(c).age + 1 < 2 * Window)
          BY <2>1, <4>1, <4>4 DEF Slot
        <5> QED
          BY <5>2, <5>3 DEF Sliding!Older
      <4> QED
        BY <4>3, <4>4
    <3> QED
      BY <3>1, <3>2
  <2>3. [c \in Clients |-> Slot(c)]' =
          [c \in Clients |-> Sliding!Older([d \in Clients |-> Slot(d)][c])]
    BY <2>2
  <2>4. Sliding!Pass
    BY <1>3, <2>3 DEF Tick, Sliding!Pass
  <2> QED
    BY <2>4 DEF Sliding!Next
<1>4. CASE UNCHANGED vars
  BY <1>4 DEF vars, Sliding!vars, Slot, Kept, Elapsed
<1> QED
  BY <1>1, <1>2, <1>3, <1>4 DEF Next

(* Pruning and the laziness of the map cannot be noticed: every behaviour of the
   limiter, answers included, is one of the limiter that never prunes. *)
THEOREM PruningUnnoticed == Spec => SlidingSpec
<1>1. Init => Sliding!Init
  BY SlidingInit
<1>2. TypeOK /\ [Next]_vars => [Sliding!Next]_(Sliding!vars)
  BY SlidingStep
<1> QED
  BY <1>1, <1>2, LimiterTypes, PTL DEF Spec, SlidingSpec, Sliding!Spec

-----------------------------------------------------------------------------

(* Among some numbers there is a least one, *)
LEMMA Least ==
    ASSUME NEW S \in SUBSET Nat, S # {}
    PROVE  \E n \in S : \A m \in S : n <= m
<1>1. PICK n \in S : \A m \in S : ~(<<m, n>> \in OpToRel(<, Nat))
  BY NatLessThanWellFounded, WFMin, Zenon
<1>2. \A m \in S : ~(m < n)
  BY <1>1 DEF OpToRel
<1>3. n \in Nat /\ \A m \in S : m \in Nat
  OBVIOUS
<1> QED BY <1>2, <1>3

(* and so among some limits a greatest one. *)
LEMMA GreatestIsLimit ==
    ASSUME Limits # {}
    PROVE  Greatest \in Limits /\ \A l \in Limits : l <= Greatest
<1> DEFINE gaps == {n \in Nat : \E l \in Limits : n = Word - l}
<1>1. gaps # {} /\ gaps \in SUBSET Nat
  <2>1. PICK l \in Limits : TRUE
    OBVIOUS
  <2>2. Word - l \in gaps
    BY WordAssumption
  <2> QED BY <2>2
<1>2. PICK n \in gaps : \A m \in gaps : n <= m
  BY <1>1, Least
<1>3. PICK g \in Limits : n = Word - g
  BY <1>2
<1>4. \A l \in Limits : l <= g
  <2> SUFFICES ASSUME NEW l \in Limits PROVE l <= g
    OBVIOUS
  <2>1. Word - l \in gaps
    BY WordAssumption
  <2>2. n <= Word - l
    BY <1>2, <2>1
  <2>3. l \in Nat /\ g \in Nat /\ Word \in Nat
    BY WordAssumption
  <2> QED BY <1>3, <2>2, <2>3
<1>5. \E l \in Limits : \A m \in Limits : m <= l
  BY <1>4
<1> QED BY <1>5, Zenon DEF Greatest

(* The overlap counts no more than there was, and all of it at the very beginning,
   whatever is rounded. *)
LEMMA OverlapWithin ==
    ASSUME NEW p \in U32, NEW e \in 0 .. Window - 1
    PROVE  Overlap(p, e) \in 0 .. p /\ (e = 0 => Overlap(p, e) = p)
<1> DEFINE product == Product(p, e)
           whole == product \div Window
           down == <<p, e>> \in RoundedDown
           up == <<p, e>> \in RoundedUp
<1>1. p \in Nat /\ Window \in Nat \ {0} /\ e \in 0 .. Window - 1
  BY WordAssumption, WindowType DEF U32
<1>2. product \in Nat /\ product <= Window * p /\ (e > 0 /\ p > 0 => product < Window * p)
      /\ (e = 0 => product = Window * p)
  <2> DEFINE w == Window - e
  <2>1. w \in 0 .. Window /\ (e > 0 => w < Window) /\ (e = 0 => w = Window)
    BY <1>1
  <2> HIDE DEF w
  <2>2. p * w \in Nat /\ p * w <= Window * p
    BY <1>1, <2>1
  <2>3. e > 0 /\ p > 0 => p * w < Window * p
    <3> SUFFICES ASSUME e > 0, p > 0 PROVE p * w < Window * p
      OBVIOUS
    <3>1. w + 1 <= Window
      BY <1>1, <2>1
    <3>2. p * (w + 1) <= p * Window
      BY <1>1, <2>1, <3>1
    <3>3. p * (w + 1) = p * w + p /\ p * Window = Window * p
      BY <1>1, <2>1
    <3> QED BY <1>1, <2>2, <3>2, <3>3
  <2>4. e = 0 => p * w = Window * p
    BY <1>1, <2>1
  <2> QED BY <2>2, <2>3, <2>4 DEF Product, w
<1>3. Overlap(p, e) = whole - (IF down THEN 1 ELSE 0) + (IF up THEN 1 ELSE 0)
  BY DEF Overlap
<1>4. down => e > 0 /\ product >= Window
  BY RoundingAssumption DEF MayRoundDown
<1>5. up => e > 0 /\ p > 0 /\ ~down
  BY RoundingAssumption DEF MayRoundUp
<1> HIDE DEF product
<1>6. whole \in Int /\ Window * whole <= product /\ product < Window * whole + Window
  BY <1>1, <1>2, Division
<1>7. whole >= 0 /\ (product >= Window => whole >= 1)
  BY <1>1, <1>2, Quotient
<1> HIDE DEF whole, down, up
<1>8. whole <= p
  <2>1. Window * whole < Window * p + Window
    BY <1>1, <1>2, <1>6
  <2> QED BY <1>1, <1>6, <2>1, Cancel
<1>9. e > 0 /\ p > 0 => whole <= p - 1
  <2> SUFFICES ASSUME e > 0, p > 0 PROVE whole <= p - 1
    OBVIOUS
  <2>1. Window * (p - 1) + Window = Window * p
    BY <1>1
  <2>2. Window * whole < Window * (p - 1) + Window
    BY <1>1, <1>2, <1>6, <2>1
  <2> QED BY <1>1, <1>6, <2>2, Cancel
<1>10. e = 0 => whole = p
  BY <1>1, <1>2, <1>6, <1>7, <1>8, Quotient DEF whole
<1> QED BY <1>1, <1>3, <1>4, <1>5, <1>6, <1>7, <1>8, <1>9, <1>10

-----------------------------------------------------------------------------

(* More time holds no fewer windows, *)
LEMMA WindowsGrow ==
    ASSUME NEW a \in Nat, NEW b \in Nat, a <= b
    PROVE  Windows(a) \in Nat /\ Windows(b) \in Nat /\ Windows(a) <= Windows(b)
<1>1. ASSUME NEW t \in Nat
      PROVE  Windows(t) \in Int /\ \A m \in Int : Windows(t) >= m <=> t + Window - 1 >= Window * m
  <2>1. t + Window - 1 \in Int
    BY WindowType
  <2> QED BY <2>1, Division, Quotient, WindowType DEF Windows
<1>2. Windows(a) >= 0 /\ Windows(b) >= 0
  BY <1>1, WindowType
<1> DEFINE m == Windows(a)
<1>3. m \in Int /\ a + Window - 1 >= Window * m
  BY <1>1
<1> HIDE DEF m
<1>4. b + Window - 1 >= Window * m
  BY <1>3, WindowType
<1>5. Windows(b) >= m
  BY <1>1, <1>3, <1>4
<1> QED BY <1>1, <1>2, <1>5 DEF m

(* a window more one more, *)
LEMMA WindowsNext ==
    ASSUME NEW a \in Nat, NEW b \in Nat, a + Window <= b
    PROVE  Windows(a) + 1 <= Windows(b)
<1>1. ASSUME NEW t \in Nat
      PROVE  Windows(t) \in Int /\ \A m \in Int : Windows(t) >= m <=> t + Window - 1 >= Window * m
  <2>1. t + Window - 1 \in Int
    BY WindowType
  <2> QED BY <2>1, Division, Quotient, WindowType DEF Windows
<1> DEFINE m == Windows(a)
<1>2. m \in Int /\ a + Window - 1 >= Window * m
  BY <1>1
<1> HIDE DEF m
<1>3. Window * (m + 1) = Window * m + Window
  BY <1>2, WindowType
<1>4. b + Window - 1 >= Window * (m + 1)
  BY <1>2, <1>3, WindowType
<1>5. Windows(b) >= m + 1
  BY <1>1, <1>2, <1>4
<1>6. Windows(b) \in Int
  BY <1>1
<1> QED BY <1>2, <1>5, <1>6 DEF m

(* and so no time at all none, any other at least one. *)
LEMMA WindowsSome ==
    /\ Windows(0) = 0
    /\ \A a \in Nat \ {0} : Windows(a) >= 1 /\ (a <= Window => Windows(a) = 1)
<1>1. ASSUME NEW t \in Nat
      PROVE  Windows(t) \in Int /\ \A m \in Int : Windows(t) >= m <=> t + Window - 1 >= Window * m
  <2>1. t + Window - 1 \in Int
    BY WindowType
  <2> QED BY <2>1, Division, Quotient, WindowType DEF Windows
<1>2. Window * 0 = 0 /\ Window * 1 = Window /\ Window * 2 = Window + Window
  BY WindowType
<1>3. Windows(0) \in Int /\ Windows(0) >= 0 /\ ~(Windows(0) >= 1)
  BY <1>1, <1>2, WindowType
<1>4. ASSUME NEW a \in Nat \ {0} PROVE Windows(a) >= 1 /\ (a <= Window => Windows(a) = 1)
  <2>1. Windows(a) \in Int /\ Windows(a) >= 1
    BY <1>1, <1>2, WindowType
  <2>2. a <= Window => ~(Windows(a) >= 2)
    BY <1>1, <1>2, WindowType
  <2> QED BY <2>1, <2>2
<1> QED BY <1>3, <1>4

(* So much is allowed in some time, if g is allowed in every window: *)
LEMMA AllowanceType ==
    ASSUME NEW g \in Nat, NEW b \in Nat
    PROVE  /\ Windows(b) * g \in Nat
           /\ b > 0 => g <= Windows(b) * g
           /\ (Windows(b) + 1) * g = Windows(b) * g + g
<1> DEFINE n == Windows(b)
<1>1. n \in Nat /\ (b > 0 => 1 <= n)
  BY WindowsGrow, WindowsSome
<1> HIDE DEF n
<1>2. n * g \in Nat /\ (n + 1) * g = n * g + g
  BY <1>1
<1>3. ASSUME 1 <= n PROVE g <= n * g
  <2>1. 1 * g <= n * g
    BY <1>1, <1>3
  <2> QED BY <2>1
<1> QED BY <1>1, <1>2, <1>3 DEF n

(* it grows with the time, and by g in every window. *)
LEMMA Allowance ==
    ASSUME NEW g \in Nat, NEW a \in Nat, NEW b \in Nat, a <= b
    PROVE  /\ Windows(a) * g <= Windows(b) * g
           /\ a + Window <= b => Windows(a) * g + g <= Windows(b) * g
<1> DEFINE m == Windows(a)
           n == Windows(b)
<1>1. m \in Nat /\ n \in Nat /\ m <= n
  BY WindowsGrow
<1>2. a + Window <= b => m + 1 <= n
  BY WindowsNext
<1> HIDE DEF m, n
<1>3. m * g <= n * g
  BY <1>1
<1>4. ASSUME m + 1 <= n PROVE m * g + g <= n * g
  <2>1. (m + 1) * g <= n * g
    BY <1>1, <1>4
  <2>2. (m + 1) * g = m * g + g
    BY <1>1
  <2> QED BY <2>1, <2>2
<1> QED BY <1>2, <1>3, <1>4 DEF m, n

-----------------------------------------------------------------------------

(* The record of what was allowed is in order and ends now at the latest. *)
InOrder ==
    /\ granted \in [Clients -> Seq(Nat)]
    /\ \A c \in Clients : \A i \in 1 .. Len(granted[c]) :
          /\ granted[c][i] <= now
          /\ \A j \in i .. Len(granted[c]) : granted[c][i] <= granted[c][j]

(* What a counter k of client c says is in the record ... *)
Covered(c, k) ==
    /\ LastAfter(c, k.current, k.start - 1)
    /\ LastAfter(c, k.current + k.previous, k.start - 2 * Window)
    /\ \A i \in 1 .. Len(granted[c]) : granted[c][i] < k.start + Window

(* ... and what the record has before it keeps to the pace of the limit. *)
Counted(c, k) ==
    /\ k.current <= Greatest /\ k.previous <= Greatest
    /\ \A i \in 1 .. Len(granted[c]) - k.current :
          /\ granted[c][i] < k.start
          /\ Len(granted[c]) - k.current - i + 1 <= Windows(k.start - granted[c][i]) * Greatest

(* Nothing in the last window: what a missing entry says. *)
LongAgo(c) == \A i \in 1 .. Len(granted[c]) : granted[c][i] <= now - Window

(* A new window may begin: all of the record keeps to the pace of the limit. *)
Paced(c) ==
    \A i \in 1 .. Len(granted[c]) :
        /\ granted[c][i] < now
        /\ Len(granted[c]) - i + 1 <= Windows(now - granted[c][i]) * Greatest

Logged ==
    \A c \in Clients : IF counters[c] = Absent THEN LongAgo(c) ELSE Covered(c, counters[c])

AllCounted ==
    \A c \in Clients : IF counters[c] = Absent THEN Paced(c) ELSE Counted(c, counters[c])

(* The counts cannot wrap. *)
NoWrap == Limits # {} /\ 2 * Greatest < Word

(* Every limit is a number of at most the greatest. *)
LEMMA GreatestType == NoWrap => Greatest \in Nat /\ \A l \in Limits : l \in Nat /\ l <= Greatest
<1> SUFFICES ASSUME NoWrap PROVE Greatest \in Nat /\ \A l \in Limits : l \in Nat /\ l <= Greatest
  OBVIOUS
<1>1. Greatest \in Limits /\ \A l \in Limits : l <= Greatest
  BY GreatestIsLimit DEF NoWrap
<1> QED BY <1>1, WordAssumption

(* Fewer requests came later, and after any earlier time. *)
LEMMA LastAfterWeaker ==
    ASSUME InOrder, NEW c \in Clients, NEW m \in Nat, NEW t \in Int, LastAfter(c, m, t),
           NEW k \in 0 .. m, NEW u \in Int, u <= t
    PROVE  LastAfter(c, k, u)
<1> DEFINE g == granted[c]
           n == Len(granted[c])
<1>1. /\ n \in Nat /\ \A i \in 1 .. n : g[i] \in Nat
      /\ \A i \in 1 .. n : \A j \in i .. n : g[i] <= g[j]
  BY LenProperties, ElementOfSeq DEF InOrder
<1>2. m <= n /\ (m > 0 => g[n - m + 1] > t)
  BY DEF LastAfter
<1> HIDE DEF g, n
<1>3. ASSUME k > 0 PROVE g[n - k + 1] > u
  <2>1. n - m + 1 \in 1 .. n /\ n - k + 1 \in (n - m + 1) .. n
    BY <1>1, <1>2, <1>3
  <2>2. g[n - m + 1] <= g[n - k + 1] /\ g[n - m + 1] \in Nat /\ g[n - k + 1] \in Nat
    BY <1>1, <2>1
  <2> QED BY <1>2, <1>3, <2>2
<1> QED BY <1>1, <1>2, <1>3 DEF LastAfter, g, n

(* Making, keeping and rotating a counter keep it true of the record ... *)
LEMMA EntryCovered ==
    ASSUME TypeOK, InOrder, Logged, NEW c \in Clients
    PROVE  Covered(c, Entry(c))
<1> DEFINE g == granted[c]
           n == Len(granted[c])
<1>1. /\ n \in Nat /\ \A i \in 1 .. n : g[i] \in Nat /\ g[i] <= now
      /\ \A i \in 1 .. n : \A j \in i .. n : g[i] <= g[j]
  BY LenProperties, ElementOfSeq DEF InOrder
<1>2. now \in Nat /\ Window \in Nat \ {0}
  BY WindowType, TimeAssumption DEF TypeOK
<1> HIDE DEF g, n
<1>3. ASSUME LongAgo(c) PROVE Covered(c, Fresh)
  BY <1>1, <1>2, <1>3 DEF Covered, LongAgo, LastAfter, Fresh, g, n
<1>4. CASE counters[c] = Absent
  <2>1. Entry(c) = Fresh
    BY <1>2, <1>4 DEF Entry, Rolled, Elapsed, Fresh
  <2> QED BY <1>3, <1>4, <2>1 DEF Logged
<1>5. CASE counters[c] # Absent
  <2> DEFINE k == counters[c]
  <2>1. k \in Counter /\ k.start <= now /\ Entry(c) = Rolled(k) /\ Covered(c, k)
    BY <1>5 DEF TypeOK, Entry, Logged
  <2>2. k.current \in Nat /\ k.previous \in Nat /\ k.start \in Nat /\ Elapsed(k) \in Nat
    BY <1>2, <2>1, WordAssumption DEF Counter, U32, Elapsed
  <2>3. AsSecs(Elapsed(k)) \div WindowSecs >= 2 <=> Elapsed(k) >= 2 * Window
    BY <2>2, TwoWindows
  <2> HIDE DEF k
  <2>4. CASE Elapsed(k) < Window
    BY <2>1, <2>4 DEF Rolled
  <2>5. CASE Elapsed(k) >= 2 * Window
    <3>1. Rolled(k) = Fresh
      BY <1>2, <2>2, <2>3, <2>5 DEF Rolled
    <3>2. LongAgo(c)
      <4>1. k.start + Window <= now - Window
        BY <1>2, <2>2, <2>5 DEF Elapsed
      <4>2. \A i \in 1 .. n : g[i] < k.start + Window
        BY <2>1 DEF Covered, g, n
      <4>3. \A i \in 1 .. n : g[i] <= now - Window
        BY <1>1, <1>2, <2>2, <4>1, <4>2
      <4> QED BY <4>3 DEF LongAgo, g, n
    <3> QED BY <1>3, <2>1, <3>1, <3>2
  <2>6. CASE Elapsed(k) >= Window /\ Elapsed(k) < 2 * Window
    <3>1. Rolled(k) = [current |-> 0, previous |-> k.current, start |-> now]
      BY <1>2, <2>2, <2>3, <2>6 DEF Rolled, Fresh
    <3>2. k.start <= now - Window /\ k.start > now - 2 * Window
      BY <1>2, <2>2, <2>6 DEF Elapsed
    <3>3. LastAfter(c, k.current, now - 2 * Window)
      <4>1. LastAfter(c, k.current, k.start - 1)
        BY <2>1 DEF Covered
      <4>2. k.start - 1 \in Int /\ now - 2 * Window \in Int /\ now - 2 * Window <= k.start - 1
            /\ k.current \in 0 .. k.current
        BY <1>2, <2>2, <3>2
      <4> HIDE DEF k
      <4> QED BY <2>2, <4>1, <4>2, LastAfterWeaker
    <3>4. \A i \in 1 .. n : g[i] < now + Window
      BY <1>1, <1>2
    <3> QED BY <1>1, <1>2, <2>1, <2>2, <3>1, <3>3, <3>4 DEF Covered, LastAfter, g, n
  <2> QED BY <1>2, <2>2, <2>4, <2>5, <2>6
<1> QED BY <1>4, <1>5

(* ... and a counter whose window is over leaves a record at the pace of the limit, *)
LEMMA PacedAfter ==
    ASSUME InOrder, NoWrap, NEW c \in Clients, NEW k \in Counter, Covered(c, k), Counted(c, k),
           now \in Nat, now >= k.start + Window
    PROVE  Paced(c)
<1> DEFINE g == granted[c]
           n == Len(granted[c])
           m == k.current
           s == k.start
<1>1. n \in Nat /\ \A i \in 1 .. n : g[i] \in Nat
  BY LenProperties, ElementOfSeq DEF InOrder
<1>2. /\ m \in Nat /\ s \in Nat /\ Window \in Nat \ {0} /\ Greatest \in Nat
      /\ now \in Nat /\ now >= s + Window
  BY WindowType, TimeAssumption, WordAssumption, GreatestType DEF Counter, U32
<1>3. m <= n /\ \A i \in 1 .. n : g[i] < s + Window
  BY DEF Covered, LastAfter
<1>4. m <= Greatest /\ \A i \in 1 .. n - m :
         g[i] < s /\ n - m - i + 1 <= Windows(s - g[i]) * Greatest
  BY DEF Counted
<1> HIDE DEF g, n, m, s
<1>5. ASSUME NEW i \in 1 .. n
      PROVE  g[i] < now /\ n - i + 1 <= Windows(now - g[i]) * Greatest
  <2>1. g[i] \in Nat /\ g[i] < now /\ now - g[i] \in Nat /\ now - g[i] > 0
    BY <1>1, <1>2, <1>3
  <2>2. CASE i > n - m
    <3>1. Greatest <= Windows(now - g[i]) * Greatest /\ Windows(now - g[i]) * Greatest \in Nat
      BY <1>2, <2>1, AllowanceType
    <3>2. n - i + 1 <= Greatest
      BY <1>1, <1>2, <1>3, <1>4, <2>2
    <3> QED BY <1>1, <1>2, <2>1, <3>1, <3>2
  <2>3. CASE i <= n - m
    <3>1. s - g[i] \in Nat /\ (s - g[i]) + Window <= now - g[i] /\ s - g[i] <= now - g[i]
          /\ n - m - i + 1 <= Windows(s - g[i]) * Greatest
      BY <1>1, <1>2, <1>3, <1>4, <2>1, <2>3
    <3>2. /\ Windows(s - g[i]) * Greatest + Greatest <= Windows(now - g[i]) * Greatest
          /\ Windows(s - g[i]) * Greatest \in Nat /\ Windows(now - g[i]) * Greatest \in Nat
      BY <1>2, <2>1, <3>1, Allowance, AllowanceType
    <3> QED BY <1>1, <1>2, <1>4, <2>1, <3>1, <3>2
  <2> QED BY <1>1, <1>2, <2>2, <2>3
<1> QED BY <1>5 DEF Paced, g, n

(* so that its successor counts what is left to count. *)
LEMMA EntryCounted ==
    ASSUME TypeOK, InOrder, Logged, AllCounted, NoWrap, NEW c \in Clients
    PROVE  Counted(c, Entry(c))
<1>1. now \in Nat /\ Window \in Nat \ {0} /\ Greatest \in Nat /\ Len(granted[c]) \in Nat
  BY WindowType, TimeAssumption, GreatestType, LenProperties DEF TypeOK, InOrder
<1>2. ASSUME Paced(c), NEW k, k.current = 0, k.previous <= Greatest, k.start = now
      PROVE  Counted(c, k)
  <2>1. Len(granted[c]) - 0 = Len(granted[c])
    BY <1>1
  <2> QED BY <1>1, <1>2, <2>1 DEF Counted, Paced
<1>3. Fresh.current = 0 /\ Fresh.previous <= Greatest /\ Fresh.start = now
  BY <1>1 DEF Fresh
<1>4. CASE counters[c] = Absent
  <2>1. Entry(c) = Fresh
    BY <1>1, <1>4 DEF Entry, Rolled, Elapsed, Fresh
  <2> QED BY <1>2, <1>3, <1>4, <2>1 DEF AllCounted
<1>5. CASE counters[c] # Absent
  <2> DEFINE k == counters[c]
  <2>1. k \in Counter /\ k.start <= now /\ Entry(c) = Rolled(k) /\ Covered(c, k) /\ Counted(c, k)
    BY <1>5 DEF TypeOK, Entry, Logged, AllCounted
  <2>2. k.current <= Greatest /\ k.start \in Nat
    BY <2>1 DEF Counted, Counter
  <2> HIDE DEF k
  <2>3. CASE Elapsed(k) < Window
    BY <2>1, <2>3 DEF Rolled
  <2>4. CASE ~(Elapsed(k) < Window)
    <3>1. Paced(c)
      BY <1>1, <2>1, <2>2, <2>4, PacedAfter DEF Elapsed
    <3>2. Entry(c) = Fresh \/ Entry(c) = [Fresh EXCEPT !.previous = k.current]
      BY <2>1, <2>4 DEF Rolled
    <3>3. Entry(c).current = 0 /\ Entry(c).previous <= Greatest /\ Entry(c).start = now
      BY <1>3, <2>2, <3>2 DEF Fresh
    <3> QED BY <1>2, <3>1, <3>3
  <2> QED BY <2>3, <2>4
<1> QED BY <1>4, <1>5

-----------------------------------------------------------------------------

(* What a check leaves alone. *)
LEMMA CheckElsewhere ==
    ASSUME TypeOK, InOrder, NEW c \in Clients, NEW limit \in Limits, Check(c, limit), Record(c)
    PROVE  /\ now' = now
           /\ granted' \in [Clients -> Seq(Nat)]
           /\ \A d \in Clients : d # c => /\ counters'[d] = counters[d] /\ granted'[d] = granted[d]
                                          /\ answers'[d] = answers[d] /\ asked'[d] = asked[d]
<1>1. now' = now /\ now \in Nat
  BY TimeAssumption DEF Check, Deny, Allow, TypeOK
<1>2. ASSUME NEW d \in Clients, d # c
      PROVE  counters'[d] = counters[d] /\ answers'[d] = answers[d]
  BY <1>2 DEF Check, Deny, Allow, TypeOK
<1>3. /\ granted' \in [Clients -> Seq(Nat)]
      /\ \A d \in Clients : d # c => granted'[d] = granted[d]
  <2>1. granted[c] \in Seq(Nat) /\ Append(granted[c], now) \in Seq(Nat)
    BY <1>1, AppendProperties DEF InOrder
  <2> QED BY <2>1 DEF Record, InOrder
<1>4. ASSUME NEW d \in Clients, d # c PROVE asked'[d] = asked[d]
  BY <1>4 DEF Record
<1> QED BY <1>1, <1>2, <1>3, <1>4

(* A request that is denied leaves the rotated counter, and is not in the record; *)
LEMMA DenyLog ==
    ASSUME TypeOK, InOrder, NEW c \in Clients, NEW limit \in Limits, Deny(c, limit), Record(c)
    PROVE  /\ counters'[c] = Entry(c) /\ granted'[c] = granted[c]
           /\ ~answers'[c].allowed /\ answers'[c].limit = limit /\ answers'[c].remaining = 0
<1>1. answers'[c] = [allowed |-> FALSE, limit |-> limit, remaining |-> 0,
                     reset |-> AsSecs(Window - Elapsed(Entry(c))),
                     retry |-> AtLeastOne(AsSecs(Window - Elapsed(Entry(c))))]
  BY DEF Deny, TypeOK
<1>2. granted'[c] = granted[c]
  BY <1>1 DEF Record, InOrder
<1>3. counters'[c] = Entry(c)
  BY DEF Deny, TypeOK
<1> QED BY <1>1, <1>2, <1>3

(* one that is allowed is its last entry. *)
LEMMA AllowLog ==
    ASSUME TypeOK, InOrder, NEW c \in Clients, NEW limit \in Limits, Allow(c, limit), Record(c)
    PROVE  /\ counters'[c] = [Entry(c) EXCEPT !.current = SaturatingIncrement(@)]
           /\ Len(granted'[c]) = Len(granted[c]) + 1
           /\ granted'[c][Len(granted[c]) + 1] = now
           /\ \A i \in 1 .. Len(granted[c]) : granted'[c][i] = granted[c][i]
           /\ answers'[c].allowed /\ answers'[c].limit = limit
           /\ answers'[c].remaining = Remaining(Entry(c), limit)
<1>1. answers'[c] = [allowed |-> TRUE, limit |-> limit,
                     remaining |-> Remaining(Entry(c), limit),
                     reset |-> AsSecs(Window - Elapsed(Entry(c))), retry |-> 0]
  BY DEF Allow, TypeOK
<1>2. granted'[c] = Append(granted[c], now) /\ granted[c] \in Seq(Nat) /\ now \in Nat
  BY <1>1, TimeAssumption DEF Record, InOrder, TypeOK
<1>3. counters'[c] = [Entry(c) EXCEPT !.current = SaturatingIncrement(@)]
  BY DEF Allow, TypeOK
<1>4. /\ Len(granted'[c]) = Len(granted[c]) + 1
      /\ granted'[c][Len(granted[c]) + 1] = now
      /\ \A i \in 1 .. Len(granted[c]) : granted'[c][i] = granted[c][i]
  BY <1>2, AppendProperties
<1> QED BY <1>1, <1>3, <1>4

-----------------------------------------------------------------------------

LEMMA InOrderStep ==
    ASSUME TypeOK, InOrder, [HNext]_hvars PROVE InOrder'
<1>1. \A c \in Clients : granted[c] \in Seq(Nat) /\ Len(granted[c]) \in Nat
  BY LenProperties DEF InOrder
<1>2. ASSUME NEW c \in Clients, NEW limit \in Limits, Check(c, limit), Record(c) PROVE InOrder'
  <2>1. /\ now' = now /\ now \in Nat /\ granted' \in [Clients -> Seq(Nat)]
        /\ \A d \in Clients : d # c => granted'[d] = granted[d]
    BY <1>2, CheckElsewhere, TimeAssumption DEF TypeOK
  <2>2. CASE Deny(c, limit)
    <3>1. \A d \in Clients : granted'[d] = granted[d]
      BY <1>2, <2>1, <2>2, DenyLog
    <3> QED BY <2>1, <3>1 DEF InOrder
  <2>3. CASE Allow(c, limit)
    <3> DEFINE g == granted[c]
               h == granted'[c]
               n == Len(granted[c])
    <3>1. /\ Len(h) = n + 1 /\ h[n + 1] = now /\ \A i \in 1 .. n : h[i] = g[i]
      BY <1>2, <2>3, AllowLog
    <3>2. /\ \A i \in 1 .. n : g[i] \in Nat /\ g[i] <= now /\ \A j \in i .. n : g[i] <= g[j]
      BY ElementOfSeq, <1>1 DEF InOrder
    <3>3. n \in Nat
      BY <1>1
    <3> HIDE DEF g, h, n
    <3>4. \A i \in 1 .. Len(h) : h[i] <= now /\ \A j \in i .. Len(h) : h[i] <= h[j]
      <4> SUFFICES ASSUME NEW i \in 1 .. n + 1, NEW j \in i .. n + 1
                   PROVE  h[i] <= now /\ h[i] <= h[j]
        BY <3>1, <3>3
      <4>1. CASE i = n + 1
        BY <2>1, <3>1, <3>3, <4>1
      <4>2. CASE i \in 1 .. n /\ j = n + 1
        BY <2>1, <3>1, <3>2, <4>2
      <4>3. CASE i \in 1 .. n /\ j \in i .. n
        BY <2>1, <3>1, <3>2, <3>3, <4>3
      <4> QED BY <3>3, <4>1, <4>2, <4>3
    <3>5. ASSUME NEW d \in Clients
          PROVE  \A i \in 1 .. Len(granted'[d]) :
                     /\ granted'[d][i] <= now
                     /\ \A j \in i .. Len(granted'[d]) : granted'[d][i] <= granted'[d][j]
      BY <2>1, <3>4 DEF InOrder, h
    <3> QED BY <2>1, <3>5 DEF InOrder
  <2> QED BY <1>2, <2>2, <2>3 DEF Check
<1>3. CASE (Prune \/ Tick) /\ UNCHANGED <<granted, asked>>
  <2>1. now' >= now /\ granted' = granted /\ now \in Nat /\ now' \in Nat
    BY <1>3, TimeAssumption DEF Prune, Tick, TypeOK
  <2>2. ASSUME NEW c \in Clients, NEW i \in 1 .. Len(granted[c]) PROVE granted[c][i] \in Nat
    BY <1>1, <2>2, ElementOfSeq
  <2> QED BY <2>1, <2>2 DEF InOrder
<1>4. CASE UNCHANGED hvars
  BY <1>4 DEF hvars, vars, InOrder
<1> QED BY <1>2, <1>3, <1>4 DEF HNext

(* One more request makes the last m or m + 1 of them no older. *)
LEMMA LastAfterGrows ==
    ASSUME InOrder, now \in Nat, NEW c \in Clients,
           Len(granted'[c]) = Len(granted[c]) + 1,
           granted'[c][Len(granted[c]) + 1] = now,
           \A i \in 1 .. Len(granted[c]) : granted'[c][i] = granted[c][i],
           NEW m \in Nat, NEW t \in Int, t < now, LastAfter(c, m, t), NEW k \in {m, m + 1}
    PROVE  /\ k <= Len(granted'[c])
           /\ k > 0 => granted'[c][Len(granted'[c]) - k + 1] > t
<1> DEFINE g == granted[c]
           h == granted'[c]
           n == Len(granted[c])
<1>1. /\ n \in Nat /\ \A i \in 1 .. n : g[i] \in Nat
      /\ \A i \in 1 .. n : \A j \in i .. n : g[i] <= g[j]
  BY LenProperties, ElementOfSeq DEF InOrder
<1>2. m <= n /\ (m > 0 => g[n - m + 1] > t)
  BY DEF LastAfter
<1>3. Len(h) = n + 1 /\ h[n + 1] = now /\ \A i \in 1 .. n : h[i] = g[i]
  OBVIOUS
<1> HIDE DEF g, h, n
<1>4. k <= n + 1
  BY <1>1, <1>2
<1>5. ASSUME k > 0 PROVE h[n + 1 - k + 1] > t
  <2>1. CASE k = 1
    BY <1>1, <1>3, <2>1
  <2>2. CASE k > 1
    <3>1. m > 0 /\ n - m + 1 \in 1 .. n /\ n + 1 - k + 1 \in (n - m + 1) .. n
      BY <1>1, <1>2, <2>2
    <3>2. g[n - m + 1] <= g[n + 1 - k + 1] /\ g[n - m + 1] \in Nat /\ g[n + 1 - k + 1] \in Nat
      BY <1>1, <3>1
    <3>3. h[n + 1 - k + 1] = g[n + 1 - k + 1]
      BY <1>1, <1>3, <3>1
    <3> QED BY <1>2, <3>1, <3>2, <3>3
  <2> QED BY <1>5, <2>1, <2>2
<1>6. Len(h) - k + 1 = n + 1 - k + 1
  BY <1>1, <1>3
<1> QED BY <1>3, <1>4, <1>5, <1>6 DEF h

LEMMA LoggedStep ==
    ASSUME TypeOK, InOrder, Logged, [HNext]_hvars PROVE Logged'
<1>1. \A c \in Clients : granted[c] \in Seq(Nat) /\ Len(granted[c]) \in Nat
  BY LenProperties DEF InOrder
<1>0. now \in Nat /\ Window \in Nat \ {0}
  BY WindowType, TimeAssumption DEF TypeOK
<1>2. ASSUME NEW c \in Clients, NEW limit \in Limits, Check(c, limit), Record(c) PROVE Logged'
  <2>1. /\ now' = now
        /\ \A d \in Clients : d # c => granted'[d] = granted[d] /\ counters'[d] = counters[d]
    BY <1>2, CheckElsewhere
  <2> DEFINE e == Entry(c)
             g == granted[c]
             h == granted'[c]
             n == Len(granted[c])
             k == counters'[c]
  <2>2. /\ e \in Counter /\ e.start <= now /\ Elapsed(e) \in 0 .. Window - 1
        /\ Covered(c, e)
    BY EntryType, EntryCovered
  <2>3. e.current \in Nat /\ e.previous \in Nat /\ e.start \in Nat /\ now - e.start < Window
    BY <1>0, <2>2, WordAssumption DEF Counter, U32, Elapsed
  <2>4. k # Absent /\ Covered(c, counters[c])'
    <3>1. CASE Deny(c, limit)
      <4>1. k = e /\ h = g
        BY <1>2, <3>1, DenyLog
      <4> QED BY <2>2, <4>1, NullAssumption DEF Covered, LastAfter
    <3>2. CASE Allow(c, limit)
      <4>1. /\ k = [e EXCEPT !.current = SaturatingIncrement(@)]
            /\ Len(h) = n + 1 /\ h[n + 1] = now /\ \A i \in 1 .. n : h[i] = g[i]
        BY <1>2, <3>2, AllowLog
      <4>2. /\ k.start = e.start /\ k.previous = e.previous
            /\ k.current \in {e.current, e.current + 1} /\ k \in Counter
        BY <2>2, <2>3, <4>1, WordAssumption DEF Counter, SaturatingIncrement, U32
      <4>3. n \in Nat /\ \A i \in 1 .. n : g[i] \in Nat /\ g[i] <= now
        BY <1>1, ElementOfSeq DEF InOrder
      <4>4. /\ LastAfter(c, e.current, e.start - 1)
            /\ LastAfter(c, e.current + e.previous, e.start - 2 * Window)
            /\ \A i \in 1 .. n : g[i] < e.start + Window
        BY <2>2 DEF Covered
      <4>5. /\ k.current <= Len(h)
            /\ k.current > 0 => h[Len(h) - k.current + 1] > e.start - 1
        <5>1. e.start - 1 \in Int /\ e.start - 1 < now
          BY <1>0, <2>2, <2>3
        <5> HIDE DEF e, k
        <5> QED BY <1>0, <2>3, <4>1, <4>2, <4>4, <5>1, LastAfterGrows
      <4>6. /\ k.current + k.previous <= Len(h)
            /\ k.current + k.previous > 0 =>
                  h[Len(h) - (k.current + k.previous) + 1] > e.start - 2 * Window
        <5>1. e.start - 2 * Window \in Int /\ e.start - 2 * Window < now
          BY <1>0, <2>2, <2>3
        <5>2. /\ e.current + e.previous \in Nat
              /\ k.current + k.previous \in {e.current + e.previous, e.current + e.previous + 1}
          BY <2>3, <4>2
        <5> HIDE DEF e, k
        <5> QED BY <1>0, <2>3, <4>1, <4>2, <4>4, <5>1, <5>2, LastAfterGrows
      <4>7. \A i \in 1 .. Len(h) : h[i] < e.start + Window
        <5>1. Len(h) = n + 1 /\ h[n + 1] = now /\ \A i \in 1 .. n : h[i] = g[i]
          BY <4>1
        <5>2. now < e.start + Window
          BY <1>0, <2>3
        <5> HIDE DEF e, g, h, n, k
        <5> QED BY <4>3, <4>4, <5>1, <5>2
      <4>8. k # Absent
        BY <4>2, NullAssumption
      <4> QED BY <4>2, <4>5, <4>6, <4>7, <4>8 DEF Covered, LastAfter
    <3> QED BY <1>2, <3>1, <3>2 DEF Check
  <2> QED BY <2>1, <2>4 DEF Logged, Covered, LastAfter, LongAgo
<1>3. CASE Prune /\ UNCHANGED <<granted, asked>>
  <2> SUFFICES ASSUME NEW c \in Clients
               PROVE  IF counters'[c] = Absent THEN LongAgo(c)' ELSE Covered(c, counters[c])'
    BY DEF Logged
  <2>1. now' = now /\ granted' = granted
    BY <1>3 DEF Prune
  <2>2. CASE counters[c] = Absent
    <3>1. counters'[c] = Absent
      BY <1>3, <2>2 DEF Prune
    <3> QED BY <2>1, <2>2, <3>1 DEF Logged, LongAgo
  <2>3. CASE counters[c] # Absent /\ Kept(counters[c])
    <3>1. counters'[c] = counters[c]
      BY <1>3, <2>3 DEF Prune
    <3> QED BY <2>1, <2>3, <3>1 DEF Logged, Covered, LastAfter
  <2>4. CASE counters[c] # Absent /\ ~Kept(counters[c])
    <3> DEFINE k == counters[c]
    <3>1. counters'[c] = Absent
      BY <1>3, <2>4 DEF Prune
    <3>2. k.start \in Nat /\ now - k.start >= 2 * Window
      BY <1>0, <2>4 DEF TypeOK, Counter, Kept, Elapsed
    <3>3. \A i \in 1 .. Len(granted[c]) : granted[c][i] < k.start + Window
      BY <2>4 DEF Logged, Covered
    <3>4. \A i \in 1 .. Len(granted[c]) : granted[c][i] \in Nat
      BY <1>1, ElementOfSeq
    <3> HIDE DEF k
    <3>5. \A i \in 1 .. Len(granted[c]) : granted[c][i] <= now - Window
      BY <1>0, <3>2, <3>3, <3>4
    <3> QED BY <2>1, <3>1, <3>5 DEF LongAgo
  <2> QED BY <2>2, <2>3, <2>4
<1>4. CASE Tick /\ UNCHANGED <<granted, asked>>
  <2>1. now' = now + 1 /\ granted' = granted /\ counters' = counters
    BY <1>4 DEF Tick
  <2>2. \A c \in Clients : \A i \in 1 .. Len(granted[c]) : granted[c][i] \in Nat
    BY <1>1, ElementOfSeq
  <2>3. ASSUME NEW c \in Clients, LongAgo(c) PROVE LongAgo(c)'
    BY <1>0, <2>1, <2>2, <2>3 DEF LongAgo
  <2> QED BY <2>1, <2>3 DEF Logged, Covered, LastAfter
<1>5. CASE UNCHANGED hvars
  BY <1>5 DEF hvars, vars, Logged, Covered, LastAfter, LongAgo
<1> QED BY <1>2, <1>3, <1>4, <1>5 DEF HNext

-----------------------------------------------------------------------------

(* A weighted count is what was counted and what overlaps, unless it wraps. *)
LEMMA WeightedIs ==
    ASSUME TypeOK, NEW k \in Counter, Elapsed(k) \in 0 .. Window - 1
    PROVE  /\ Weighted(k) \in Nat /\ Overlap(k.previous, Elapsed(k)) \in 0 .. k.previous
           /\ Weighted(k) <= k.current + Overlap(k.previous, Elapsed(k))
           /\ k.current + Overlap(k.previous, Elapsed(k)) < Word =>
                 Weighted(k) = k.current + Overlap(k.previous, Elapsed(k))
<1> DEFINE sum == k.current + Overlap(k.previous, Elapsed(k))
<1>1. k.previous \in U32 /\ k.current \in Nat /\ k.previous \in Nat
  BY WordAssumption DEF Counter, U32
<1>2. Overlap(k.previous, Elapsed(k)) \in 0 .. k.previous
  BY <1>1, OverlapWithin DEF TypeOK
<1>3. sum \in Nat
  BY <1>1, <1>2
<1>4. Weighted(k) = sum % Word
  BY DEF Weighted
<1> HIDE DEF sum
<1>5. sum % Word \in Nat /\ sum % Word <= sum /\ (sum < Word => sum % Word = sum)
  BY <1>3, WordAssumption
<1> QED BY <1>2, <1>4, <1>5 DEF sum

(* The counts of a counter that holds no more than the limits do not wrap. *)
LEMMA WeightedExactly ==
    ASSUME TypeOK, NoWrap, NEW c \in Clients, NEW k \in Counter, Counted(c, k),
           Elapsed(k) \in 0 .. Window - 1
    PROVE  Weighted(k) = k.current + Overlap(k.previous, Elapsed(k))
<1>1. k.current \in Nat /\ k.previous \in Nat /\ k.current <= Greatest /\ k.previous <= Greatest
  BY WordAssumption DEF Counter, U32, Counted
<1>2. Overlap(k.previous, Elapsed(k)) \in 0 .. k.previous
  BY WeightedIs
<1>3. k.current + Overlap(k.previous, Elapsed(k)) < Word
  BY <1>1, <1>2, GreatestType, WordAssumption DEF NoWrap
<1> QED BY <1>3, WeightedIs

LEMMA AllCountedStep ==
    ASSUME TypeOK, InOrder, Logged, AllCounted, NoWrap, [HNext]_hvars PROVE AllCounted'
<1>0. now \in Nat /\ Window \in Nat \ {0} /\ Greatest \in Nat /\ Greatest' = Greatest
  <2>1. Greatest' = Greatest
    BY DEF Greatest
  <2> QED BY <2>1, WindowType, TimeAssumption, GreatestType DEF TypeOK
<1>1. \A c \in Clients :
         Len(granted[c]) \in Nat /\ \A i \in 1 .. Len(granted[c]) : granted[c][i] \in Nat
  BY LenProperties, ElementOfSeq DEF InOrder
<1>2. ASSUME NEW c \in Clients, NEW limit \in Limits, Check(c, limit), Record(c) PROVE AllCounted'
  <2>1. /\ now' = now
        /\ \A d \in Clients : d # c => granted'[d] = granted[d] /\ counters'[d] = counters[d]
    BY <1>2, CheckElsewhere
  <2> DEFINE e == Entry(c)
             g == granted[c]
             h == granted'[c]
             n == Len(granted[c])
             k == counters'[c]
  <2>2. e \in Counter /\ Elapsed(e) \in 0 .. Window - 1 /\ Counted(c, e)
    BY EntryType, EntryCounted
  <2>3. /\ e.current \in Nat /\ e.previous \in Nat /\ e.start \in Nat
        /\ limit \in Nat /\ limit <= Greatest /\ Greatest < Word
    BY <1>0, <2>2, GreatestType, WordAssumption DEF Counter, U32, NoWrap
  <2>4. k # Absent /\ Counted(c, counters[c])'
    <3>1. CASE Deny(c, limit)
      <4>1. k = e /\ h = g
        BY <1>2, <3>1, DenyLog
      <4> QED BY <1>0, <2>2, <4>1, NullAssumption DEF Counted
    <3>2. CASE Allow(c, limit)
      <4>1. /\ k = [e EXCEPT !.current = SaturatingIncrement(@)]
            /\ Len(h) = n + 1 /\ h[n + 1] = now /\ \A i \in 1 .. n : h[i] = g[i]
        BY <1>2, <3>2, AllowLog
      <4>2. e.current < limit
        <5>1. Weighted(e) = e.current + Overlap(e.previous, Elapsed(e))
          BY <2>2, WeightedExactly
        <5>2. Overlap(e.previous, Elapsed(e)) \in Nat /\ Weighted(e) \in Nat
          BY <2>2, <2>3, WeightedIs
        <5>3. Weighted(e) < limit
          BY <2>3, <3>2, <5>2 DEF Allow, Exhausted
        <5> QED BY <2>3, <5>1, <5>2, <5>3
      <4>3. k.start = e.start /\ k.previous = e.previous /\ k.current = e.current + 1
        BY <1>0, <2>2, <2>3, <4>1, <4>2, WordAssumption DEF Counter, SaturatingIncrement
      <4>4. n \in Nat
        BY <1>1
      <4>5. /\ e.previous <= Greatest
            /\ \A i \in 1 .. n - e.current :
                  g[i] < e.start /\ n - e.current - i + 1 <= Windows(e.start - g[i]) * Greatest
        BY <2>2 DEF Counted
      <4>6. Len(h) = n + 1 /\ \A i \in 1 .. n : h[i] = g[i]
        BY <4>1
      <4>7. k # Absent
        <5>1. k \in Counter
          BY <2>2, <2>3, <4>1, WordAssumption DEF Counter, SaturatingIncrement, U32
        <5> QED BY <5>1, NullAssumption
      <4> HIDE DEF e, g, h, n, k
      <4>8. Len(h) - k.current = n - e.current
        BY <2>3, <4>3, <4>4, <4>6
      <4>9. /\ k.current <= Greatest /\ k.previous <= Greatest
            /\ \A i \in 1 .. Len(h) - k.current :
                  h[i] < k.start /\ Len(h) - k.current - i + 1 <= Windows(k.start - h[i]) * Greatest
        <5>1. ASSUME NEW i \in 1 .. n - e.current PROVE h[i] = g[i]
          BY <2>3, <4>4, <4>6
        <5> QED BY <1>0, <2>3, <4>2, <4>3, <4>5, <4>8, <5>1
      <4> QED BY <1>0, <4>7, <4>9 DEF Counted, h, k
    <3> QED BY <1>2, <3>1, <3>2 DEF Check
  <2> QED BY <1>0, <2>1, <2>4 DEF AllCounted, Counted, Paced
<1>3. CASE Prune /\ UNCHANGED <<granted, asked>>
  <2> SUFFICES ASSUME NEW c \in Clients
               PROVE  IF counters'[c] = Absent THEN Paced(c)' ELSE Counted(c, counters[c])'
    BY DEF AllCounted
  <2>1. now' = now /\ granted' = granted
    BY <1>3 DEF Prune
  <2>2. Paced(c) => Paced(c)'
    BY <1>0, <2>1 DEF Paced
  <2>3. CASE counters[c] = Absent
    <3>1. counters'[c] = Absent
      BY <1>3, <2>3 DEF Prune
    <3> QED BY <2>2, <2>3, <3>1 DEF AllCounted
  <2>4. CASE counters[c] # Absent /\ Kept(counters[c])
    <3>1. counters'[c] = counters[c]
      BY <1>3, <2>4 DEF Prune
    <3> QED BY <1>0, <2>1, <2>4, <3>1 DEF AllCounted, Counted
  <2>5. CASE counters[c] # Absent /\ ~Kept(counters[c])
    <3>1. counters'[c] = Absent
      BY <1>3, <2>5 DEF Prune
    <3>2. counters[c] \in Counter /\ Covered(c, counters[c]) /\ Counted(c, counters[c])
      BY <2>5 DEF TypeOK, Logged, AllCounted
    <3>3. counters[c].start \in Nat /\ now >= counters[c].start + Window
      BY <1>0, <2>5, <3>2 DEF Counter, Kept, Elapsed
    <3>4. Paced(c)
      BY <1>0, <3>2, <3>3, PacedAfter
    <3> QED BY <2>2, <3>1, <3>4
  <2> QED BY <2>3, <2>4, <2>5
<1>4. CASE Tick /\ UNCHANGED <<granted, asked>>
  <2>1. now' = now + 1 /\ granted' = granted /\ counters' = counters
    BY <1>4 DEF Tick
  <2>2. ASSUME NEW c \in Clients, Paced(c) PROVE Paced(c)'
    <3>1. ASSUME NEW i \in 1 .. Len(granted[c])
          PROVE  /\ granted[c][i] < now'
                 /\ Len(granted[c]) - i + 1 <= Windows(now' - granted[c][i]) * Greatest
      <4>1. /\ granted[c][i] \in Nat /\ granted[c][i] < now /\ Len(granted[c]) - i + 1 \in Int
            /\ Len(granted[c]) - i + 1 <= Windows(now - granted[c][i]) * Greatest
        BY <1>1, <2>2 DEF Paced
      <4> DEFINE a == now - granted[c][i]
                 b == now' - granted[c][i]
      <4>2. a \in Nat /\ b \in Nat /\ a <= b
        <5>1. granted[c][i] \in Nat /\ granted[c][i] < now /\ now' = now + 1
          BY <2>1, <4>1
        <5> QED BY <1>0, <5>1
      <4> HIDE DEF a, b
      <4>3. /\ Windows(a) * Greatest \in Nat /\ Windows(b) * Greatest \in Nat
            /\ Windows(a) * Greatest <= Windows(b) * Greatest
        BY <1>0, <4>2, Allowance, AllowanceType
      <4>4. Len(granted[c]) - i + 1 <= Windows(a) * Greatest
        BY <4>1 DEF a
      <4>5. Len(granted[c]) - i + 1 <= Windows(b) * Greatest
        BY <4>1, <4>3, <4>4
      <4> QED BY <1>0, <2>1, <4>1, <4>5 DEF b
    <3> QED BY <1>0, <2>1, <3>1 DEF Paced
  <2> QED BY <1>0, <2>1, <2>2 DEF AllCounted, Counted
<1>5. CASE UNCHANGED hvars
  BY <1>0, <1>5 DEF hvars, vars, AllCounted, Counted, Paced
<1> QED BY <1>2, <1>3, <1>4, <1>5 DEF HNext

(* While the moment of an answer lasts, the counter it was given from is there,
   and says what the answer says. *)
Blocked ==
    /\ asked \in [Clients -> Nat]
    /\ \A c \in Clients :
          /\ asked[c] <= now
          /\ JustDenied(c) =>
                /\ counters[c] # Absent /\ Elapsed(counters[c]) < Window
                /\ answers[c].remaining = 0
                /\ answers[c].limit <= Weighted(counters[c])

Promised ==
    \A c \in Clients : Answered(c) /\ answers[c].allowed =>
        /\ counters[c] # Absent /\ Elapsed(counters[c]) < Window
        /\ answers[c].remaining = SaturatingMinus(answers[c].limit, Weighted(counters[c]))

LEMMA BlockedStep ==
    ASSUME TypeOK, InOrder, Blocked, [HNext]_hvars PROVE Blocked'
<1>0. now \in Nat /\ Window \in Nat \ {0}
  BY WindowType, TimeAssumption DEF TypeOK
<1>1. ASSUME NEW c \in Clients, NEW limit \in Limits, Check(c, limit), Record(c) PROVE Blocked'
  <2>1. /\ now' = now
        /\ \A d \in Clients : d # c => /\ counters'[d] = counters[d]
                                       /\ answers'[d] = answers[d] /\ asked'[d] = asked[d]
    BY <1>1, CheckElsewhere
  <2>2. asked' \in [Clients -> Nat] /\ asked'[c] = now
    BY <1>0, <1>1 DEF Record, Blocked
  <2>3. CASE Allow(c, limit)
    <3>1. answers'[c].allowed
      BY <1>1, <2>3, AllowLog
    <3> QED BY <1>0, <2>1, <2>2, <3>1
            DEF Blocked, JustDenied, Answered, Elapsed, Weighted, Overlap
  <2>4. CASE Deny(c, limit)
    <3>1. /\ counters'[c] = Entry(c) /\ answers'[c].limit = limit /\ answers'[c].remaining = 0
      BY <1>1, <2>4, DenyLog
    <3>2. Entry(c) \in Counter /\ Elapsed(Entry(c)) \in 0 .. Window - 1
      BY EntryType
    <3>3. limit <= Weighted(Entry(c))
      BY <2>4, <3>2, WeightedIs, WordAssumption DEF Deny, Exhausted
    <3>4. counters'[c] # Absent /\ Elapsed(counters[c])' < Window
          /\ answers'[c].limit <= Weighted(counters[c])'
      BY <1>0, <2>1, <3>1, <3>2, <3>3, NullAssumption DEF Elapsed, Weighted, Overlap
    <3> QED BY <1>0, <2>1, <2>2, <3>1, <3>4
            DEF Blocked, JustDenied, Answered, Elapsed, Weighted, Overlap
  <2> QED BY <1>1, <2>3, <2>4 DEF Check
<1>2. CASE Prune /\ UNCHANGED <<granted, asked>>
  <2>1. \A c \in Clients : counters[c] # Absent /\ Elapsed(counters[c]) < Window =>
            counters'[c] = counters[c]
    <3> SUFFICES ASSUME NEW c \in Clients, counters[c] # Absent, Elapsed(counters[c]) < Window
                 PROVE  counters'[c] = counters[c]
      OBVIOUS
    <3>1. counters[c].start \in Nat
      BY DEF TypeOK, Counter
    <3>2. Kept(counters[c])
      BY <1>0, <3>1 DEF Kept, Elapsed
    <3> QED BY <1>2, <3>2 DEF Prune
  <2> QED BY <1>2, <2>1 DEF Prune, Blocked, JustDenied, Answered, Elapsed, Weighted, Overlap
<1>3. CASE Tick /\ UNCHANGED <<granted, asked>>
  BY <1>0, <1>3 DEF Tick, Blocked, JustDenied, Answered
<1>4. CASE UNCHANGED hvars
  BY <1>4 DEF hvars, vars, Blocked, JustDenied, Answered, Elapsed, Weighted, Overlap
<1> QED BY <1>1, <1>2, <1>3, <1>4 DEF HNext

LEMMA PromisedStep ==
    ASSUME TypeOK, InOrder, Logged, AllCounted, NoWrap, Blocked, Promised, [HNext]_hvars
    PROVE  Promised'
<1>0. now \in Nat /\ Window \in Nat \ {0}
  BY WindowType, TimeAssumption DEF TypeOK
<1>1. ASSUME NEW c \in Clients, NEW limit \in Limits, Check(c, limit), Record(c) PROVE Promised'
  <2>1. /\ now' = now
        /\ \A d \in Clients : d # c => /\ counters'[d] = counters[d]
                                       /\ answers'[d] = answers[d] /\ asked'[d] = asked[d]
    BY <1>1, CheckElsewhere
  <2>2. CASE Deny(c, limit)
    <3>1. ~answers'[c].allowed
      BY <1>1, <2>2, DenyLog
    <3> QED BY <2>1, <3>1 DEF Promised, Answered, Elapsed, Weighted, Overlap
  <2>3. CASE Allow(c, limit)
    <3> DEFINE e == Entry(c)
               k == counters'[c]
               w == Overlap(e.previous, Elapsed(e))
    <3>1. /\ k = [e EXCEPT !.current = SaturatingIncrement(@)]
          /\ answers'[c].limit = limit /\ answers'[c].remaining = Remaining(e, limit)
      BY <1>1, <2>3, AllowLog
    <3>2. e \in Counter /\ Elapsed(e) \in 0 .. Window - 1 /\ Counted(c, e)
      BY EntryType, EntryCounted
    <3>3. Weighted(e) = e.current + w /\ w \in Nat /\ Weighted(e) \in Nat
          /\ e.current \in Nat /\ e.previous \in Nat /\ w <= e.previous
      BY <3>2, WeightedIs, WeightedExactly, WordAssumption DEF Counter, U32
    <3>4. limit \in Nat /\ limit < Word /\ Weighted(e) < limit
      BY <2>3, <3>3, WordAssumption DEF Allow, Exhausted
    <3>5. k.start = e.start /\ k.previous = e.previous /\ k.current = e.current + 1 /\ k \in Counter
      BY <3>1, <3>2, <3>3, <3>4, WordAssumption DEF Counter, U32, SaturatingIncrement
    <3>6. Elapsed(counters[c])' = Elapsed(e)
      BY <2>1, <3>5 DEF Elapsed
    <3>7. Overlap(counters[c].previous, Elapsed(counters[c]))' = w
      BY <2>1, <3>5, <3>6 DEF Overlap
    <3>8. Weighted(counters[c])' = (k.current + w) % Word
      BY <3>7 DEF Weighted
    <3>9. k.current + w = Weighted(e) + 1 /\ Weighted(e) + 1 < Word
      BY <3>3, <3>4, <3>5, WordAssumption
    <3>10. Weighted(counters[c])' = Weighted(e) + 1
      <4> HIDE DEF w, e, k
      <4> QED BY <3>3, <3>8, <3>9, WordAssumption
    <3>11. /\ counters'[c] # Absent /\ Elapsed(counters[c])' < Window
           /\ answers'[c].remaining = SaturatingMinus(answers'[c].limit, Weighted(counters[c])')
      BY <1>0, <3>1, <3>2, <3>5, <3>6, <3>10, NullAssumption DEF Remaining
    <3> QED BY <2>1, <3>11 DEF Promised, Answered, Elapsed, Weighted, Overlap, SaturatingMinus
  <2> QED BY <1>1, <2>2, <2>3 DEF Check
<1>2. CASE Prune /\ UNCHANGED <<granted, asked>>
  <2>1. \A c \in Clients : counters[c] # Absent /\ Elapsed(counters[c]) < Window =>
            counters'[c] = counters[c]
    <3> SUFFICES ASSUME NEW c \in Clients, counters[c] # Absent, Elapsed(counters[c]) < Window
                 PROVE  counters'[c] = counters[c]
      OBVIOUS
    <3>1. counters[c].start \in Nat
      BY DEF TypeOK, Counter
    <3>2. Kept(counters[c])
      BY <1>0, <3>1 DEF Kept, Elapsed
    <3> QED BY <1>2, <3>2 DEF Prune
  <2> QED BY <1>2, <2>1 DEF Prune, Promised, Answered, Elapsed, Weighted, Overlap
<1>3. CASE Tick /\ UNCHANGED <<granted, asked>>
  BY <1>0, <1>3 DEF Tick, Promised, Blocked, Answered
<1>4. CASE UNCHANGED hvars
  BY <1>4 DEF hvars, vars, Promised, Answered, Elapsed, Weighted, Overlap
<1> QED BY <1>1, <1>2, <1>3, <1>4 DEF HNext

-----------------------------------------------------------------------------

(* The new request and an earlier one: both are of the current window, or the earlier
   one keeps to the pace at its start. *)
LEMMA BurstStep ==
    ASSUME TypeOK, InOrder, Logged, AllCounted, NoWrap, BurstBound, [HNext]_hvars
    PROVE  BurstBound'
<1>0. /\ now \in Nat /\ Window \in Nat \ {0} /\ Greatest \in Nat /\ Greatest' = Greatest
      /\ \A l \in Limits : l \in Nat /\ l <= Greatest
  <2>1. Greatest' = Greatest
    BY DEF Greatest
  <2> QED BY <2>1, WindowType, TimeAssumption, GreatestType DEF TypeOK
<1>1. \A c \in Clients :
         Len(granted[c]) \in Nat /\ \A i \in 1 .. Len(granted[c]) : granted[c][i] \in Nat
  BY LenProperties, ElementOfSeq DEF InOrder
<1>2. ASSUME NEW c \in Clients, NEW limit \in Limits, Check(c, limit), Record(c) PROVE BurstBound'
  <2>1. /\ now' = now
        /\ \A d \in Clients : d # c => granted'[d] = granted[d]
    BY <1>2, CheckElsewhere
  <2>2. CASE Deny(c, limit)
    <3>1. \A d \in Clients : granted'[d] = granted[d]
      BY <1>2, <2>1, <2>2, DenyLog
    <3> QED BY <1>0, <3>1 DEF BurstBound
  <2>3. CASE Allow(c, limit)
    <3> DEFINE e == Entry(c)
               w == Overlap(e.previous, Elapsed(e))
               m == e.current
               s == e.start
               g == granted[c]
               h == granted'[c]
               n == Len(granted[c])
    <3>1. e \in Counter /\ s <= now /\ Elapsed(e) \in 0 .. Window - 1 /\ Counted(c, e)
      BY EntryType, EntryCounted
    <3>2. m \in Nat /\ s \in Nat /\ m + 1 <= Greatest
      <4>1. /\ Weighted(e) = m + w /\ w \in Nat /\ Weighted(e) \in Nat
            /\ m \in Nat /\ s \in Nat
        BY <3>1, WeightedIs, WeightedExactly, WordAssumption DEF Counter, U32
      <4>2. Weighted(e) < limit /\ limit \in Nat /\ limit <= Greatest
        BY <1>0, <2>3, <4>1 DEF Allow, Exhausted
      <4> HIDE DEF w, m, s
      <4> QED BY <1>0, <4>1, <4>2
    <3>3. \A i \in 1 .. n - m : g[i] < s /\ n - m - i + 1 <= Windows(s - g[i]) * Greatest
      BY <3>1 DEF Counted
    <3>4. Len(h) = n + 1 /\ h[n + 1] = now /\ \A i \in 1 .. n : h[i] = g[i]
      BY <1>2, <2>3, AllowLog
    <3>5. n \in Nat /\ \A i \in 1 .. n : g[i] \in Nat /\ g[i] <= now
      BY <1>1 DEF InOrder
    <3>6. \A i \in 1 .. n : \A j \in i .. n : j - i + 1 <= (Windows(g[j] - g[i]) + 1) * Greatest
      BY DEF BurstBound
    <3>7. s <= now
      BY <3>1
    <3> HIDE DEF e, w, m, s, g, h, n
    <3>8. ASSUME NEW i \in 1 .. n + 1, NEW j \in i .. n + 1
          PROVE  j - i + 1 <= (Windows(h[j] - h[i]) + 1) * Greatest
      <4>1. CASE j \in i .. n
        <5>1. i \in 1 .. n /\ j \in 1 .. n
          BY <3>5, <4>1
        <5> QED BY <3>4, <3>6, <4>1, <5>1
      <4>2. CASE i = n + 1
        <5>1. j = n + 1 /\ h[j] - h[i] = 0 /\ j - i + 1 = 1
          BY <1>0, <3>4, <3>5, <4>2
        <5> QED BY <1>0, <3>2, <5>1, WindowsSome
      <4>3. CASE i \in 1 .. n /\ j = n + 1
        <5> DEFINE a == s - g[i]
                   b == now - g[i]
        <5>1. h[j] - h[i] = b /\ g[i] \in Nat /\ b \in Nat
          BY <1>0, <3>4, <3>5, <4>3
        <5>2. /\ Windows(b) * Greatest \in Nat
              /\ (Windows(b) + 1) * Greatest = Windows(b) * Greatest + Greatest
          BY <1>0, <5>1, AllowanceType
        <5>3. CASE i > n - m
          <6>1. j - i + 1 <= Greatest
            BY <1>0, <3>2, <3>5, <4>3, <5>3
          <6> HIDE DEF b
          <6> QED BY <1>0, <3>5, <5>1, <5>2, <6>1
        <5>4. CASE i <= n - m
          <6>1. i \in 1 .. n - m
            BY <3>2, <3>5, <4>3, <5>4
          <6>2. a \in Nat /\ a <= b /\ n - m - i + 1 <= Windows(a) * Greatest
            BY <1>0, <3>2, <3>3, <3>7, <5>1, <6>1
          <6> HIDE DEF a, b
          <6>3. Windows(a) * Greatest \in Nat /\ Windows(a) * Greatest <= Windows(b) * Greatest
            BY <1>0, <5>1, <6>2, Allowance, AllowanceType
          <6> QED BY <1>0, <3>2, <3>5, <4>3, <5>1, <5>2, <6>2, <6>3
        <5> QED BY <3>2, <3>5, <4>3, <5>3, <5>4
      <4> QED BY <3>5, <4>1, <4>2, <4>3
    <3>9. \A i \in 1 .. Len(granted'[c]) : \A j \in i .. Len(granted'[c]) :
              j - i + 1 <= (Windows(granted'[c][j] - granted'[c][i]) + 1) * Greatest
      BY <3>4, <3>8 DEF h
    <3> QED BY <1>0, <2>1, <3>9 DEF BurstBound
  <2> QED BY <1>2, <2>2, <2>3 DEF Check
<1>3. CASE (Prune \/ Tick) /\ UNCHANGED <<granted, asked>>
  BY <1>0, <1>3 DEF BurstBound
<1>4. CASE UNCHANGED hvars
  BY <1>0, <1>4 DEF hvars, BurstBound
<1> QED BY <1>2, <1>3, <1>4 DEF HNext

LEMMA EarnedIfBlocked ==
    ASSUME TypeOK, InOrder, Logged, Blocked PROVE DenialsAreEarned
<1> SUFFICES ASSUME NEW c \in Clients, JustDenied(c)
             PROVE  LastAfter(c, answers[c].limit, now - 3 * Window)
  BY DEF DenialsAreEarned
<1> DEFINE k == counters[c]
           l == answers[c].limit
<1>1. /\ k \in Counter /\ k.start <= now /\ Elapsed(k) < Window
      /\ Covered(c, k) /\ l <= Weighted(k)
  BY DEF Blocked, TypeOK, Logged
<1>2. /\ now \in Nat /\ Window \in Nat \ {0}
      /\ k.current \in Nat /\ k.previous \in Nat /\ k.start \in Nat
  BY <1>1, WindowType, TimeAssumption, WordAssumption DEF TypeOK, Counter, U32
<1>3. l \in Nat
  <2>1. answers[c] \in Result
    BY DEF TypeOK, JustDenied, Answered
  <2>2. l \in Limits
    BY <2>1 DEF Result
  <2> HIDE DEF l
  <2> QED BY <2>2, WordAssumption
<1>4. Elapsed(k) \in 0 .. Window - 1 /\ Elapsed(k) = now - k.start
  BY <1>1, <1>2 DEF Elapsed
<1>5. l \in 0 .. k.current + k.previous
  <2>1. /\ Weighted(k) \in Nat /\ Overlap(k.previous, Elapsed(k)) \in 0 .. k.previous
        /\ Weighted(k) <= k.current + Overlap(k.previous, Elapsed(k))
    BY <1>1, <1>4, WeightedIs
  <2> HIDE DEF k, l
  <2> QED BY <1>1, <1>2, <1>3, <2>1
<1>6. LastAfter(c, k.current + k.previous, k.start - 2 * Window)
  BY <1>1 DEF Covered
<1> HIDE DEF k, l
<1>7. /\ k.current + k.previous \in Nat /\ k.start - 2 * Window \in Int /\ now - 3 * Window \in Int
      /\ now - 3 * Window <= k.start - 2 * Window
  BY <1>1, <1>2, <1>4
<1>8. LastAfter(c, l, now - 3 * Window)
  BY <1>5, <1>6, <1>7, LastAfterWeaker
<1> QED BY <1>8 DEF l

LEMMA TrueIfPromised ==
    ASSUME TypeOK, Blocked, Promised, NEW c \in Clients, NEW l \in Limits,
           Check(c, l), Answered(c), answers[c].limit = l
    PROVE  /\ answers'[c].allowed <=> answers[c].remaining > 0
           /\ answers'[c].allowed => answers'[c].remaining = answers[c].remaining - 1
<1> DEFINE k == counters[c]
<1>1. k # Absent /\ Elapsed(k) < Window
  BY DEF Blocked, Promised, JustDenied
<1>2. Entry(c) = k
  BY <1>1 DEF Entry, Rolled
<1>3. Weighted(k) \in Nat /\ l \in Nat
  <2>1. k \in Counter /\ now \in Nat
    BY <1>1, TimeAssumption DEF TypeOK
  <2> QED BY <2>1, WeightedType, WordAssumption DEF U32
<1>4. /\ Deny(c, l) => answers'[c].allowed = FALSE
      /\ Allow(c, l) => answers'[c].allowed = TRUE /\ answers'[c].remaining = Remaining(k, l)
  BY <1>2 DEF Deny, Allow, TypeOK
<1>5. IF Weighted(k) < l THEN answers[c].remaining = l - Weighted(k) ELSE answers[c].remaining = 0
  <2>1. CASE answers[c].allowed
    <3>1. answers[c].remaining = SaturatingMinus(l, Weighted(k))
      BY <2>1 DEF Promised
    <3> HIDE DEF k
    <3> QED BY <1>3, <3>1 DEF SaturatingMinus
  <2>2. CASE ~answers[c].allowed
    <3>1. answers[c].remaining = 0 /\ l <= Weighted(k)
      BY <2>2 DEF Blocked, JustDenied
    <3> HIDE DEF k
    <3> QED BY <1>3, <3>1
  <2> QED BY <2>1, <2>2
<1>6. (Deny(c, l) => ~(Weighted(k) < l)) /\ (Allow(c, l) => Weighted(k) < l)
  <2> HIDE DEF k
  <2> QED BY <1>2, <1>3 DEF Deny, Allow, Exhausted
<1> HIDE DEF k
<1>7. CASE Deny(c, l)
  BY <1>3, <1>4, <1>5, <1>6, <1>7
<1>8. CASE Allow(c, l)
  <2>1. Weighted(k) < l /\ answers[c].remaining = l - Weighted(k)
    BY <1>5, <1>6, <1>8
  <2>2. answers'[c].remaining = l - Weighted(k) - 1
    BY <1>3, <1>4, <1>8, <2>1 DEF Remaining, SaturatingMinus
  <2> QED BY <1>3, <1>4, <1>8, <2>1, <2>2
<1> QED BY <1>7, <1>8 DEF Check

LEMMA HistoryInit ==
    ASSUME HInit
    PROVE  TypeOK /\ InOrder /\ Logged /\ AllCounted /\ Blocked /\ Promised /\ BurstBound
<1>1. TypeOK
  BY TypeInit DEF HInit
<1>2. \A c \in Clients : granted[c] = <<>> /\ Len(granted[c]) = 0
  BY DEF HInit
<1>3. InOrder
  <2>1. granted \in [Clients -> Seq(Nat)]
    BY DEF HInit
  <2> QED BY <1>2, <2>1 DEF InOrder
<1>4. Logged /\ AllCounted
  BY <1>2 DEF HInit, Init, Logged, AllCounted, LongAgo, Paced
<1>5. Blocked /\ Promised
  BY DEF HInit, Init, Blocked, Promised, JustDenied, Answered
<1>6. BurstBound
  BY <1>2 DEF BurstBound
<1> QED BY <1>1, <1>3, <1>4, <1>5, <1>6

LEMMA HistoryStepIsStep == [HNext]_hvars => [Next]_vars
  BY DEF HNext, hvars, Next

(* Whoever is denied was allowed as many requests as the limit within the last three
   windows: what a counter holds is in the record of what was allowed, no earlier
   than a window before the counter's own, also if counts wrap. *)
THEOREM DenialsEarned == HSpec => []DenialsAreEarned
<1> DEFINE IInv == TypeOK /\ InOrder /\ Logged /\ Blocked
<1>1. HInit => IInv
  BY HistoryInit
<1>2. IInv /\ [HNext]_hvars => IInv'
  BY TypeStep, HistoryStepIsStep, InOrderStep, LoggedStep, BlockedStep
<1>3. IInv => DenialsAreEarned
  BY EarnedIfBlocked
<1> QED BY <1>1, <1>2, <1>3, PTL DEF HSpec

(* What the limit is worth, for limits whose counts do not wrap: as long as the window
   runs at most the limit is allowed, whatever the overlap adds, windows begin at least
   a window apart, and those before the current one keep to the pace of the limit. *)
THEOREM BurstBounded == NoWrap => (HSpec => []BurstBound)
<1> SUFFICES ASSUME NoWrap PROVE HSpec => []BurstBound
  OBVIOUS
<1> DEFINE IInv == TypeOK /\ InOrder /\ Logged /\ AllCounted /\ BurstBound
<1>1. HInit => IInv
  BY HistoryInit
<1>2. IInv /\ [HNext]_hvars => IInv'
  BY TypeStep, HistoryStepIsStep, InOrderStep, LoggedStep, AllCountedStep, BurstStep
<1>3. IInv => BurstBound
  OBVIOUS
<1> QED BY <1>1, <1>2, <1>3, PTL DEF HSpec

(* In plain numbers: no stretch of time as long as the window sees more than twice
   the greatest limit. *)
THEOREM TwiceTheLimit ==
    NoWrap =>
        (HSpec => [](\A c \in Clients : \A i, j \in 1 .. Len(granted[c]) :
                         i <= j /\ granted[c][j] - granted[c][i] <= Window =>
                             j - i + 1 <= 2 * Greatest))
<1> DEFINE Twice == \A c \in Clients : \A i, j \in 1 .. Len(granted[c]) :
                        i <= j /\ granted[c][j] - granted[c][i] <= Window =>
                            j - i + 1 <= 2 * Greatest
           IInv == TypeOK /\ InOrder /\ Logged /\ AllCounted /\ BurstBound
<1> SUFFICES ASSUME NoWrap PROVE HSpec => []Twice
  OBVIOUS
<1>1. ASSUME InOrder, BurstBound PROVE Twice
  <2> SUFFICES ASSUME NEW c \in Clients,
                      NEW i \in 1 .. Len(granted[c]), NEW j \in 1 .. Len(granted[c]),
                      i <= j, granted[c][j] - granted[c][i] <= Window
               PROVE  j - i + 1 <= 2 * Greatest
    OBVIOUS
  <2> DEFINE a == granted[c][j] - granted[c][i]
  <2>1. a \in Nat /\ a <= Window /\ j \in i .. Len(granted[c])
    <3>1. Len(granted[c]) \in Nat /\ granted[c][i] \in Nat /\ granted[c][j] \in Nat
      BY <1>1, LenProperties, ElementOfSeq DEF InOrder
    <3>2. j \in i .. Len(granted[c])
      BY <3>1
    <3>3. granted[c][i] <= granted[c][j]
      BY <1>1, <3>2 DEF InOrder
    <3> QED BY <3>1, <3>2, <3>3
  <2>2. j - i + 1 <= (Windows(a) + 1) * Greatest
    BY <1>1, <2>1 DEF BurstBound
  <2> HIDE DEF a
  <2>3. Windows(a) \in {0, 1} /\ Greatest \in Nat
    BY <2>1, WindowsSome, GreatestType
  <2>4. (Windows(a) + 1) * Greatest <= 2 * Greatest
    BY <2>3
  <2>5. (Windows(a) + 1) * Greatest \in Nat /\ j - i + 1 \in Int
    BY <2>3
  <2> QED BY <2>2, <2>3, <2>4, <2>5
<1>2. HInit => IInv
  BY HistoryInit
<1>3. IInv /\ [HNext]_hvars => IInv'
  BY TypeStep, HistoryStepIsStep, InOrderStep, LoggedStep, AllCountedStep, BurstStep
<1>4. IInv => Twice
  BY <1>1
<1> QED BY <1>2, <1>3, <1>4, PTL DEF HSpec

(* `remaining` says truly whether the same question, asked at once, is allowed, and each
   that is takes one off: the counter the answer was given from is still there, pruned
   or not, and counts exactly what it says. *)
THEOREM RemainingTrue == NoWrap => (HSpec => RemainingIsTrue)
<1> SUFFICES ASSUME NoWrap PROVE HSpec => RemainingIsTrue
  OBVIOUS
<1> DEFINE IInv == TypeOK /\ InOrder /\ Logged /\ AllCounted /\ Blocked /\ Promised
           Honest == [\A c \in Clients, l \in Limits :
                       Check(c, l) /\ Answered(c) /\ answers[c].limit = l =>
                           /\ answers'[c].allowed <=> answers[c].remaining > 0
                           /\ answers'[c].allowed =>
                                 answers'[c].remaining = answers[c].remaining - 1]_hvars
<1>1. HInit => IInv
  BY HistoryInit
<1>2. IInv /\ [HNext]_hvars => IInv'
  BY TypeStep, HistoryStepIsStep, InOrderStep, LoggedStep, AllCountedStep, BlockedStep, PromisedStep
<1>3. IInv /\ [HNext]_hvars => Honest
  BY TrueIfPromised
<1> QED BY <1>1, <1>2, <1>3, PTL DEF HSpec, RemainingIsTrue

=============================================================================
