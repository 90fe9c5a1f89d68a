----------------------------- MODULE RateLimiter -----------------------------
(***************************************************************************)
(* The sliding-window rate limiter of src/src/rate_limit.rs.               *)
(*                                                                         *)
(* Both maps of RateLimitState (per lineage and per address) hold counters *)
(* of the same kind and are used in the same way, so a client is a lineage *)
(* or an address.  Every method holds the write guard from its first to    *)
(* its last statement: one method is one action.  A tick is the resolution *)
(* of Instant, a second is many of them; what the code says in seconds it  *)
(* gets with as_secs, which cuts off the rest.                             *)
(***************************************************************************)
EXTENDS Integers

CONSTANTS
    Clients,    \* lineages and addresses
    Limits,     \* limits the callers pass
    WindowSecs, \* window_secs
    Second,     \* ticks of a second
    Word,       \* the counters are of type u32: numbers below Word
    Absent,     \* no entry in the map
    Unasked,    \* no answer was given yet
    Precision,  \* of a double: the relative error of a product is 1 in Precision
    RoundedDown,    \* the products that come out one too low ...
    RoundedUp,      \* ... and one too high, see Overlap
    MaxTime     \* bound on the clock (model checking only)

ASSUME WindowAssumption == WindowSecs \in Nat \ {0} /\ Second \in Nat \ {0}
ASSUME WordAssumption == Word \in Nat \ {0} /\ Limits \subseteq 0 .. Word - 1
ASSUME TimeAssumption == MaxTime \in Nat

Window == WindowSecs * Second
AsSecs(duration) == duration \div Second

VARIABLES
    now,        \* Instant::now
    counters,   \* client -> WindowCounter, or Absent
    answers     \* client -> the last RateLimitResult

vars == <<now, counters, answers>>

U32 == 0 .. Word - 1
Counter == [current : U32, previous : U32, start : 0 .. MaxTime]
Result == [allowed : BOOLEAN, limit : Limits, remaining : U32,
           reset : 0 .. WindowSecs, retry : 0 .. WindowSecs]

ASSUME NullAssumption == Absent \notin Counter /\ Unasked \notin Result

-----------------------------------------------------------------------------

(* previous_count * overlap_ratio, cut off to an integer.  The ratio
   1 - elapsed / Window is a double, and so is the product: one that lies as near
   to a whole number as the arithmetic is precise may come out on its other side.
   Which ones do is a fact of the arithmetic, the same at every call; when nothing
   has elapsed the ratio is 1 and the product exact. *)
Product(count, elapsed) == count * (Window - elapsed)
Near(count, parts) == parts * Precision <= count * Window
MayRoundDown == {p \in U32 \X (1 .. Window - 1) :
                   /\ Product(p[1], p[2]) >= Window
                   /\ Near(p[1], Product(p[1], p[2]) % Window)}
MayRoundUp == {p \in U32 \X (1 .. Window - 1) :
                 /\ p[1] > 0
                 /\ Near(p[1], Window - (Product(p[1], p[2]) % Window))}

ASSUME RoundingAssumption ==
    /\ Precision \in Nat /\ Precision >= Word
    /\ RoundedDown \subseteq MayRoundDown
    /\ RoundedUp \subseteq MayRoundUp \ RoundedDown

Overlap(count, elapsed) ==
    Product(count, elapsed) \div Window
        - (IF <<count, elapsed>> \in RoundedDown THEN 1 ELSE 0)
        + (IF <<count, elapsed>> \in RoundedUp THEN 1 ELSE 0)

Elapsed(counter) == now - counter.start

Fresh == [current |-> 0, previous |-> 0, start |-> now]

\* Seeded fault: the window moves on, but its start stays.
RollsWithoutStart(counter) ==
    IF Elapsed(counter) < Window THEN counter
    ELSE [counter EXCEPT !.previous = counter.current, !.current = 0]

\* Seeded fault: one window after another, however many passed.
RollsOnce(counter) ==
    IF Elapsed(counter) < Window THEN counter
    ELSE [Fresh EXCEPT !.previous = counter.current]

\* "Rotate window if needed"
Rolled(counter) ==
    IF Elapsed(counter) < Window THEN counter
    ELSE IF AsSecs(Elapsed(counter)) \div WindowSecs >= 2 THEN Fresh
    ELSE [Fresh EXCEPT !.previous = counter.current]

\* The counter a check works on: its entry, made if there is none, rotated.
Entry(c) == Rolled(IF counters[c] = Absent THEN Fresh ELSE counters[c])

\* Additions on u32 wrap in a release build.
Weighted(counter) ==
    (counter.current + Overlap(counter.previous, Elapsed(counter))) % Word

SaturatingIncrement(n) == IF n + 1 < Word THEN n + 1 ELSE n
SaturatingMinus(m, n) == IF n < m THEN m - n ELSE 0
AtLeastOne(n) == IF n < 1 THEN 1 ELSE n

\* Seeded fault: off by one.
ExhaustedLate(counter, limit) == Weighted(counter) > limit
Exhausted(counter, limit) == Weighted(counter) >= limit

\* Seeded fault: the request itself is forgotten.
RemainingBefore(counter, limit) == SaturatingMinus(limit, Weighted(counter))
Remaining(counter, limit) == SaturatingMinus(limit, Weighted(counter) + 1)

-----------------------------------------------------------------------------

Init ==
    /\ now = 0
    /\ counters = [c \in Clients |-> Absent]
    /\ answers = [c \in Clients |-> Unasked]

\* check_lineage, check_ip: a request over the limit is denied, and leaves the
\* rotated counter behind ...
Deny(c, limit) ==
    LET left == AsSecs(Window - Elapsed(Entry(c))) IN
    /\ Exhausted(Entry(c), limit)
    /\ counters' = [counters EXCEPT ![c] = Entry(c)]
    /\ answers' = [answers EXCEPT ![c] =
          [allowed |-> FALSE, limit |-> limit, remaining |-> 0,
           reset |-> left, retry |-> AtLeastOne(left)]]
    /\ UNCHANGED now

\* ... any other is counted.  (No retry_after_secs is shown as 0.)
Allow(c, limit) ==
    /\ ~Exhausted(Entry(c), limit)
    /\ counters' = [counters EXCEPT ![c] =
          [Entry(c) EXCEPT !.current = SaturatingIncrement(@)]]
    /\ answers' = [answers EXCEPT ![c] =
          [allowed |-> TRUE, limit |-> limit,
           remaining |-> Remaining(Entry(c), limit),
           reset |-> AsSecs(Window - Elapsed(Entry(c))), retry |-> 0]]
    /\ UNCHANGED now

Check(c, limit) == Deny(c, limit) \/ Allow(c, limit)

\* prune_expired: entries of two windows or more are dropped.
\* Seeded fault: one window is enough.
KeptOneWindow(counter) == Elapsed(counter) < Window
Kept(counter) == Elapsed(counter) < 2 * Window
Prune ==
    /\ counters' = [c \in Clients |->
          IF counters[c] # Absent /\ Kept(counters[c]) THEN counters[c] ELSE Absent]
    /\ UNCHANGED <<now, answers>>

Tick ==
    /\ now < MaxTime
    /\ now' = now + 1
    /\ UNCHANGED <<counters, answers>>

Next ==
    \/ \E c \in Clients, limit \in Limits : Check(c, limit)
    \/ Prune
    \/ Tick

Spec == Init /\ [][Next]_vars

-----------------------------------------------------------------------------

(* Every variable keeps its type: the counts stay within u32, no counter starts
   in the future, and after a check the counter's window is not over (reset and
   retry are within it). *)
TypeOK ==
    /\ now \in 0 .. MaxTime
    /\ counters \in [Clients -> Counter \cup {Absent}]
    /\ \A c \in Clients : counters[c] # Absent => counters[c].start <= now
    /\ answers \in [Clients -> Result \cup {Unasked}]

=============================================================================
