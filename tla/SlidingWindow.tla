---------------------------- MODULE SlidingWindow ----------------------------
(***************************************************************************)
(* What the rate limiter of src/src/rate_limit.rs promises: it remembers,  *)
(* for every client, how many requests it allowed in the client's current  *)
(* window and in the one before, and for how long the current one has been *)
(* open.  There is no map, no clock and no pruning, and a client that is   *)
(* quiet for two windows is as good as new at that very moment.            *)
(***************************************************************************)
EXTENDS Integers

CONSTANTS
    Clients, Limits, Word, Unasked,     \* as in RateLimiter
    Window, Second,                     \* in ticks
    Overlap(_, _)                       \* what is left of a count after some time

VARIABLES
    slots,      \* client -> its two counts and the age of its window
    answers     \* client -> the last answer

vars == <<slots, answers>>

Idle == [current |-> 0, previous |-> 0, age |-> 2 * Window]

\* A window that is over becomes the previous one.
Open(slot) ==
    IF slot.age < Window THEN slot
    ELSE [current |-> 0, previous |-> slot.current, age |-> 0]

Used(slot) == (slot.current + Overlap(slot.previous, slot.age)) % Word

Older(slot) == IF slot.age + 1 < 2 * Window THEN [slot EXCEPT !.age = @ + 1] ELSE Idle

Init ==
    /\ slots = [c \in Clients |-> Idle]
    /\ answers = [c \in Clients |-> Unasked]

Ask(c, limit) ==
    LET slot == Open(slots[c])
        left == (Window - slot.age) \div Second
        fits == Used(slot) < limit
    IN /\ slots' = [slots EXCEPT ![c] =
             IF fits /\ slot.current + 1 < Word
             THEN [slot EXCEPT !.current = @ + 1] ELSE slot]
       /\ answers' = [answers EXCEPT ![c] =
             [allowed |-> fits, limit |-> limit,
              remaining |-> IF Used(slot) + 1 < limit THEN limit - (Used(slot) + 1) ELSE 0,
              reset |-> left,
              retry |-> IF fits THEN 0 ELSE IF left = 0 THEN 1 ELSE left]]

Pass ==
    /\ slots' = [c \in Clients |-> Older(slots[c])]
    /\ UNCHANGED answers

Next ==
    \/ \E c \in Clients, limit \in Limits : Ask(c, limit)
    \/ Pass

Spec == Init /\ [][Next]_vars

=============================================================================
