------------------------- MODULE RateLimiterHistory -------------------------
(***************************************************************************)
(* RateLimiter with a record of what it allowed, for the properties that   *)
(* speak of the requests of some stretch of time, and its refinement to    *)
(* SlidingWindow.                                                          *)
(***************************************************************************)
EXTENDS RateLimiter, Sequences

VARIABLES
    granted,    \* client -> when its requests were allowed, in order
    asked       \* client -> when its last answer was given

hvars == <<vars, granted, asked>>

HInit ==
    /\ Init
    /\ granted = [c \in Clients |-> <<>>]
    /\ asked = [c \in Clients |-> 0]

Record(c) ==
    /\ granted' = [granted EXCEPT ![c] =
          IF answers'[c].allowed THEN Append(@, now) ELSE @]
    /\ asked' = [asked EXCEPT ![c] = now]

HNext ==
    \/ \E c \in Clients, limit \in Limits : Check(c, limit) /\ Record(c)
    \/ (Prune \/ Tick) /\ UNCHANGED <<granted, asked>>

HSpec == HInit /\ [][HNext]_hvars

-----------------------------------------------------------------------------

\* c was given its last answer at this very moment.
Answered(c) == answers[c] # Unasked /\ asked[c] = now
JustDenied(c) == Answered(c) /\ ~answers[c].allowed

Greatest == CHOOSE l \in Limits : \A m \in Limits : m <= l

\* The last n requests that c was allowed came after time t.
LastAfter(c, n, t) ==
    /\ n <= Len(granted[c])
    /\ n > 0 => granted[c][Len(granted[c]) - n + 1] > t

\* The windows that fit behind one another into some time, the last one maybe in part.
Windows(time) == (time + Window - 1) \div Window

(* What the limit is worth.  In no stretch of time does the code allow more than the
   (greatest) limit for every window begun in it, and once more for the window it
   began in: at most twice the limit in a stretch as long as the window, whatever is
   left of the previous window, and in the long run the limit per window.  The
   client's own windows may lie anywhere, and rotating late, pruning and rounding do
   not matter. *)
BurstBound ==
    \A c \in Clients : \A i \in 1 .. Len(granted[c]) : \A j \in i .. Len(granted[c]) :
        j - i + 1 <= (Windows(granted[c][j] - granted[c][i]) + 1) * Greatest

(* Nobody is denied for nothing: a denied client was allowed at least as many
   requests as the limit it met within the last three windows.  A count that
   survived its window would break this. *)
DenialsAreEarned ==
    \A c \in Clients : JustDenied(c) =>
        LastAfter(c, answers[c].limit, now - 3 * Window)

(* `remaining` is the truth: asked again at the same moment with the same limit, the
   limiter allows the request exactly if it had said that some remain, and then says
   one less.  So what it said is how many more requests it would allow there and
   then, also if it is pruned in between. *)
RemainingIsTrue ==
    [][\A c \in Clients, l \in Limits :
          Check(c, l) /\ Answered(c) /\ answers[c].limit = l =>
              /\ answers'[c].allowed <=> answers[c].remaining > 0
              /\ answers'[c].allowed => answers'[c].remaining = answers[c].remaining - 1]_hvars

(* The window slides: with one limit for all, a client that had nothing allowed
   in the last window, its bounds included, is not denied, for the previous
   window then lies at least partly outside the sliding one and no longer counts
   in full.  The code counts it in full: it restarts the window at the first
   request after its end, up to two windows after it began. *)
DeniedOnlyWhenBusy ==
    \A c \in Clients : JustDenied(c) => LastAfter(c, 1, now - Window - 1)

-----------------------------------------------------------------------------

\* The map as SlidingWindow sees it: what is missing or too old is idle.
Slot(c) ==
    IF counters[c] # Absent /\ Kept(counters[c])
    THEN [current |-> counters[c].current, previous |-> counters[c].previous,
          age |-> Elapsed(counters[c])]
    ELSE [current |-> 0, previous |-> 0, age |-> 2 * Window]

Sliding == INSTANCE SlidingWindow WITH slots <- [c \in Clients |-> Slot(c)]

(* Pruning cannot be noticed: with a map whose stale entries may be there or
   not, the answers are those of a limiter that never prunes and whose clients
   become idle exactly two windows after theirs began. *)
SlidingSpec == Sliding!Spec

=============================================================================
