------------------------------ MODULE Webhooks ------------------------------
(***************************************************************************)
(* Signed webhook payloads (webhooks.rs): what a receiver may conclude     *)
(* from a signature it accepts.                                            *)
(*                                                                         *)
(* A sender signs a body with a shared secret and a time of its own clock, *)
(* and a receiver verifies what arrives.  In between deliveries are lost,  *)
(* delayed, repeated and mixed: any body may arrive under any header made  *)
(* of the parts of several signatures and of parts nobody wrote.  Either   *)
(* side may move to another secret at any time.  The repository has the    *)
(* two functions and no caller of them: Send and Deliver are their calls.  *)
(***************************************************************************)
EXTENDS Integers, Sequences, FiniteSets

CONSTANTS
    Bodies,     \* payloads, as bytes
    Texts,      \* payloads, as String::from_utf8_lossy reads them
    Text,       \* that reading: bytes that are no UTF-8 are replaced
    Secrets,    \* shared secrets
    Tolerance,  \* the receiver's tolerance_secs
    Skew,       \* how far the sender's clock is from the receiver's
    HalfWord,   \* 2^63 in the code
    Stray,      \* timestamps in headers that no sender wrote
    Garbled,    \* a "t=" part that is no i64
    None,       \* no such part, no delivery
    MaxSent, MaxParts, MaxTime  \* bounds: signatures, parts of a header, clock

ASSUME WebhookNumbers ==
    /\ HalfWord \in Nat /\ Tolerance \in Nat /\ Skew \in Nat /\ MaxTime \in Nat
    /\ MaxTime + Skew < HalfWord
    /\ Stray \subseteq -HalfWord .. HalfWord - 1
    /\ Text \in [Bodies -> Texts]
ASSUME WebhookValues ==
    /\ Garbled \notin Int /\ None \notin Int /\ None # Garbled
    /\ None \notin [at: Int, text: Texts, key: Secrets]

VARIABLES
    now,        \* the receiver's clock
    theirs,     \* the sender's secret
    ours,       \* the receiver's
    sent,       \* what was signed: body, time, secret   (history)
    last        \* the last delivery and its answer      (history)

vars == <<now, theirs, ours, sent, last>>

Abs(n) == IF n < 0 THEN -n ELSE n
AsI64(n) == IF n >= HalfWord THEN n - 2 * HalfWord ELSE IF n < -HalfWord THEN n + 2 * HalfWord ELSE n

Message == [body: Bodies, at: 0 .. HalfWord - 1, key: Secrets]
Answer == {"yes", "no", "bad_request", "panic"}

(* HMAC-SHA256 over "{timestamp}.{text}", as a value of its own. *)
Mac(text, at, key) == [at |-> at, text |-> text, key |-> key]

-----------------------------------------------------------------------------
(* Parts of a header *)

Part(kind, value) == [kind |-> kind, value |-> value]

(* Seeded fault: the signature covers the body alone. *)
SignsBody(body, at, key) == Mac(Text[body], 0, key)
(* sign_webhook_payload: the v1= part of its answer *)
Signature(body, at, key) == Mac(Text[body], at, key)

(* The header of a message, as it was sent *)
Header(m) == <<Part("t", m.at), Part("v1", Signature(m.body, m.at, m.key))>>

(* Seeded fault: the first part of its kind counts. *)
FirstOf(h, kind) ==
    LET I == {i \in DOMAIN h : h[i].kind = kind}
    IN  IF I = {} THEN None ELSE h[CHOOSE i \in I : \A j \in I : i <= j].value
(* The loop over the parts: a later one replaces an earlier one. *)
LastOf(h, kind) ==
    LET I == {i \in DOMAIN h : h[i].kind = kind}
    IN  IF I = {} THEN None ELSE h[CHOOSE i \in I : \A j \in I : j <= i].value

InTime(diff) == IF diff <= Tolerance THEN "timely" ELSE "untimely"
(* Seeded fault: only deliveries that come too late are refused. *)
NotLate(diff) == {InTime(diff)}
(* (now - ts).abs() > tolerance_secs: the subtraction and abs wrap in a release
   build and panic in a debug build when they leave i64. *)
Timeliness(diff) ==
    IF diff \in -HalfWord + 1 .. HalfWord - 1
    THEN {InTime(Abs(diff))}
    ELSE {InTime(AsI64(Abs(AsI64(diff)))), "panic"}

(* verify_webhook_signature, at time t with secret k: the possible answers *)
Verify(body, k, h, t) ==
    LET ts == LastOf(h, "t")  sig == LastOf(h, "v1") IN
    IF ts \in {None, Garbled} \/ sig = None
    THEN {"bad_request"}
    ELSE {CASE out = "panic" -> "panic"
            [] out = "timely" /\ sig = Signature(body, ts, k) -> "yes"
            [] OTHER -> "no" : out \in Timeliness(t - ts)}

-----------------------------------------------------------------------------
Init ==
    /\ now = 0
    /\ theirs \in Secrets /\ ours \in Secrets
    /\ sent = {}
    /\ last = None

(* The sender signs a body, at the time its clock shows. *)
Send(body) ==
    /\ Cardinality(sent) < MaxSent
    /\ \E at \in 0 .. HalfWord - 1 :
        /\ Abs(at - now) <= Skew
        /\ sent' = sent \cup {[body |-> body, at |-> at, key |-> theirs]}
    /\ last' = None
    /\ UNCHANGED <<now, theirs, ours>>

(* What may arrive: parts of the headers that were sent, and stray ones *)
Parts ==
    {Part("t", n) : n \in Stray \cup {Garbled} \cup {m.at : m \in sent}}
    \cup {Part("v1", Signature(m.body, m.at, m.key)) : m \in sent}
Headers == UNION {[1 .. n -> Parts] : n \in 0 .. MaxParts}

(* A delivery arrives, first or again, and is verified. *)
Deliver(body, h) ==
    /\ \E answer \in Verify(body, ours, h, now) :
        last' = [body |-> body, key |-> ours, when |-> now, answer |-> answer]
    /\ UNCHANGED <<now, theirs, ours, sent>>

RollTheirs(k) == theirs' = k /\ last' = None /\ UNCHANGED <<now, ours, sent>>
RollOurs(k) == ours' = k /\ last' = None /\ UNCHANGED <<now, theirs, sent>>

Tick ==
    /\ now < MaxTime
    /\ now' = now + 1
    /\ last' = None
    /\ UNCHANGED <<theirs, ours, sent>>

Next ==
    \/ Tick
    \/ \E k \in Secrets : RollTheirs(k) \/ RollOurs(k)
    \/ \E body \in Bodies : Send(body) \/ \E h \in Headers : Deliver(body, h)

Spec == Init /\ [][Next]_vars

-----------------------------------------------------------------------------
(* Properties *)

TypeOK ==
    /\ now \in 0 .. MaxTime
    /\ theirs \in Secrets /\ ours \in Secrets
    /\ sent \subseteq Message
    /\ last \in [body: Bodies, key: Secrets, when: 0 .. MaxTime, answer: Answer] \cup {None}

(* An accepted delivery carries the text of a body that was signed with the
   receiver's secret no longer ago, or ahead, than the tolerance: however it
   was delayed, repeated or put together from parts of several, whatever
   secrets were in use in between, and although the comparison of the times
   leaves i64 for a timestamp nobody wrote.  The text, not the body: bodies
   that are no UTF-8 are signed after their bytes were replaced. *)
AcceptedWasSigned ==
    last # None /\ last.answer = "yes" =>
        \E m \in sent :
            /\ Text[m.body] = Text[last.body] /\ m.key = last.key
            /\ Abs(last.when - m.at) <= Tolerance

(* A message that arrives as it was sent is accepted exactly as long as both
   sides have the same secret and the clocks are within the tolerance: also
   the second time, and also under a header that other parts precede, as long
   as its own come last. *)
UnalteredVerifies ==
    \A m \in sent : \A h \in {<<>>} \cup {<<p>> : p \in Parts} :
        LET good == m.key = ours /\ Abs(now - m.at) <= Tolerance
        IN  Verify(m.body, ours, h \o Header(m), now) = {IF good THEN "yes" ELSE "no"}

=============================================================================
