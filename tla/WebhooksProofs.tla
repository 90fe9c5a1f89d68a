--------------------------- MODULE WebhooksProofs ---------------------------
(***************************************************************************)
(* Proofs about signed webhooks, for any bodies, secrets, tolerance, clock *)
(* skew and width of the integers, and headers of any length.              *)
(***************************************************************************)
EXTENDS Webhooks, WellFoundedInduction, TLAPS

-----------------------------------------------------------------------------
(* Reading a header *)

(* A nonempty set of positions has a last one. *)
LEMMA LastPosition ==
    ASSUME NEW n \in Nat, NEW I \in SUBSET (1 .. n), I # {}
    PROVE  \E i \in I : \A j \in I : j <= i
<1> DEFINE T == {m \in Nat : n - m \in I}
           Less == OpToRel(<, Nat)
<1>1. T \subseteq Nat
  OBVIOUS
<1>2. T # {}
  <2>1. PICK i \in I : TRUE
    OBVIOUS
  <2>2. n - i \in Nat /\ n - (n - i) = i
    BY <2>1
  <2> QED
    BY <2>1, <2>2
<1>3. IsWellFoundedOn(Less, Nat)
  BY NatLessThanWellFounded
<1> HIDE DEF T, Less
<1>4. PICK x \in T : \A y \in T : <<y, x>> \notin Less
  BY <1>1, <1>2, <1>3, WFMin
<1>5. ASSUME NEW y \in T PROVE x <= y
  <2>1. ~(y < x)
    BY <1>1, <1>4 DEF Less, OpToRel
  <2> QED
    BY <1>1, <2>1
<1>6. x \in Nat /\ n - x \in I
  BY DEF T
<1>7. ASSUME NEW j \in I PROVE j <= n - x
  <2>1. n - j \in Nat /\ n - (n - j) = j
    OBVIOUS
  <2>2. n - j \in T
    BY <2>1 DEF T
  <2> QED
    BY <1>5, <1>6, <2>1, <2>2
<1> QED
  BY <1>6, <1>7

(* The value found for a kind is that of a part of this kind. *)
LEMMA LastOfIsPart ==
    ASSUME NEW h \in Headers, NEW kind, LastOf(h, kind) # None
    PROVE  \E p \in Parts : p.kind = kind /\ p.value = LastOf(h, kind)
<1> DEFINE I == {i \in DOMAIN h : h[i].kind = kind}
<1>1. PICK n \in 0 .. MaxParts : h \in [1 .. n -> Parts]
  BY DEF Headers
<1>2. I # {}
  BY DEF LastOf
<1>3. \E i \in I : \A j \in I : j <= i
  <2>1. I \in SUBSET (1 .. n) /\ n \in Nat
    BY <1>1
  <2> QED
    BY <1>2, <2>1, LastPosition
<1> DEFINE last_i == CHOOSE i \in I : \A j \in I : j <= i
<1>4. last_i \in I
  BY <1>3
<1>5. LastOf(h, kind) = h[last_i].value
  BY <1>2 DEF LastOf
<1> QED
  BY <1>1, <1>4, <1>5

LEMMA TheLast ==
    ASSUME NEW I, I \subseteq Int, NEW k \in I, \A j \in I : j <= k
    PROVE  (CHOOSE i \in I : \A j \in I : j <= i) = k
<1> DEFINE c == CHOOSE i \in I : \A j \in I : j <= i
<1>1. c \in I /\ \A j \in I : j <= c
  OBVIOUS
<1>2. c <= k /\ k <= c /\ c \in Int /\ k \in Int
  BY <1>1
<1> HIDE DEF c
<1>3. c = k
  BY <1>2
<1> QED
  BY <1>3 DEF c

(* A message's own parts count when they come last. *)
LEMMA OwnPartsLast ==
    ASSUME NEW h \in Seq(Parts), NEW m
    PROVE  /\ LastOf(h \o Header(m), "t") = m.at
           /\ LastOf(h \o Header(m), "v1") = Signature(m.body, m.at, m.key)
<1> DEFINE g == h \o Header(m)
           n == Len(h)
<1>1. n \in Nat /\ Len(Header(m)) = 2
  BY DEF Header
<1>2. /\ DOMAIN g = 1 .. n + 2
      /\ g[n + 1] = Part("t", m.at)
      /\ g[n + 2] = Part("v1", Signature(m.body, m.at, m.key))
  BY <1>1 DEF Header
<1> DEFINE I(kind) == {i \in DOMAIN g : g[i].kind = kind}
<1>3. n + 1 \in I("t") /\ \A j \in I("t") : j <= n + 1
  BY <1>1, <1>2 DEF Part
<1>4. n + 2 \in I("v1") /\ \A j \in I("v1") : j <= n + 2
  BY <1>1, <1>2 DEF Part
<1>5. (CHOOSE i \in I("t") : \A j \in I("t") : j <= i) = n + 1
  <2>1. I("t") \subseteq Int
    BY <1>2
  <2> HIDE DEF I
  <2> QED
    BY <1>3, <2>1, TheLast
<1>6. (CHOOSE i \in I("v1") : \A j \in I("v1") : j <= i) = n + 2
  <2>1. I("v1") \subseteq Int
    BY <1>2
  <2> HIDE DEF I
  <2> QED
    BY <1>4, <2>1, TheLast
<1>7. LastOf(g, "t") = g[n + 1].value
  BY <1>3, <1>5 DEF LastOf
<1>8. LastOf(g, "v1") = g[n + 2].value
  BY <1>4, <1>6 DEF LastOf
<1> QED
  BY <1>2, <1>7, <1>8 DEF Part

-----------------------------------------------------------------------------
(* Verification *)

(* Times that are no further apart than i64 reaches are compared as they are. *)
LEMMA Compared ==
    ASSUME NEW t \in Int, NEW at \in Int, t - at \in -HalfWord + 1 .. HalfWord - 1
    PROVE  Timeliness(t - at) = {IF Abs(t - at) <= Tolerance THEN "timely" ELSE "untimely"}
BY DEF Timeliness, InTime

LEMMA AnswersType ==
    ASSUME NEW body, NEW k, NEW h, NEW t, NEW a \in Verify(body, k, h, t)
    PROVE  a \in Answer
<1> DEFINE ts == LastOf(h, "t")
           sig == LastOf(h, "v1")
<1>1. CASE ts \in {None, Garbled} \/ sig = None
  BY <1>1 DEF Verify, Answer
<1>2. CASE ~(ts \in {None, Garbled} \/ sig = None)
  <2>1. PICK out \in Timeliness(t - ts) :
          a = CASE out = "panic" -> "panic"
                [] out = "timely" /\ sig = Signature(body, ts, k) -> "yes"
                [] OTHER -> "no"
    BY <1>2 DEF Verify
  <2> QED
    BY <2>1 DEF Answer
<1> QED
  BY <1>1, <1>2

(* A header verifies only with the signature of a message of the same text,
   time and secret. *)
LEMMA YesMeansSigned ==
    ASSUME TypeOK, NEW body \in Bodies, NEW h \in Headers,
           "yes" \in Verify(body, ours, h, now)
    PROVE  \E m \in sent : /\ Text[m.body] = Text[body] /\ m.key = ours
                           /\ Abs(now - m.at) <= Tolerance
<1> DEFINE ts == LastOf(h, "t")
           sig == LastOf(h, "v1")
<1>1. /\ sig # None /\ sig = Signature(body, ts, ours)
      /\ "timely" \in Timeliness(now - ts)
  BY DEF Verify
<1>2. PICK p \in Parts : p.kind = "v1" /\ p.value = sig
  BY <1>1, LastOfIsPart
<1>3. PICK m \in sent : sig = Signature(m.body, m.at, m.key)
  BY <1>2 DEF Parts, Part
<1>4. Text[m.body] = Text[body] /\ m.at = ts /\ m.key = ours
  BY <1>1, <1>3 DEF Signature, Mac
<1>5. m.at \in 0 .. HalfWord - 1 /\ now \in 0 .. MaxTime
  BY <1>3 DEF TypeOK, Message
<1>6. now - m.at \in -HalfWord + 1 .. HalfWord - 1
  BY <1>5, WebhookNumbers
<1>7. Timeliness(now - m.at) = {IF Abs(now - m.at) <= Tolerance THEN "timely" ELSE "untimely"}
  <2>1. now \in Int /\ m.at \in Int
    BY <1>5
  <2> HIDE DEF ts, sig
  <2> QED
    BY <1>6, <2>1, Compared
<1>8. Abs(now - m.at) <= Tolerance
  BY <1>1, <1>4, <1>7
<1> QED
  BY <1>4, <1>8

-----------------------------------------------------------------------------
(* The inductive invariant *)

Inductive == TypeOK /\ AcceptedWasSigned

LEMMA InitInductive == Init => Inductive
BY WebhookNumbers DEF Init, Inductive, TypeOK, AcceptedWasSigned

(* Only a delivery leaves an answer behind. *)
LEMMA NoAnswer == ASSUME last' = None PROVE AcceptedWasSigned'
BY DEF AcceptedWasSigned

LEMMA DeliverKeeps ==
    ASSUME Inductive, NEW body \in Bodies, NEW h \in Headers, Deliver(body, h)
    PROVE  Inductive'
<1>1. PICK a \in Verify(body, ours, h, now) :
        last' = [body |-> body, key |-> ours, when |-> now, answer |-> a]
  BY DEF Deliver
<1>2. UNCHANGED <<now, theirs, ours, sent>> /\ TypeOK
  BY DEF Deliver, Inductive
<1>3. a \in Answer
  BY AnswersType
<1>4. TypeOK'
  BY <1>1, <1>2, <1>3 DEF TypeOK
<1>5. AcceptedWasSigned'
  <2> SUFFICES ASSUME last'.answer = "yes"
               PROVE  \E m \in sent : /\ Text[m.body] = Text[body] /\ m.key = ours
                                      /\ Abs(now - m.at) <= Tolerance
    BY <1>1, <1>2 DEF AcceptedWasSigned
  <2> QED
    BY <1>1, <1>2, YesMeansSigned
<1> QED
  BY <1>4, <1>5 DEF Inductive

LEMMA InductiveStep == Inductive /\ [Next]_vars => Inductive'
<1> SUFFICES ASSUME Inductive, [Next]_vars PROVE Inductive'
  OBVIOUS
<1> USE DEF Inductive
<1>1. CASE UNCHANGED vars
  BY <1>1 DEF vars, TypeOK, AcceptedWasSigned
<1>2. CASE Tick
  <2>1. TypeOK'
    BY <1>2, WebhookNumbers DEF Tick, TypeOK
  <2> QED
    BY <1>2, <2>1, NoAnswer DEF Tick
<1>3. CASE \E k \in Secrets : RollTheirs(k) \/ RollOurs(k)
  BY <1>3, NoAnswer DEF RollTheirs, RollOurs, TypeOK
<1>4. CASE \E body \in Bodies : Send(body)
  <2>1. TypeOK'
    BY <1>4 DEF Send, TypeOK, Message
  <2> QED
    BY <1>4, <2>1, NoAnswer DEF Send
<1>5. CASE \E body \in Bodies : \E h \in Headers : Deliver(body, h)
  BY <1>5, DeliverKeeps
<1> QED
  BY <1>1, <1>2, <1>3, <1>4, <1>5 DEF Next

LEMMA WebhooksInductive == Spec => []Inductive
BY InitInductive, InductiveStep, PTL DEF Spec

(* What a receiver accepts was signed with its secret within the tolerance,
   whatever arrives and in whatever order (webhooks.rs:123). *)
THEOREM OnlySignedAccepted == Spec => []AcceptedWasSigned
<1>1. Inductive => AcceptedWasSigned
  BY DEF Inductive
<1> QED
  BY WebhooksInductive, <1>1, PTL

(* What arrives as it was sent is accepted as long as it is timely, as often
   as it arrives (webhooks.rs:123). *)
THEOREM UnalteredAccepted == Spec => []UnalteredVerifies
<1>1. Inductive => UnalteredVerifies
  <2> SUFFICES ASSUME TypeOK, NEW m \in sent, NEW h \in {<<>>} \cup {<<p>> : p \in Parts}
               PROVE  LET good == m.key = ours /\ Abs(now - m.at) <= Tolerance
                      IN  Verify(m.body, ours, h \o Header(m), now)
                            = {IF good THEN "yes" ELSE "no"}
    BY DEF Inductive, UnalteredVerifies
  <2>1. h \in Seq(Parts)
    <3>1. \A p \in Parts : <<p>> \in Seq(Parts)
      OBVIOUS
    <3>2. <<>> \in Seq(Parts)
      OBVIOUS
    <3> QED
      BY <3>1, <3>2
  <2>2. m \in Message /\ now \in 0 .. MaxTime
    BY DEF TypeOK
  <2>3. m.at \in 0 .. HalfWord - 1 /\ m.at \in Int /\ now \in Int
    BY <2>2 DEF Message
  <2>4. now - m.at \in -HalfWord + 1 .. HalfWord - 1
    BY <2>2, <2>3, WebhookNumbers
  <2> DEFINE ts == LastOf(h \o Header(m), "t")
             sig == LastOf(h \o Header(m), "v1")
  <2>5. ts = m.at /\ sig = Signature(m.body, m.at, m.key)
    BY <2>1, OwnPartsLast
  <2>6. ts \notin {None, Garbled}
    BY <2>3, <2>5, WebhookNumbers, WebhookValues
  <2>7. sig # None
    <3>1. Text[m.body] \in Texts /\ m.key \in Secrets
      BY <2>2, WebhookNumbers DEF Message
    <3> QED
      BY <2>3, <2>5, <3>1, WebhookValues DEF Signature, Mac
  <2>8. Timeliness(now - ts) = {IF Abs(now - m.at) <= Tolerance THEN "timely" ELSE "untimely"}
    BY <2>3, <2>4, <2>5, Compared
  <2>9. sig = Signature(m.body, ts, ours) <=> m.key = ours
    BY <2>5 DEF Signature, Mac
  <2> HIDE DEF ts, sig
  <2>10. Verify(m.body, ours, h \o Header(m), now) =
           {CASE out = "panic" -> "panic"
              [] out = "timely" /\ sig = Signature(m.body, ts, ours) -> "yes"
              [] OTHER -> "no" : out \in Timeliness(now - ts)}
    BY <2>6, <2>7 DEF Verify, ts, sig
  <2> QED
    BY <2>8, <2>9, <2>10
<1> QED
  BY WebhooksInductive, <1>1, PTL

=============================================================================
