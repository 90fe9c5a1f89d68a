-------------------------- MODULE KeyFormatProofs --------------------------
(* Proofs about the text of keys. *)
EXTENDS KeyFormat, SequenceTheorems, TLAPS

(* The two parts of a concatenation are found again. *)
LEMMA SplitAgain ==
    ASSUME NEW S, NEW s \in Seq(S), NEW t \in Seq(S)
    PROVE  /\ Len(s \o t) = Len(s) + Len(t)
           /\ SubSeq(s \o t, 1, Len(s)) = s
           /\ SubSeq(s \o t, Len(s) + 1, Len(s \o t)) = t
<1>1. s \o t \in Seq(S) /\ Len(s) \in Nat /\ Len(t) \in Nat /\ Len(s \o t) = Len(s) + Len(t)
  OBVIOUS
<1>2. SubSeq(s \o t, 1, Len(s)) = s
  <2>1. SubSeq(s \o t, 1, Len(s)) = [i \in 1 .. Len(s) |-> (s \o t)[i]]
    BY <1>1
  <2>2. \A i \in 1 .. Len(s) : (s \o t)[i] = s[i]
    BY <1>1
  <2>3. s = [i \in 1 .. Len(s) |-> s[i]]
    OBVIOUS
  <2> QED
    BY <2>1, <2>2, <2>3
<1>3. SubSeq(s \o t, Len(s) + 1, Len(s \o t)) = t
  <2> DEFINE u == SubSeq(s \o t, Len(s) + 1, Len(s \o t))
  <2>1. u \in Seq(S) /\ Len(u) = Len(t)
    BY <1>1
  <2>2. \A i \in 1 .. Len(t) : u[i] = t[i]
    BY <1>1
  <2> QED
    BY <2>1, <2>2, SeqEqual
<1> QED
  BY <1>1, <1>2, <1>3

(* Every key that is generated is recognised again, in its environment, by the
   client-side check: whatever the lengths its numbers have, the checksum has
   one of those that are tried (keys.rs:47, keys.rs:173). *)
THEOREM GeneratedIsRecognised ==
    ASSUME Libraries, NEW env \in Env, NEW n1 \in U128, NEW n2 \in U128
    PROVE  /\ ParsePrefix(GeneratedKey(env, n1, n2)) = env
           /\ ValidChecksum(GeneratedKey(env, n1, n2))
<1> DEFINE body == Body(n1, n2)
           sum == Encode(Crc(body))
           key == GeneratedKey(env, n1, n2)
<1>1. body \in Seq(Chars) /\ Len(body) \in Nat /\ Len(body) >= 1
  <2>1. /\ Encode(n1) \in Seq(Chars) /\ Encode(n1) # <<>>
        /\ Encode(n2) \in Seq(Chars)
    BY DEF Libraries
  <2>2. Len(Encode(n1)) >= 1 /\ Len(Encode(n1)) \in Nat /\ Len(Encode(n2)) \in Nat
    BY <2>1, EmptySeq
  <2>3. Len(Encode(n1) \o Encode(n2)) = Len(Encode(n1)) + Len(Encode(n2))
    BY <2>1, SplitAgain
  <2> QED
    BY <2>1, <2>2, <2>3 DEF Body
<1>2. Crc(body) \in U32 /\ Crc(body) \in U128
  BY <1>1 DEF Libraries, U32, U128
<1>3. sum \in Seq(Chars) /\ Len(sum) \in 1 .. 6 /\ Decode(sum) = Crc(body)
  <2>1. /\ sum \in Seq(Chars) /\ sum # <<>> /\ Decode(sum) = Crc(body)
        /\ Len(sum) <= 6
    BY <1>2 DEF Libraries
  <2>2. Len(sum) \in Nat /\ Len(sum) # 0
    BY <2>1, EmptySeq
  <2>3. Len(sum) \in 1 .. 6
    <3> DEFINE l == Len(sum)
    <3> HIDE DEF sum, body, l
    <3>1. l \in Nat /\ l # 0 /\ l <= 6
      BY <2>1, <2>2 DEF l
    <3>2. l \in 1 .. 6
      BY <3>1
    <3> QED
      BY <3>2 DEF l
  <2> QED
    BY <2>1, <2>3
<1>4. key.head = env /\ key.rest = body \o sum
  BY DEF GeneratedKey
<1> HIDE DEF body, sum, key
<1>5. /\ Len(key.rest) = Len(body) + Len(sum)
      /\ SubSeq(key.rest, 1, Len(body)) = body
      /\ SubSeq(key.rest, Len(body) + 1, Len(key.rest)) = sum
  BY <1>1, <1>3, <1>4, SplitAgain
<1>6. /\ Len(key.rest) - Len(sum) = Len(body) /\ Len(key.rest) > Len(sum)
      /\ Len(sum) \in 1 .. 7
  BY <1>1, <1>3, <1>5
<1>7. ValidChecksum(key)
  BY <1>2, <1>3, <1>4, <1>5, <1>6 DEF ValidChecksum
<1>8. ParsePrefix(key) = env
  BY <1>4 DEF ParsePrefix
<1> QED
  BY <1>7, <1>8 DEF key

=============================================================================
