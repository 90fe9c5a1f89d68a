----------------------------- MODULE KeyFormat -----------------------------
(***************************************************************************)
(* The text of an API key (keys.rs): lak_{env}_{body}{checksum}, where the *)
(* body is two numbers in base 62 and the checksum is the CRC of the body  *)
(* in base 62.  Neither part has a fixed length and nothing separates      *)
(* them, so the checksum is looked for at every length it may have.        *)
(* No state: the module has no run of its own.                             *)
(***************************************************************************)
EXTENDS Integers, Sequences

CONSTANTS
    Chars,      \* characters
    Encode(_),  \* base62::encode
    Decode(_),  \* base62::decode
    Crc(_),     \* crc32fast::hash
    MaxU32,     \* u32::MAX
    None        \* no key

Env == {"live", "test"}
U32 == 0 .. MaxU32
U128 == Nat     \* its width plays no part here

(* What the libraries promise of the numbers that are written: a u32 has at
   most six digits in base 62. *)
Libraries ==
    /\ MaxU32 \in Nat
    /\ \A n \in U128 : /\ Encode(n) \in Seq(Chars) /\ Encode(n) # <<>>
                       /\ Decode(Encode(n)) = n
                       /\ n \in U32 => Len(Encode(n)) <= 6
    /\ \A body \in Seq(Chars) : Crc(body) \in U32

(* The key made of two derived numbers.  `head` stands for lak_live_ or
   lak_test_, which both have nine characters. *)
Body(n1, n2) == Encode(n1) \o Encode(n2)
GeneratedKey(env, n1, n2) ==
    [head |-> env, rest |-> Body(n1, n2) \o Encode(Crc(Body(n1, n2)))]

(* parse_key_prefix *)
ParsePrefix(key) == IF key.head \in Env THEN key.head ELSE None

(* validate_key_checksum: some split after which the number on the right is
   the checksum of the left *)
ValidChecksum(key) ==
    /\ key.head \in Env
    /\ \E n \in 1 .. 7 :
        LET split == Len(key.rest) - n
            body == SubSeq(key.rest, 1, split)
            value == Decode(SubSeq(key.rest, split + 1, Len(key.rest)))
        IN  /\ Len(key.rest) > n
            /\ value \in U32
            /\ Crc(body) = value

=============================================================================
