----------------------------- MODULE ProtoWire -----------------------------
(***************************************************************************)
(* The protobuf wire format, as a reference for the decoders of            *)
(* x/bps/types/*.pb.go: which byte sequences are messages, and what they   *)
(* say.  Nothing here reads a buffer by an index: a sequence is a varint,  *)
(* a token or a message when it has the form of one.  Lengths and sums are *)
(* integers that never wrap; only the value of a varint is one machine     *)
(* word, as every decoder of the format takes it.                          *)
(***************************************************************************)
EXTENDS Integers, Sequences, FiniteSets, SequencesExt

CONSTANTS
    WordBits,   \* bits of uint64 and int
    FieldBits   \* bits of int32, the type of a field number

ASSUME WireAssumption ==
    /\ WordBits \in Nat
    /\ FieldBits \in Nat
    /\ 3 <= FieldBits
    /\ FieldBits + 3 < WordBits

\* A law of arithmetic: each bit doubles the range of a word.
ASSUME PowersOfTwo == \A n \in 0..WordBits + 6 : 2^(n + 1) = 2 * 2^n

Byte == 0..255

\* The word w read as a signed integer of that many bits.
Signed(w, bits) ==
    LET low == w % 2^bits IN IF low >= 2^(bits - 1) THEN low - 2^bits ELSE low

\* Bytes of a varint that can carry a bit of a word.
MaxVarintBytes == (WordBits + 6) \div 7

\* The seven low bits of each byte, the first byte lowest, as one word.
VarintValue(bytes) ==
    FoldRight(LAMBDA b, high : (b % 128) + 128 * high, bytes, 0) % 2^WordBits

IsVarint(bytes) ==
    /\ Len(bytes) \in 1..MaxVarintBytes
    /\ \A k \in DOMAIN bytes : bytes[k] < 128 <=> k = Len(bytes)

(***************************************************************************)
(* A token is a tag and what its wire type announces: 0 a varint, 1 eight  *)
(* bytes, 2 a length and that many bytes, 3 and 4 the start and the end of *)
(* a group, 5 four bytes.                                                  *)
(***************************************************************************)
UpTo(bytes, n) == SubSeq(bytes, 1, n)
After(bytes, n) == SubSeq(bytes, n + 1, Len(bytes))

HasPayload(wireType, rest) ==
    \/ wireType = 0 /\ IsVarint(rest)
    \/ wireType = 1 /\ Len(rest) = 8
    \/ wireType = 2 /\ \E n \in DOMAIN rest :
            /\ IsVarint(UpTo(rest, n))
            /\ Signed(VarintValue(UpTo(rest, n)), WordBits) = Len(rest) - n
    \/ wireType \in {3, 4} /\ rest = <<>>
    \/ wireType = 5 /\ Len(rest) = 4

TagLengths(bytes) == {n \in DOMAIN bytes : IsVarint(UpTo(bytes, n))}

IsToken(bytes) ==
    \E n \in TagLengths(bytes) :
        HasPayload(VarintValue(UpTo(bytes, n)) % 8, After(bytes, n))

\* The parts of a token; content is what follows the length of wire type 2.
Token(bytes) ==
    LET n    == CHOOSE i \in TagLengths(bytes) : TRUE
        tag  == VarintValue(UpTo(bytes, n))
        rest == After(bytes, n)
        size == IF rest = <<>> THEN 0 ELSE CHOOSE i \in 0..Len(rest) :
                    (i = 0 /\ TagLengths(rest) = {}) \/ i \in TagLengths(rest)
    IN  [field    |-> Signed(tag \div 8, FieldBits),
         wireType |-> tag % 8,
         content  |-> After(rest, size)]

(***************************************************************************)
(* Tokens(data) is the only way to cut data into tokens, one after the     *)
(* other; the last entry is Rubbish when the bytes from there on do not    *)
(* begin with a token.                                                     *)
(***************************************************************************)
Rubbish == [field |-> 0, wireType |-> 7, content |-> <<>>]

Ends(data, i) == {j \in i + 1..Len(data) : IsToken(SubSeq(data, i + 1, j))}

Tokens(data) ==
    LET from[i \in 0..Len(data)] ==
            IF i = Len(data) THEN <<>>
            ELSE IF Ends(data, i) = {} THEN <<Rubbish>>
            ELSE LET j == CHOOSE e \in Ends(data, i) : TRUE
                 IN  <<Token(SubSeq(data, i + 1, j))>> \o from[j]
    IN  from[0]

\* Groups that are open before the k-th token.
Depth(tokens, k) ==
    LET count(w) == Cardinality({i \in 1..k - 1 : tokens[i].wireType = w})
    IN  count(3) - count(4)

TopLevel(tokens) == {k \in DOMAIN tokens : Depth(tokens, k) = 0}

(***************************************************************************)
(* A message whose type knows these field numbers, every one with wire     *)
(* type 2: whole tokens, groups that are closed, no end of a group that    *)
(* was not opened, positive field numbers outside groups.                  *)
(***************************************************************************)
IsMessage(data, known) ==
    LET tokens == Tokens(data)
    IN  /\ \A k \in DOMAIN tokens : tokens[k] # Rubbish
        /\ Depth(tokens, Len(tokens) + 1) = 0
        /\ \A k \in TopLevel(tokens) :
                /\ tokens[k].wireType # 4
                /\ tokens[k].field > 0
                /\ tokens[k].field \in known => tokens[k].wireType = 2

\* The tokens of a field, in the order they were sent.
OfField(tokens, field) == {k \in TopLevel(tokens) : tokens[k].field = field}
=============================================================================
