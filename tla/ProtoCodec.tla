----------------------------- MODULE ProtoCodec -----------------------------
(***************************************************************************)
(* The encoders and decoders of x/bps/types/*.pb.go: Marshal, Size and     *)
(* Unmarshal of every message, and the skip function of every file.  A     *)
(* behaviour is one call of Unmarshal on the bytes of `input`: one step is *)
(* one iteration of the loop of Unmarshal or of the skip function, and the *)
(* calls in progress are a stack.  A slice dAtA[i:j] is a sequence of its  *)
(* own, an index counts from 0 as in the code, and int and uint64 have     *)
(* WordBits bits.                                                          *)
(***************************************************************************)
EXTENDS ProtoWire

CONSTANTS
    Inputs,       \* the calls to try: records with fields fn and data
    Authorities   \* values of an authority field that are encoded

(***************************************************************************)
(* The fields of each message, by field number.  Params is a struct        *)
(* without fields, so an authority is all that a message can say.          *)
(***************************************************************************)
Fields ==
    [MsgUpdateParams         |-> <<"authority", "params">>,
     MsgUpdateParamsResponse |-> <<>>,
     GenesisState            |-> <<"params">>,
     Params                  |-> <<>>,
     QueryParamsRequest      |-> <<>>,
     QueryParamsResponse     |-> <<"params">>,
     Module                  |-> <<"authority">>]

Messages == DOMAIN Fields
Skips    == {"skipTx", "skipGenesis", "skipParams", "skipQuery", "skipModule"}

\* The length of a slice is an int.
ASSUME CodecAssumption ==
    /\ \A i \in Inputs : /\ i.fn \in Messages /\ i.data \in Seq(Byte)
                        /\ Len(i.data) < 2^(WordBits - 1)
    /\ \A a \in Authorities : a \in Seq(Byte) /\ Len(a) < 2^(WordBits - 1)

VARIABLES
    input,     \* the call: which message, and the bytes
    stack,     \* the calls in progress, the innermost one last
    authority, \* the Authority field of the message that is filled
    outcome    \* how the call ended, or "reading"

vars == <<input, stack, authority, outcome>>

NoBytes == <<>>
HasAuthority(message) == \E k \in DOMAIN Fields[message] : Fields[message][k] = "authority"

Frame(fn, data) == [fn |-> fn, data |-> data, index |-> 0, depth |-> 0]

Init ==
    /\ input \in Inputs
    /\ stack = <<Frame(input.fn, input.data)>>
    /\ authority = NoBytes
    /\ outcome = "reading"

(***************************************************************************)
(* Reading numbers.  The sum of two ints wraps.                            *)
(***************************************************************************)
Int_(w)     == Signed(w, WordBits)
Plus(a, b)  == Signed(a + b, WordBits)
FieldNum(w) == Signed(w \div 8, FieldBits)

\* The loop `for shift := uint(0); ; shift += 7` from an index: it stops at the
\* first byte below 0x80, and fails at the end of the data or when shift reaches
\* the width of a word.
ReadVarint(data, index) ==
    LET ends == {n \in 1..MaxVarintBytes :
                    /\ index + n <= Len(data)
                    /\ data[index + n] < 128
                    /\ \A k \in 1..n - 1 : data[index + k] >= 128}
        n == CHOOSE m \in ends : TRUE
    IN  IF ends = {}
        THEN [ok |-> FALSE, next |-> index, value |-> 0]
        ELSE [ok |-> TRUE, next |-> index + n,
              value |-> VarintValue(SubSeq(data, index + 1, index + n))]

(***************************************************************************)
(* Calls and returns.                                                      *)
(***************************************************************************)
top == stack[Len(stack)]

Running(fn) == outcome = "reading" /\ top.fn = fn

Continue(frame) ==
    /\ stack' = [stack EXCEPT ![Len(stack)] = frame]
    /\ UNCHANGED outcome

Call(frame, callee) ==
    /\ stack' = Append([stack EXCEPT ![Len(stack)] = frame], callee)
    /\ UNCHANGED outcome

\* Mutant: the caller drops the error of the call it made.
FailDropped ==
    /\ stack' = Front(stack)
    /\ UNCHANGED outcome

\* Every caller hands an error on.
Fail ==
    /\ outcome' = "error"
    /\ stack' = <<>>

\* The end of an Unmarshal: the embedded message is read, or all of it is.
Return ==
    IF top.index > Len(top.data)
    THEN Fail
    ELSE /\ stack' = Front(stack)
         /\ outcome' = IF Len(stack) = 1 THEN "ok" ELSE outcome

(***************************************************************************)
(* The body of the loop of Unmarshal for a tag that was read: the field is *)
(* wrong, an authority, an embedded message, or unknown.                   *)
(***************************************************************************)
KnownField(message, n) == n \in DOMAIN Fields[message]

\* Mutant: the sum of index and length is compared with the end, not with 0.
ContentWrapped(f, index) ==
    LET length == ReadVarint(f.data, index)
        n      == Int_(length.value)
        post   == Plus(length.next, n)
    IN  [ok   |-> length.ok /\ n >= 0 /\ post <= Len(f.data),
         from |-> length.next, post |-> post]

\* Where the content of a length-delimited field begins and ends, and whether
\* the code takes it.
Content(f, index) ==
    LET length == ReadVarint(f.data, index)
        n      == Int_(length.value)
        post   == Plus(length.next, n)
    IN  [ok   |-> length.ok /\ n >= 0 /\ post >= 0 /\ post <= Len(f.data),
         from |-> length.next, post |-> post]

TagRefused(wireType, fieldNum) == wireType = 4 \/ fieldNum <= 0

\* Mutant: the embedded message is passed over unread.
EmbeddedParamsUnread(f, c) ==
    /\ Continue([f EXCEPT !.index = c.post])
    /\ UNCHANGED authority

EmbeddedParams(f, c) ==
    /\ Call([f EXCEPT !.index = c.post],
            Frame("Params", SubSeq(f.data, c.from + 1, c.post)))
    /\ UNCHANGED authority

AuthorityField(f, c) ==
    /\ Continue([f EXCEPT !.index = c.post])
    /\ authority' = SubSeq(f.data, c.from + 1, c.post)

\* The index stays at the tag until the skip function says how far to go.
UnknownField(f, skip) ==
    /\ Call(f, Frame(skip, SubSeq(f.data, f.index + 1, Len(f.data))))
    /\ UNCHANGED authority

Unmarshal(message, skip) ==
    LET f        == top
        tag      == ReadVarint(f.data, f.index)
        fieldNum == FieldNum(tag.value)
        wireType == tag.value % 8
        known    == KnownField(message, fieldNum)
        content  == Content(f, tag.next)
        refused  == \/ ~tag.ok \/ TagRefused(wireType, fieldNum)
                    \/ known /\ (wireType # 2 \/ ~content.ok)
    IN  /\ Running(message)
        /\ UNCHANGED input
        /\ \/ f.index >= Len(f.data) /\ Return /\ UNCHANGED authority
           \/ f.index < Len(f.data) /\ refused /\ Fail /\ UNCHANGED authority
           \/ /\ f.index < Len(f.data) /\ ~refused /\ known
              /\ IF Fields[message][fieldNum] = "params"
                 THEN EmbeddedParams(f, content)
                 ELSE AuthorityField(f, content)
           \/ f.index < Len(f.data) /\ ~refused /\ ~known /\ UnknownField(f, skip)

UnmarshalMsgUpdateParams         == Unmarshal("MsgUpdateParams", "skipTx")
UnmarshalMsgUpdateParamsResponse == Unmarshal("MsgUpdateParamsResponse", "skipTx")
UnmarshalGenesisState            == Unmarshal("GenesisState", "skipGenesis")
UnmarshalParams                  == Unmarshal("Params", "skipParams")
UnmarshalQueryParamsRequest      == Unmarshal("QueryParamsRequest", "skipQuery")
UnmarshalQueryParamsResponse     == Unmarshal("QueryParamsResponse", "skipQuery")
UnmarshalModule                  == Unmarshal("Module", "skipModule")

(***************************************************************************)
(* The skip functions go over one unknown field; depth counts the groups   *)
(* that are open.  IndexAfter(f, tag) is iNdEx behind the switch.              *)
(***************************************************************************)
IndexAfter(f, tag) ==
    LET number == ReadVarint(f.data, tag.next)
    IN  CASE tag.value % 8 = 0 -> number.next
          [] tag.value % 8 = 1 -> Plus(tag.next, 8)
          [] tag.value % 8 = 2 -> Plus(number.next, Int_(number.value))
          [] tag.value % 8 = 5 -> Plus(tag.next, 4)
          [] OTHER             -> tag.next

CannotSkip(f, tag) ==
    LET wireType == tag.value % 8
        number   == ReadVarint(f.data, tag.next)
    IN  \/ wireType \in {0, 2} /\ ~number.ok
        \/ wireType = 2 /\ Int_(number.value) < 0
        \/ wireType = 4 /\ f.depth = 0
        \/ wireType \in {6, 7}
        \/ IndexAfter(f, tag) < 0

DepthAfter(f, tag) ==
    f.depth + (CASE tag.value % 8 = 3 -> 1 [] tag.value % 8 = 4 -> -1 [] OTHER -> 0)

\* Mutant: the index is left at the tag of the field that was skipped.
ReturnSkippedInPlace(n) ==
    /\ stack' = Front(stack)
    /\ UNCHANGED outcome

\* Unmarshal goes on after the unknown field, if that is still in its data.
ReturnSkipped(n) ==
    LET caller == stack[Len(stack) - 1]
        after  == Plus(caller.index, n)
    IN  IF n < 0 \/ after < 0 \/ after > Len(caller.data)
        THEN Fail
        ELSE /\ stack' = [Front(stack) EXCEPT ![Len(stack) - 1] =
                             [caller EXCEPT !.index = after]]
             /\ UNCHANGED outcome

Skip(file) ==
    LET f   == top
        tag == ReadVarint(f.data, f.index)
        bad == f.index >= Len(f.data) \/ ~tag.ok \/ CannotSkip(f, tag)
    IN  /\ Running(file)
        /\ UNCHANGED <<input, authority>>
        /\ \/ bad /\ Fail
           \/ ~bad /\ DepthAfter(f, tag) = 0 /\ ReturnSkipped(IndexAfter(f, tag))
           \/ ~bad /\ DepthAfter(f, tag) # 0
                   /\ Continue([f EXCEPT !.index = IndexAfter(f, tag),
                                         !.depth = DepthAfter(f, tag)])

skipTx      == Skip("skipTx")
skipGenesis == Skip("skipGenesis")
skipParams  == Skip("skipParams")
skipQuery   == Skip("skipQuery")
skipModule  == Skip("skipModule")

\* The call has returned.
Returned == outcome # "reading" /\ UNCHANGED vars

Next ==
    \/ UnmarshalMsgUpdateParams \/ UnmarshalMsgUpdateParamsResponse
    \/ UnmarshalGenesisState    \/ UnmarshalParams
    \/ UnmarshalQueryParamsRequest \/ UnmarshalQueryParamsResponse
    \/ UnmarshalModule
    \/ skipTx \/ skipGenesis \/ skipParams \/ skipQuery \/ skipModule
    \/ Returned

Spec == Init /\ [][Next]_vars

(***************************************************************************)
(* Size and Marshal.  The encoders fill a buffer of Size() bytes from its  *)
(* end: `out` is that buffer and the index of the byte written last.       *)
(***************************************************************************)
Bits(x) == CHOOSE n \in 0..WordBits : x < 2^n /\ (n > 0 => x >= 2^(n - 1))

\* Mutant: zero is taken to need no byte.
sovOfZero(x) == (Bits(x) + 6) \div 7

sov(x) == (Bits(IF x = 0 THEN 1 ELSE x) + 6) \div 7

SizeField(n) == 1 + n + sov(n)

SizeParams                  == 0
SizeMsgUpdateParams(a)      == (IF Len(a) > 0 THEN SizeField(Len(a)) ELSE 0)
                                 + SizeField(SizeParams)
SizeMsgUpdateParamsResponse == 0
SizeGenesisState            == SizeField(SizeParams)
SizeQueryParamsRequest      == 0
SizeQueryParamsResponse     == SizeField(SizeParams)
SizeModule(a)               == IF Len(a) > 0 THEN SizeField(Len(a)) ELSE 0

Size(message, a) ==
    CASE message = "MsgUpdateParams"         -> SizeMsgUpdateParams(a)
      [] message = "MsgUpdateParamsResponse" -> SizeMsgUpdateParamsResponse
      [] message = "GenesisState"            -> SizeGenesisState
      [] message = "Params"                  -> SizeParams
      [] message = "QueryParamsRequest"      -> SizeQueryParamsRequest
      [] message = "QueryParamsResponse"     -> SizeQueryParamsResponse
      [] message = "Module"                  -> SizeModule(a)

Write(buf, at, bytes) ==
    [k \in DOMAIN buf |-> IF k - at \in DOMAIN bytes THEN bytes[k - at] ELSE buf[k]]

\* The groups of seven bits of v, all but the last with the high bit set.
Groups(v) ==
    LET n == CHOOSE k \in 1..MaxVarintBytes :
                 v < 2^(7 * k) /\ (k > 1 => v >= 2^(7 * (k - 1)))
    IN  [k \in 1..n |-> ((v \div 2^(7 * (k - 1))) % 128) + (IF k < n THEN 128 ELSE 0)]

encodeVarint(out, v) ==
    LET base == out.i - sov(v)
    IN  [buf |-> Write(out.buf, base, Groups(v)), i |-> base]

Prepend(out, bytes) ==
    [buf |-> Write(out.buf, out.i - Len(bytes), bytes), i |-> out.i - Len(bytes)]

\* A length-delimited field: its content, the length before it, the tag first.
PutField(out, tag, content) ==
    Prepend(encodeVarint(Prepend(out, content), Len(content)), <<tag>>)

PutAuthority(out, a) == IF Len(a) > 0 THEN PutField(out, 10, a) ELSE out

\* Params.MarshalToSizedBuffer writes nothing.
MarshalParams(out)                  == out
MarshalMsgUpdateParams(out, a)      == PutAuthority(PutField(out, 18, <<>>), a)
MarshalMsgUpdateParamsResponse(out) == out
MarshalGenesisState(out)            == PutField(out, 10, <<>>)
MarshalQueryParamsRequest(out)      == out
MarshalQueryParamsResponse(out)     == PutField(out, 10, <<>>)
MarshalModule(out, a)               == PutAuthority(out, a)

MarshalToSizedBuffer(message, out, a) ==
    CASE message = "MsgUpdateParams"         -> MarshalMsgUpdateParams(out, a)
      [] message = "MsgUpdateParamsResponse" -> MarshalMsgUpdateParamsResponse(out)
      [] message = "GenesisState"            -> MarshalGenesisState(out)
      [] message = "Params"                  -> MarshalParams(out)
      [] message = "QueryParamsRequest"      -> MarshalQueryParamsRequest(out)
      [] message = "QueryParamsResponse"     -> MarshalQueryParamsResponse(out)
      [] message = "Module"                  -> MarshalModule(out, a)

\* Marshal returns as many bytes of the buffer, from its start, as were written.
Marshal(message, a) ==
    LET size == Size(message, a)
        out  == MarshalToSizedBuffer(message, [buf |-> [k \in 1..size |-> 0], i |-> size], a)
    IN  SubSeq(out.buf, 1, size - out.i)

-----------------------------------------------------------------------------
Known(message) == DOMAIN Fields[message]

\* What the bytes of a call say, by the reference: every embedded Params is a
\* message of its own, and the last authority counts.
WellFormed(message, data) ==
    LET tokens == Tokens(data)
    IN  /\ IsMessage(data, Known(message))
        /\ \A n \in Known(message) : Fields[message][n] = "params" =>
              \A k \in OfField(tokens, n) : IsMessage(tokens[k].content, {})

SaidAuthority(message, data) ==
    LET tokens == Tokens(data)
        said   == OfField(tokens, 1)
    IN  IF HasAuthority(message) /\ said # {} THEN tokens[Max(said)].content ELSE NoBytes

\* Calls, bytes and results have their types; an embedded call is in a message.
TypeOK ==
    /\ input.fn \in Messages /\ input.data \in Seq(Byte)
    /\ authority \in Seq(Byte)
    /\ outcome \in {"reading", "ok", "error"}
    /\ outcome = "reading" => stack # <<>> /\ stack[1].fn = input.fn
    /\ \A k \in DOMAIN stack : /\ stack[k].fn \in Messages \cup Skips
                               /\ stack[k].data \in Seq(Byte)
                               /\ stack[k].index \in Int
                               /\ stack[k].depth \in Nat

\* Unmarshal never holds an index outside its data, whatever lengths the bytes
\* announce: neither a negative length nor a sum that wraps gets past the
\* checks of tx.pb.go:399-408 and :450-455, so no slice or read can panic.
IndexInData ==
    \A k \in DOMAIN stack :
        /\ stack[k].index >= 0
        /\ stack[k].fn \in Messages => stack[k].index <= Len(stack[k].data)

\* Unmarshal accepts exactly the messages of the wire format and takes from
\* them what they say: unknown fields and groups leave no trace, the last
\* authority wins, and nothing cut short or malformed is taken for a message.
ReadsWireFormat ==
    outcome # "reading" =>
        /\ (outcome = "ok") <=> WellFormed(input.fn, input.data)
        /\ outcome = "ok" => authority = SaidAuthority(input.fn, input.data)

\* What Marshal writes, Unmarshal reads back, and Size tells its exact length:
\* a node reads the message that the other one meant.
RoundTrip ==
    \A a \in Authorities :
        outcome # "reading" /\ input.data = Marshal(input.fn, a) =>
            /\ outcome = "ok"
            /\ authority = (IF HasAuthority(input.fn) THEN a ELSE NoBytes)
            /\ Len(input.data) = Size(input.fn, a)

\* Every step of a call that goes on gets nearer to the end of the bytes: a loop
\* moves its index, the call for an embedded message and the return from a skip
\* function move the caller's.  With bytes that are finite and no state without
\* a next step, every call ends, whatever the bytes are.
MovesOn ==
    [][outcome' = "reading" =>
         LET n == Len(stack)
             m == Len(stack')
             moved(k) == stack'[k].index > stack[k].index
         IN  \/ m = n /\ moved(n)
             \/ m = n + 1 /\ (stack'[m].fn \in Skips \/ moved(n))
             \/ m = n - 1 /\ (stack[n].fn \in Skips => moved(m))]_vars
=============================================================================
