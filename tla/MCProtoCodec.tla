---------------------------- MODULE MCProtoCodec ----------------------------
(***************************************************************************)
(* Words of 15 bits, so that a varint of three bytes carries one bit in    *)
(* its last byte, as the tenth byte of a 64-bit one does, and field        *)
(* numbers of 8 bits.  The bytes are joined from pieces: fields known and  *)
(* unknown, fields cut short, and numbers at the edges.                    *)
(***************************************************************************)
EXTENDS ProtoCodec

Zeros(n) == [k \in 1..n |-> 0]

\* The fields of the messages, with and without something in Params, and an
\* unknown field of every wire type.
WholePieces ==
    {<<10, 1, 97>>, <<10, 1, 98>>, <<10, 0>>, <<18, 0>>, <<18, 2, 24, 1>>,
     <<10, 2, 24, 1>>, <<24, 1>>, <<26, 1, 7>>, <<27>>, <<28>>,
     <<25>> \o Zeros(8), <<29>> \o Zeros(4)}

\* Wrong wire types, illegal tags, content that is missing or malformed.
BrokenPieces ==
    {<<8, 1>>, <<19>>, <<18, 1, 11>>, <<18, 1, 12>>, <<30>>, <<0>>, <<10>>, <<26>>, <<128>>,
     <<25>> \o Zeros(3)}

(***************************************************************************)
(* Numbers at the edges: a field number that int32 folds onto field 1, one *)
(* it folds below zero, a tag with bits above the word, a varint that is   *)
(* too long, the largest length, one just below it, and a negative one,    *)
(* in a known and in an unknown field.                                     *)
(***************************************************************************)
EdgePieces ==
    {<<138, 16, 1, 97>>, <<128, 8, 1>>, <<138, 128, 2, 1, 99>>, <<128, 128, 128, 1>>,
     <<10, 255, 127>>, <<26, 255, 127>>, <<10, 252, 127>>, <<26, 251, 127>>,
     <<10, 255, 255, 1>>, <<26, 255, 255, 1>>, <<24, 255, 255, 127>>}

Pieces == WholePieces \cup BrokenPieces \cup EdgePieces

MCAuthorities == {Zeros(n) : n \in {0, 1, 127, 128, 200}} \cup {<<10, 1>>, <<128>>}

Buffers ==
    {<<>>} \cup Pieces \cup {p \o q : p, q \in Pieces}
           \cup {p \o q \o r : p, q \in WholePieces, r \in Pieces}

MCInputs ==
    [fn : Messages, data : Buffers]
        \cup {[fn |-> m, data |-> Marshal(m, a)] : m \in Messages, a \in MCAuthorities}
=============================================================================
