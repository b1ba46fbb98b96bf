------------------------------- MODULE XdrCodec -------------------------------
(***************************************************************************)
(* XDR (src/protocol/xdr): how values become bytes and bytes values.  A    *)
(* type is described by a record; Serialize and Deserialize interpret it   *)
(* as the implementations of the two traits do, and the structures and     *)
(* unions of ONC RPC, the mount protocol and portmap are descriptions.     *)
(*                                                                         *)
(* A byte is a number below ByteValues, so that a 32-bit word, four bytes  *)
(* with the most significant one first, is a number TLC can hold; a 64-bit *)
(* word is a pair of 32-bit words.  An Option is the sequence of its value *)
(* or the empty sequence.  Floating point has no user in the server.       *)
(***************************************************************************)
EXTENDS Integers, Sequences, SequencesExt, TLC

CONSTANTS
    ByteValues,             \* the number of values a byte can have
    MAX_RPC_RECORD_LENGTH   \* the longest record, in bytes (rpc/mod.rs)

ASSUME XdrAssumption ==
    /\ ByteValues \in Nat /\ ByteValues % 2 = 0
    /\ MAX_RPC_RECORD_LENGTH \in Nat

Byte == 0 .. ByteValues - 1
MAX_XDR_OPAQUE_LENGTH == MAX_RPC_RECORD_LENGTH
ALIGNMENT == 4
MAX_XDR_ARRAY_LENGTH == MAX_XDR_OPAQUE_LENGTH \div ALIGNMENT

-----------------------------------------------------------------------------
(* Types.                                                                  *)
U32 == [kind |-> "u32"]
U64 == [kind |-> "u64"]
Bool == [kind |-> "bool"]
Void == [kind |-> "void"]
Opaque == [kind |-> "opaque"]
Ascii == [kind |-> "string"]
Enum(values) == [kind |-> "enum", values |-> values]
FixedOpaque(n) == [kind |-> "fixed", n |-> n]
ArrayOf(t) == [kind |-> "array", of |-> t]
OptionOf(t) == [kind |-> "option", of |-> t]

(* SerializeStruct! and DeserializeStruct! each list the fields; every     *)
(* structure lists them in the same order.  A field is a name and a type.  *)
Struct(fields) == [kind |-> "struct", ser |-> fields, de |-> fields]

\* A union: the type of each discriminant it has.
UnionOf(arms) == [kind |-> "union", arms |-> arms]

\* A linked list: TRUE before each element, FALSE after the last (pmaplist, and
\* the entries of a READDIR reply).
ListOf(t) == [kind |-> "list", of |-> t]

-----------------------------------------------------------------------------
(* Words and padding.                                                      *)
Word(n) == << (n \div (ByteValues * ByteValues * ByteValues)) % ByteValues,
              (n \div (ByteValues * ByteValues)) % ByteValues,
              (n \div ByteValues) % ByteValues,
              n % ByteValues >>
FromWord(b) == ((b[1] * ByteValues + b[2]) * ByteValues + b[3]) * ByteValues + b[4]

padding_len(n) == (ALIGNMENT - (n % ALIGNMENT)) % ALIGNMENT
Padding(n) == <<>> \o [i \in 1 .. padding_len(n) |-> 0]

-----------------------------------------------------------------------------
(* Serialize.  It fails on no value that has the type.                     *)
RECURSIVE Serialize(_, _), SerializeFields(_, _), SerializeEach(_, _), SerializeList(_, _)

SerializeFields(fields, v) ==
    IF fields = <<>> THEN <<>>
    ELSE Serialize(fields[1][2], v[fields[1][1]]) \o SerializeFields(Tail(fields), v)

SerializeEach(t, v) ==
    IF v = <<>> THEN <<>> ELSE Serialize(t, v[1]) \o SerializeEach(t, Tail(v))

SerializeList(t, v) ==
    IF v = <<>> THEN Word(0)
    ELSE Word(1) \o Serialize(t, v[1]) \o SerializeList(t, Tail(v))

Serialize(t, v) ==
    CASE t.kind = "void" -> <<>>
      [] t.kind \in {"u32", "enum"} -> Word(v)
      [] t.kind = "u64" -> Word(v[1]) \o Word(v[2])
      [] t.kind = "bool" -> Word(IF v THEN 1 ELSE 0)
      [] t.kind \in {"opaque", "string"} -> Word(Len(v)) \o v \o Padding(Len(v))
      [] t.kind = "fixed" -> v \o Padding(t.n)
      [] t.kind = "array" -> Word(Len(v)) \o SerializeEach(t.of, v)
      [] t.kind = "option" -> Word(Len(v)) \o SerializeEach(t.of, v)
      [] t.kind = "list" -> SerializeList(t.of, v)
      [] t.kind = "struct" -> SerializeFields(t.ser, v)
      [] t.kind = "union" -> Word(v.arm) \o Serialize(t.arms[v.arm], v.body)

-----------------------------------------------------------------------------
(* Deserialize: the value at the head of the input and the rest of it, or  *)
(* an error.  read_exact fails when the input is too short.                *)
Error == [ok |-> FALSE]
Value(v, rest) == [ok |-> TRUE, v |-> v, rest |-> rest]
Rest(b, n) == SubSeq(b, n + 1, Len(b))

\* What the operator ? does with a result d: Op of it, or the error.  (TLC computes
\* d once.)
Try(d, Op(_)) == CHOOSE r \in {IF x.ok THEN Op(x) ELSE Error : x \in {d}} : TRUE

ReadWord(b) == IF Len(b) < 4 THEN Error ELSE Value(FromWord(b), Rest(b, 4))

\* n bytes and their padding; the padding may have any value.
ReadBytes(b, n) ==
    IF Len(b) < n + padding_len(n) THEN Error
    ELSE Value(SubSeq(b, 1, n), Rest(b, n + padding_len(n)))

ReadOpaque(b) ==
    Try(ReadWord(b), LAMBDA length :
        IF length.v > MAX_XDR_OPAQUE_LENGTH THEN Error ELSE ReadBytes(length.rest, length.v))

ReadAscii(b) ==
    Try(ReadOpaque(b), LAMBDA text :
        IF \E i \in DOMAIN text.v : text.v[i] >= ByteValues \div 2 THEN Error ELSE text)

ReadEnum(b, values) ==
    Try(ReadWord(b), LAMBDA w : IF w.v \in values THEN w ELSE Error)

\* Mutant: every word but 0 is true.
ReadBool_any(b) == Try(ReadWord(b), LAMBDA w : Value(w.v # 0, w.rest))
\* Deserialize for bool: only 0 and 1 are truth values.
ReadBool(b) ==
    Try(ReadWord(b), LAMBDA w : IF w.v \in {0, 1} THEN Value(w.v = 1, w.rest) ELSE Error)

ReadU64(b) ==
    Try(ReadWord(b), LAMBDA high :
        Try(ReadWord(high.rest), LAMBDA low : Value(<<high.v, low.v>>, low.rest)))

RECURSIVE Deserialize(_, _), DeserializeFields(_, _), DeserializeEach(_, _, _), DeserializeList(_, _)

DeserializeFields(fields, b) ==
    IF fields = <<>> THEN Value(<<>>, b)
    ELSE Try(Deserialize(fields[1][2], b), LAMBDA first :
            Try(DeserializeFields(Tail(fields), first.rest), LAMBDA others :
                Value((fields[1][1] :> first.v) @@ others.v, others.rest)))

DeserializeEach(t, n, b) ==
    IF n = 0 THEN Value(<<>>, b)
    ELSE Try(Deserialize(t, b), LAMBDA first :
            Try(DeserializeEach(t, n - 1, first.rest), LAMBDA others :
                Value(<<first.v>> \o others.v, others.rest)))

DeserializeList(t, b) ==
    Try(ReadBool(b), LAMBDA more :
        IF ~more.v THEN Value(<<>>, more.rest)
        ELSE Try(Deserialize(t, more.rest), LAMBDA first :
                Try(DeserializeList(t, first.rest), LAMBDA others :
                    Value(<<first.v>> \o others.v, others.rest))))

DeserializeArray(t, b) ==
    Try(ReadWord(b), LAMBDA length :
        IF length.v > MAX_XDR_ARRAY_LENGTH THEN Error
        ELSE DeserializeEach(t, length.v, length.rest))

DeserializeOption(t, b) ==
    Try(ReadBool(b), LAMBDA some : DeserializeEach(t, IF some.v THEN 1 ELSE 0, some.rest))

DeserializeUnion(arms, b) ==
    Try(ReadEnum(b, DOMAIN arms), LAMBDA disc :
        Try(Deserialize(arms[disc.v], disc.rest), LAMBDA body :
            Value([arm |-> disc.v, body |-> body.v], body.rest)))

Deserialize(t, b) ==
    CASE t.kind = "void" -> Value(<<>>, b)
      [] t.kind = "u32" -> ReadWord(b)
      [] t.kind = "u64" -> ReadU64(b)
      [] t.kind = "enum" -> ReadEnum(b, t.values)
      [] t.kind = "bool" -> ReadBool(b)
      [] t.kind = "opaque" -> ReadOpaque(b)
      [] t.kind = "string" -> ReadAscii(b)
      [] t.kind = "fixed" -> ReadBytes(b, t.n)
      [] t.kind = "array" -> DeserializeArray(t.of, b)
      [] t.kind = "option" -> DeserializeOption(t.of, b)
      [] t.kind = "list" -> DeserializeList(t.of, b)
      [] t.kind = "struct" -> DeserializeFields(t.de, b)
      [] t.kind = "union" -> DeserializeUnion(t.arms, b)

-----------------------------------------------------------------------------
(* Samples of a type, for instances: its default first, then values that   *)
(* differ from the default in one place.                                   *)
RECURSIVE Samples(_), Defaults(_), Vary(_, _), SamplesOfArms(_, _), Ascending(_)

\* The numbers of a set in ascending order.
Ascending(S) ==
    IF S = {} THEN <<>>
    ELSE LET least == CHOOSE n \in S : \A m \in S : n <= m
         IN  <<least>> \o Ascending(S \ {least})

\* (The concatenation makes TLC compute the elements at once.)
Map(Op(_), s) == <<>> \o [i \in DOMAIN s |-> Op(s[i])]

Default(t) == Samples(t)[1]
Defaults(fields) ==
    IF fields = <<>> THEN <<>>
    ELSE (fields[1][1] :> Default(fields[1][2])) @@ Defaults(Tail(fields))

\* The values of a structure with one of the fields varied.
Vary(fields, default) ==
    IF fields = <<>> THEN <<>>
    ELSE Map(LAMBDA v : [default EXCEPT ![fields[1][1]] = v], Tail(Samples(fields[1][2])))
         \o Vary(Tail(fields), default)

SamplesOfArms(arms, t) ==
    IF arms = <<>> THEN <<>>
    ELSE Map(LAMBDA v : [arm |-> arms[1], body |-> v], Samples(t[arms[1]]))
         \o SamplesOfArms(Tail(arms), t)

Samples(t) ==
    CASE t.kind = "void" -> << <<>> >>
      [] t.kind = "u32" -> <<0, ByteValues + 2>>
      [] t.kind = "u64" -> << <<0, 0>>, <<1, 2>> >>
      [] t.kind = "bool" -> <<FALSE, TRUE>>
      [] t.kind = "enum" -> Ascending(t.values)
      [] t.kind = "opaque" -> << <<>>, <<5>>, <<1, 2, 3, 4>>, <<9, 8, 7, 6, 5, 4>> >>
      [] t.kind = "string" -> << <<>>, <<1, 2, 3>> >>
      [] t.kind = "fixed" -> << <<>> \o [i \in 1 .. t.n |-> 0], <<>> \o [i \in 1 .. t.n |-> i] >>
      [] t.kind = "array" -> << <<>>, <<Default(t.of)>>, Samples(t.of) >>
      [] t.kind = "option" -> << <<>> >> \o Map(LAMBDA v : <<v>>, Samples(t.of))
      [] t.kind = "list" -> << <<>>, <<Default(t.of)>>, SubSeq(Samples(t.of), 1, 2) >>
      [] t.kind = "struct" -> <<Defaults(t.ser)>> \o Vary(t.ser, Defaults(t.ser))
      [] t.kind = "union" -> SamplesOfArms(Ascending(DOMAIN t.arms), t.arms)
==============================================================================
