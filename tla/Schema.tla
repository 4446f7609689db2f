------------------------------- MODULE Schema -------------------------------
(***************************************************************************)
(* What the generated codec does with a message, read off a table of its   *)
(* fields.  codec-gen emits, for every struct, three pieces of code that   *)
(* are never compared with each other: size, encode and decode.  Here they *)
(* are three independent operators (SizeStruct, WriteStruct, ReadStruct)   *)
(* over the same table.                                                    *)
(*                                                                         *)
(* A value is a scalar [id, n] (a number n, or a text of n bytes named     *)
(* id), a sequence, an option (<<>> or <<v>>) or a struct (a function from *)
(* field names).  The wire is a sequence of tokens with a width in bytes;  *)
(* what a text holds is one "raw" token, everything else is numbers.       *)
(***************************************************************************)
EXTENDS Integers, Sequences, Functions

\* i16::MAX, the end of an open version range.
Forever == 32767
MaxI16 == 32767
\* No single length prefix may announce more: 100 MiB.
MAX_LENGTH == 104857600
NoTag == -1
MinI32 == -2147483647 - 1
\* Stands for i64::MAX, which TLC cannot represent.
MaxI64 == 2147483647

Num(n) == [id |-> "", n |-> n]
Text(id, len) == [id |-> IF len = 0 THEN "" ELSE id, n |-> len]

-----------------------------------------------------------------------------
(* Types and field tables. *)

Width == [i8 |-> 1, bool |-> 1, i16 |-> 2, u16 |-> 2, i32 |-> 4, u32 |-> 4,
          i64 |-> 8, f64 |-> 8, uuid |-> 16]

Bool == [k |-> "bool"]
I8 == [k |-> "i8"]
I16 == [k |-> "i16"]
U16 == [k |-> "u16"]
I32 == [k |-> "i32"]
I64 == [k |-> "i64"]
F64 == [k |-> "f64"]
Uuid == [k |-> "uuid"]
Str == [k |-> "str"]
Bytes == [k |-> "bytes"]
Arr(t) == [k |-> "arr", of |-> t]

Zero(t) == CASE t.k = "arr" -> <<>>
             [] t.k = "struct" -> t.zero
             [] OTHER -> Num(0)

Field(name, t) == [name |-> name, ty |-> t, lo |-> 0, hi |-> Forever, opt |-> FALSE,
                   nlo |-> 0, nhi |-> Forever, tag |-> NoTag, dflt |-> Zero(t)]
\* Option<T>, None by default / Some(default) by default.
Option(name, t) == [Field(name, t) EXCEPT !.opt = TRUE, !.dflt = <<>>]
OptionSome(name, t) == [Field(name, t) EXCEPT !.opt = TRUE, !.dflt = <<Zero(t)>>]
Since(v, f) == [f EXCEPT !.lo = v]
Until(v, f) == [f EXCEPT !.hi = v]
NullSince(v, f) == [f EXCEPT !.nlo = v]
NullUntil(v, f) == [f EXCEPT !.nhi = v]
Tagged(tag, f) == [f EXCEPT !.tag = tag]
Default(n, f) == [f EXCEPT !.dflt = Num(n)]

\* A struct whose versions are flexible from `flex' on.
Struct(flex, fields) ==
    [k |-> "struct", flex |-> flex, fields |-> fields,
     zero |-> [x \in {"unknown_tagged_fields"} \cup {fields[i].name : i \in DOMAIN fields} |->
                 IF x = "unknown_tagged_fields" THEN <<>>
                 ELSE (CHOOSE f \in Range(fields) : f.name = x).dflt]]

Carried(f, ver) == ver \in f.lo .. f.hi
Nullable(f, ver) == f.opt /\ ver \in f.nlo .. f.nhi
Plain(s) == SelectSeq(s.fields, LAMBDA f : f.tag = NoTag)
TaggedOf(s) == SelectSeq(s.fields, LAMBDA f : f.tag # NoTag)

\* tagged_write_cond: a tagged field is written at its versions, unless it is the default.
Present(s, v, ver) ==
    SelectSeq(TaggedOf(s), LAMBDA f : Carried(f, ver) /\ v[f.name] # f.dflt)

-----------------------------------------------------------------------------
(* Primitives of the wire. *)

Byte(n) == [k |-> "byte", id |-> "", n |-> n, w |-> 1]
Raw(v) == IF v.n = 0 THEN <<>> ELSE <<[k |-> "raw", id |-> v.id, n |-> v.n, w |-> v.n]>>
\* An encoder that returned Err: the frame is never sent.
Refused == [k |-> "refused", id |-> "", n |-> 0, w |-> 0]

\* Halving keeps the evaluation shallow.
RECURSIVE BytesOf(_)
BytesOf(toks) ==
    CASE toks = <<>> -> 0
      [] Len(toks) = 1 -> toks[1].w
      [] OTHER -> LET h == Len(toks) \div 2
                  IN BytesOf(SubSeq(toks, 1, h)) + BytesOf(SubSeq(toks, h + 1, Len(toks)))

IsRefused(toks) == \E i \in DOMAIN toks : toks[i].k = "refused"

PutNum(k, n) == IF k \in {"i8", "bool"} THEN <<Byte(n)>>
                ELSE <<[k |-> k, id |-> "", n |-> n, w |-> Width[k]]>>

RECURSIVE PutUvarint(_)
PutUvarint(v) == IF v < 128 THEN <<Byte(v)>>
                 ELSE <<Byte((v % 128) + 128)>> \o PutUvarint(v \div 128)

RECURSIVE UvarintSize(_)
UvarintSize(v) == IF v < 128 THEN 1 ELSE 1 + UvarintSize(v \div 128)

\* Compact: a varint of length + 1, 0 for null.  Legacy: i32 if wide, else i16, -1 for null.
PutLen(len, flex, wide) ==
    CASE len > MAX_LENGTH \/ (~flex /\ ~wide /\ len > MaxI16) -> <<Refused>>
      [] len <= MAX_LENGTH /\ flex -> PutUvarint(len + 1)
      [] OTHER -> PutNum(IF wide THEN "i32" ELSE "i16", len)
PutNullLen(flex, wide) == IF flex THEN PutUvarint(0)
                          ELSE PutNum(IF wide THEN "i32" ELSE "i16", -1)
\* Mutant: the size of the length, not of the length + 1 that is written.
LenSize_Plain(len, flex, wide) == IF flex THEN UvarintSize(len) ELSE IF wide THEN 4 ELSE 2

LenSize(len, flex, wide) == IF flex THEN UvarintSize(len + 1) ELSE IF wide THEN 4 ELSE 2
NullLenSize(flex, wide) == IF flex THEN 1 ELSE IF wide THEN 4 ELSE 2

Ok(val, in) == [err |-> "", val |-> val, in |-> in]
Err(e) == [err |-> e, val |-> Num(0), in |-> <<>>]
\* The `?' operator: go on with what was read, or return the error.
Then(r, Rest(_)) == IF r.err # "" THEN r ELSE Rest(r)

Get(k, in) == CASE in = <<>> -> Err("Truncated")
                [] in # <<>> /\ Head(in).k # k -> Err("Misread")
                [] OTHER -> Ok(Num(Head(in).n), Tail(in))
GetByte(in) == Get("byte", in)
GetNum(k, in) == IF k \in {"i8", "bool"} THEN GetByte(in) ELSE Get(k, in)

RECURSIVE GetUvarintFrom(_, _)
GetUvarintFrom(in, i) ==
    IF i = 5 THEN Err("MalformedVarint")
    ELSE Then(GetByte(in), LAMBDA b :
           IF b.val.n < 128 THEN Ok(Num(b.val.n * 128 ^ i), b.in)
           ELSE Then(GetUvarintFrom(b.in, i + 1), LAMBDA r :
                  Ok(Num((b.val.n % 128) * 128 ^ i + r.val.n), r.in)))
GetUvarint(in) == GetUvarintFrom(in, 0)

\* The length, -1 for null.
GetLen(in, flex, wide) ==
    Then(IF flex THEN Then(GetUvarint(in), LAMBDA r : Ok(Num(r.val.n - 1), r.in))
         ELSE GetNum(IF wide THEN "i32" ELSE "i16", in),
         LAMBDA r : IF r.val.n > MAX_LENGTH THEN Err("InvalidLength") ELSE r)

\* How many tokens the first n bytes are, -1 when they end inside one.
RECURSIVE Tokens(_, _)
Tokens(n, in) ==
    CASE n = 0 -> 0
      [] n > 0 /\ Len(in) = 1 -> IF in[1].w = n THEN 1 ELSE -1
      [] OTHER -> LET h == Len(in) \div 2
                      left == SubSeq(in, 1, h)
                      more == Tokens(n - BytesOf(left), SubSeq(in, h + 1, Len(in)))
                  IN IF n <= BytesOf(left) THEN Tokens(n, left)
                     ELSE IF more = -1 THEN -1 ELSE h + more

\* The first n bytes, as tokens.
Take(n, in) ==
    CASE n = 0 -> Ok(<<>>, in)
      [] n > 0 /\ BytesOf(in) < n -> Err("Truncated")
      [] n > 0 /\ BytesOf(in) >= n ->
           LET j == Tokens(n, in)
           IN IF j = -1 THEN Err("Misread")
              ELSE Ok(SubSeq(in, 1, j), SubSeq(in, j + 1, Len(in)))

\* Some text of n bytes.
GetText(n, in) ==
    Then(Take(n, in), LAMBDA r :
      CASE n = 0 -> Ok(Text("", 0), r.in)
        [] n > 0 /\ Len(r.val) = 1 /\ Head(r.val).k = "raw" -> Ok(Text(Head(r.val).id, n), r.in)
        [] OTHER -> Err("Misread"))

=============================================================================
