-------------------------------- MODULE Codec -------------------------------
(***************************************************************************)
(* size, encode and decode of a generated struct, as codec-gen emits them  *)
(* from the struct's field table.                                          *)
(***************************************************************************)
EXTENDS Schema

-----------------------------------------------------------------------------
(* size *)

RECURSIVE SizeOf(_, _, _, _), SizeStruct(_, _, _)

\* value_size: an option that may not be null at this version counts nothing when None.
SizeField(f, v, ver, flex, tagged) ==
    CASE ~f.opt -> SizeOf(f.ty, v, ver, flex)
      [] f.opt /\ v # <<>> ->
           SizeOf(f.ty, v[1], ver, flex)
             + IF Nullable(f, ver) /\ f.ty.k = "struct" THEN 1 ELSE 0
      [] f.opt /\ v = <<>> ->
           CASE ~Nullable(f, ver) -> 0
             [] Nullable(f, ver) /\ f.ty.k = "struct" -> IF tagged THEN 0 ELSE 1
             [] OTHER -> NullLenSize(flex, f.ty.k # "str")

RECURSIVE SizeItems(_, _, _, _)
SizeItems(t, items, ver, flex) ==
    IF items = <<>> THEN 0
    ELSE SizeOf(t, Head(items), ver, flex) + SizeItems(t, Tail(items), ver, flex)

SizeOf(t, v, ver, flex) ==
    CASE t.k = "struct" -> SizeStruct(t, v, ver)
      [] t.k = "arr" -> LenSize(Len(v), flex, TRUE) + SizeItems(t.of, v, ver, flex)
      [] t.k \in {"str", "bytes"} -> LenSize(v.n, flex, t.k = "bytes") + v.n
      [] OTHER -> Width[t.k]

RECURSIVE SizeFields(_, _, _, _)
SizeFields(fields, v, ver, flex) ==
    IF fields = <<>> THEN 0
    ELSE SizeFields(Tail(fields), v, ver, flex)
           + IF Carried(Head(fields), ver)
             THEN SizeField(Head(fields), v[Head(fields).name], ver, flex, FALSE) ELSE 0

Framed(tag, sz) == UvarintSize(tag) + UvarintSize(sz) + sz

RECURSIVE SizeUnknown(_), SizeKnown(_, _, _)
SizeUnknown(us) ==
    IF us = <<>> THEN 0 ELSE Framed(Head(us).tag, Head(us).data.n) + SizeUnknown(Tail(us))
SizeKnown(fields, v, ver) ==
    IF fields = <<>> THEN 0
    ELSE Framed(Head(fields).tag, SizeField(Head(fields), v[Head(fields).name], ver, TRUE, TRUE))
           + SizeKnown(Tail(fields), v, ver)

SizeTags(s, v, ver) ==
    LET known == Present(s, v, ver)
        unknown == v["unknown_tagged_fields"]
    IN UvarintSize(Len(known) + Len(unknown)) + SizeUnknown(unknown) + SizeKnown(known, v, ver)

SizeStruct(s, v, ver) ==
    SizeFields(Plain(s), v, ver, ver >= s.flex) + IF ver >= s.flex THEN SizeTags(s, v, ver) ELSE 0

-----------------------------------------------------------------------------
(* encode *)

RECURSIVE Write(_, _, _, _), WriteStruct(_, _, _)

PutNull(t, flex, tagged) == IF t.k = "struct" THEN IF tagged THEN <<>> ELSE <<Byte(-1)>>
                            ELSE PutNullLen(flex, t.k # "str")
PutSome(t) == IF t.k = "struct" THEN <<Byte(1)>> ELSE <<>>

WriteField(f, v, ver, flex, tagged) ==
    CASE ~f.opt -> Write(f.ty, v, ver, flex)
      [] Nullable(f, ver) /\ v = <<>> -> PutNull(f.ty, flex, tagged)
      [] Nullable(f, ver) /\ v # <<>> -> PutSome(f.ty) \o Write(f.ty, v[1], ver, flex)
      [] OTHER -> IF v = <<>> THEN <<Refused>> ELSE Write(f.ty, v[1], ver, flex)

RECURSIVE WriteItems(_, _, _, _)
WriteItems(t, items, ver, flex) ==
    IF items = <<>> THEN <<>>
    ELSE Write(t, Head(items), ver, flex) \o WriteItems(t, Tail(items), ver, flex)

Write(t, v, ver, flex) ==
    CASE t.k = "struct" -> WriteStruct(t, v, ver)
      [] t.k = "arr" -> PutLen(Len(v), flex, TRUE) \o WriteItems(t.of, v, ver, flex)
      [] t.k \in {"str", "bytes"} -> PutLen(v.n, flex, t.k = "bytes") \o Raw(v)
      [] OTHER -> PutNum(t.k, v.n)

RECURSIVE WriteFields(_, _, _, _)
WriteFields(fields, v, ver, flex) ==
    IF fields = <<>> THEN <<>>
    ELSE (IF Carried(Head(fields), ver)
          THEN WriteField(Head(fields), v[Head(fields).name], ver, flex, FALSE) ELSE <<>>)
           \o WriteFields(Tail(fields), v, ver, flex)

\* Known and unknown tags in ascending order; both lists are held ascending.
RECURSIVE TagsInOrder(_, _, _, _)
TagsInOrder(known, unknown, v, ver) ==
    LET f == Head(known)
        u == Head(unknown)
    IN CASE known = <<>> /\ unknown = <<>> -> <<>>
         [] unknown # <<>> /\ (known = <<>> \/ u.tag < f.tag) ->
              PutUvarint(u.tag) \o PutUvarint(u.data.n) \o Raw(u.data)
                \o TagsInOrder(known, Tail(unknown), v, ver)
         [] OTHER -> PutUvarint(f.tag) \o PutUvarint(SizeField(f, v[f.name], ver, TRUE, TRUE))
                       \o WriteField(f, v[f.name], ver, TRUE, TRUE)
                       \o TagsInOrder(Tail(known), unknown, v, ver)

WriteTags(s, v, ver) ==
    LET known == Present(s, v, ver)
        unknown == v["unknown_tagged_fields"]
    IN PutUvarint(Len(known) + Len(unknown)) \o TagsInOrder(known, unknown, v, ver)

WriteStruct(s, v, ver) ==
    WriteFields(Plain(s), v, ver, ver >= s.flex)
      \o IF ver >= s.flex THEN WriteTags(s, v, ver) ELSE <<>>

-----------------------------------------------------------------------------
(* decode *)

RECURSIVE Read(_, _, _, _), ReadStruct(_, _, _)

RECURSIVE ReadItems(_, _, _, _, _, _)
ReadItems(t, n, items, in, ver, flex) ==
    IF n = 0 THEN Ok(items, in)
    ELSE Then(Read(t, in, ver, flex), LAMBDA x :
           ReadItems(t, n - 1, Append(items, x.val), x.in, ver, flex))

\* read_nullable, as an option.
ReadNullable(t, in, ver, flex, tagged) ==
    IF t.k = "struct"
    THEN Then(IF tagged THEN GetUvarint(in) ELSE GetByte(in), LAMBDA m :
           IF (tagged /\ m.val.n = 0) \/ (~tagged /\ m.val.n < 0) THEN Ok(<<>>, m.in)
           ELSE Then(ReadStruct(t, m.in, ver), LAMBDA x : Ok(<<x.val>>, x.in)))
    ELSE Then(GetLen(in, flex, t.k # "str"), LAMBDA l :
           IF l.val.n < 0 THEN Ok(<<>>, l.in)
           ELSE Then(IF t.k = "arr" THEN ReadItems(t.of, l.val.n, <<>>, l.in, ver, flex)
                     ELSE GetText(l.val.n, l.in),
                     LAMBDA x : Ok(<<x.val>>, x.in)))

Read(t, in, ver, flex) ==
    CASE t.k = "struct" -> ReadStruct(t, in, ver)
      [] t.k \in {"arr", "str", "bytes"} ->
           Then(ReadNullable(t, in, ver, flex, FALSE), LAMBDA x :
             IF x.val = <<>> THEN Err("UnexpectedNull") ELSE Ok(x.val[1], x.in))
      [] t.k = "bool" -> Then(GetByte(in), LAMBDA b : Ok(Num(IF b.val.n = 0 THEN 0 ELSE 1), b.in))
      [] OTHER -> GetNum(t.k, in)

ReadField(f, in, ver, flex, tagged) ==
    CASE ~f.opt -> Read(f.ty, in, ver, flex)
      [] Nullable(f, ver) -> ReadNullable(f.ty, in, ver, flex, tagged)
      [] OTHER -> Then(Read(f.ty, in, ver, flex), LAMBDA x : Ok(<<x.val>>, x.in))

\* The payload of one tag, cut out of exactly its bytes: a known field, or kept as it is.
ReadPayload(s, val, tag, sub, ver) ==
    LET known == {f \in Range(TaggedOf(s)) : f.tag = tag}
        f == CHOOSE f \in known : TRUE
    IN IF known # {}
       THEN Then(ReadField(f, sub, ver, TRUE, TRUE), LAMBDA x :
              Ok([val EXCEPT ![f.name] = x.val], x.in))
       ELSE Then(GetText(BytesOf(sub), sub), LAMBDA d :
              Ok([val EXCEPT !["unknown_tagged_fields"] =
                    Append(@, [tag |-> tag, data |-> d.val])], d.in))

RECURSIVE ReadTags(_, _, _, _, _, _)
ReadTags(s, val, in, n, last, ver) ==
    IF n = 0 THEN Ok(val, in)
    ELSE Then(GetUvarint(in), LAMBDA tag :
           IF tag.val.n <= last THEN Err("TagOutOfOrder")
           ELSE Then(GetUvarint(tag.in), LAMBDA sz :
                Then(Take(sz.val.n, sz.in), LAMBDA sub :
                Then(ReadPayload(s, val, tag.val.n, sub.val, ver), LAMBDA x :
                  ReadTags(s, x.val, sub.in, n - 1, tag.val.n, ver)))))

RECURSIVE ReadFields(_, _, _, _, _)
ReadFields(fields, val, in, ver, flex) ==
    CASE fields = <<>> -> Ok(val, in)
      [] fields # <<>> /\ ~Carried(Head(fields), ver) -> ReadFields(Tail(fields), val, in, ver, flex)
      [] OTHER -> Then(ReadField(Head(fields), in, ver, flex, FALSE), LAMBDA x :
                    ReadFields(Tail(fields), [val EXCEPT ![Head(fields).name] = x.val], x.in, ver, flex))

ReadStruct(s, in, ver) ==
    Then(ReadFields(Plain(s), s.zero, in, ver, ver >= s.flex), LAMBDA a :
      IF ver < s.flex THEN a
      ELSE Then(GetUvarint(a.in), LAMBDA n : ReadTags(s, a.val, n.in, n.val.n, -1, ver)))

=============================================================================
