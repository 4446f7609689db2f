----------------------------- MODULE WireExchange ---------------------------
(***************************************************************************)
(* One call over one connection: a client frames a request, the broker     *)
(* takes the frame, negotiates, decodes and answers, the client decodes.   *)
(* The handler's work is left out; its answer is any value of the          *)
(* response.  Every API the dispatcher serves is called at every version   *)
(* around the ones it defines, with values of every shape.                 *)
(***************************************************************************)
EXTENDS Codec, Apis, FiniteSets

CONSTANTS
    Shapes,             \* how the fields are filled, see SampleField
    MaxRequestBytes,    \* kafgres.max_request_bytes
    MaxResponseBytes,   \* MAX_RESPONSE_BYTES + RESPONSE_HEADROOM
    Keys,               \* the API keys that are called
    UnknownKey          \* a key no schema defines

ASSUME ShapesAssumption == Shapes \subseteq {"default", "some", "none", "null", "long", "huge"}

API_VERSIONS_KEY == 18
\* The correlation id of the call.
Correlation == 41

VARIABLES
    call,      \* the request: [key, ver, shape]
    phase,     \* idle, sent, serving, replied, answered, garbled, closed
    net,       \* tokens on their way to the broker
    inbuf,     \* Conn.inbuf
    seen,      \* what the broker decoded: [client_id, corr, body]
    out,       \* Conn.outbuf
    got        \* what the client decoded: [corr, body]

vars == <<call, phase, net, inbuf, seen, out, got>>

-----------------------------------------------------------------------------
(* Values. *)

Filled(shape) == [len |-> CASE shape = "long" -> 127 [] shape = "huge" -> MaxI16 + 1 [] OTHER -> 3,
                  items |-> IF shape = "some" THEN 2 ELSE 1,
                  unknown |-> shape = "long"]

RECURSIVE Sample(_, _, _, _, _)

\* A field of a value: options are Some, None where the version allows it, or None.
SampleField(f, shape, ver, i) ==
    LET v == Sample(f.ty, f.name, shape, ver, i)
    IN CASE ~f.opt -> v
         [] f.opt /\ (shape = "null" \/ (shape = "none" /\ Nullable(f, ver))) -> <<>>
         [] OTHER -> <<v>>

Sample(t, name, shape, ver, i) ==
    CASE t.k = "arr" -> [j \in 1 .. Filled(shape).items |-> Sample(t.of, name, shape, ver, i + j)]
      [] t.k = "struct" ->
           [x \in DOMAIN t.zero |->
              IF x = "unknown_tagged_fields"
              THEN IF Filled(shape).unknown
                   THEN <<[tag |-> 40, data |-> Text("", 0)], [tag |-> 200, data |-> Text("u", 130)]>>
                   ELSE <<>>
              ELSE LET j == CHOOSE j \in DOMAIN t.fields : t.fields[j].name = x
                   IN SampleField(t.fields[j], shape, ver, i + j)]
      [] t.k \in {"str", "bytes"} -> Text(name, Filled(shape).len)
      [] t.k = "bool" -> Num(1)
      [] OTHER -> Num(i)

Value(s, shape, ver) == IF shape = "default" THEN s.zero ELSE Sample(s, "", shape, ver, 1)

\* The version clients call: what is defined, one below and one above.
Versions(key) == IF Known(key) THEN (Spec(key)[2] - 1) .. (Spec(key)[3] + 1) \ {-1} ELSE {0}

-----------------------------------------------------------------------------
(* Headers and frames. *)

IsFlexible(key, ver) == Known(key) /\ ver >= Spec(key)[4]
RequestHeaderVersion(key, ver) == IF IsFlexible(key, ver) THEN 2 ELSE 1
ResponseHeaderVersion(key, ver) ==
    IF key # API_VERSIONS_KEY /\ IsFlexible(key, ver) THEN 1 ELSE 0

\* The section of unknown tagged fields both headers end with.
TagSection == Struct(0, <<>>)
Tags(shape) == Value(TagSection, shape, 0)
ClientId(shape) == IF shape = "null" THEN <<>> ELSE <<Text("client_id", 3)>>

\* client_id is legacy at every header version.
RequestHeader(key, ver, shape, hv) ==
    PutNum("i16", key) \o PutNum("i16", ver) \o PutNum("i32", Correlation)
      \o WriteField(Option("client_id", Str), ClientId(shape), 0, FALSE, FALSE)
      \o IF hv >= 2 THEN WriteStruct(TagSection, Tags(shape), 0) ELSE <<>>

ReadRequestHeader(in, hv) ==
    Then(GetNum("i16", in), LAMBDA key :
    Then(GetNum("i16", key.in), LAMBDA ver :
    Then(GetNum("i32", ver.in), LAMBDA corr :
    Then(ReadNullable(Str, corr.in, 0, FALSE, FALSE), LAMBDA id :
    Then(IF hv >= 2 THEN ReadStruct(TagSection, id.in, 0) ELSE Ok(TagSection.zero, id.in), LAMBDA tags :
      Ok([corr |-> corr.val.n, client_id |-> id.val], tags.in))))))

ResponseHeader(corr, hv) ==
    PutNum("i32", corr) \o IF hv >= 1 THEN WriteStruct(TagSection, TagSection.zero, 0) ELSE <<>>

ReadResponseHeader(in, hv) ==
    Then(GetNum("i32", in), LAMBDA corr :
    Then(IF hv >= 1 THEN ReadStruct(TagSection, corr.in, 0) ELSE Ok(TagSection.zero, corr.in), LAMBDA tags :
      Ok(corr.val.n, tags.in)))

WriteFrame(body) == PutNum("i32", BytesOf(body)) \o body

\* take_frame: nothing yet, or the declared bytes.
TakeFrame(buf, max) ==
    IF buf = <<>> THEN Err("Incomplete")
    ELSE LET declared == Head(buf).n
         IN CASE declared < 0 \/ declared > max -> Err("Oversized")
              [] declared \in 0 .. max /\ BytesOf(Tail(buf)) < declared -> Err("Incomplete")
              [] OTHER -> Take(declared, Tail(buf))

Advertised(key, ver) == \E a \in ADVERTISED : a[1] = key /\ ver \in a[2] .. a[3]
Defined(key, ver) == Known(key) /\ ver \in Spec(key)[2] .. Spec(key)[3]

\* Mutant: the last advertised version is left out.
Negotiate_OpenEnd(key, ver) ==
    IF Defined(key, ver) /\ \E a \in ADVERTISED : a[1] = key /\ ver >= a[2] /\ ver < a[3]
    THEN "Supported" ELSE "UnsupportedVersion"

Negotiate(key, ver) ==
    CASE Advertised(key, ver) /\ Defined(key, ver) -> "Supported"
      [] ~(Advertised(key, ver) /\ Defined(key, ver)) /\ key = API_VERSIONS_KEY -> "ApiVersionsFallback"
      [] OTHER -> IF Known(key) THEN "UnsupportedVersion" ELSE "UnknownApi"

-----------------------------------------------------------------------------
(* The call. *)

Init ==
    /\ call = [key |-> 0, ver |-> 0, shape |-> "default"]
    /\ phase = "idle"
    /\ net = <<>> /\ inbuf = <<>> /\ out = <<>>
    /\ seen = [corr |-> 0, client_id |-> <<>>, body |-> TagSection.zero, left |-> 0]
    /\ got = [corr |-> 0, body |-> TagSection.zero, left |-> 0]

Request(c) == IF c.key = UnknownKey THEN TagSection.zero ELSE Value(RequestOf(c.key), c.shape, c.ver)
RequestBody(c) == IF c.key = UnknownKey THEN <<>> ELSE WriteStruct(RequestOf(c.key), Request(c), c.ver)
\* Mutant: the fallback is encoded at the version that was asked for.
ReplyVersion_AsAsked(c) == c.ver

\* The version a reply is encoded at: 0 when ApiVersions falls back.
ReplyVersion(c) == IF Negotiate(c.key, c.ver) = "ApiVersionsFallback" THEN 0 ELSE c.ver
\* The version a client decodes at: it takes an ApiVersions it is too new for as version 0.
AnswerVersion(c) == IF c.key = API_VERSIONS_KEY /\ ~Defined(c.key, c.ver) THEN 0 ELSE c.ver
Response(c) == Value(ResponseOf(c.key), c.shape, AnswerVersion(c))

RequestBytes(c) ==
    RequestHeader(c.key, c.ver, c.shape, RequestHeaderVersion(c.key, c.ver)) \o RequestBody(c)
ResponseBytes(c, corr) ==
    ResponseHeader(corr, ResponseHeaderVersion(c.key, ReplyVersion(c)))
      \o WriteStruct(ResponseOf(c.key), Response(c), ReplyVersion(c))

Send(key, ver, shape) ==
    LET c == [key |-> key, ver |-> ver, shape |-> shape]
        toks == RequestBytes(c)
    IN /\ phase = "idle"
       /\ call' = c
       /\ IF IsRefused(toks)
          THEN phase' = "closed" /\ UNCHANGED net
          ELSE phase' = "sent" /\ net' = WriteFrame(toks)
       /\ UNCHANGED <<inbuf, seen, out, got>>

\* Bytes reach the broker in pieces: the length prefix alone, all but the end, the rest.
Arrive ==
    /\ net # <<>>
    /\ \E n \in (IF inbuf = <<>> THEN {1, Len(net) - 1, Len(net)} ELSE {Len(net)}) :
         /\ inbuf' = inbuf \o SubSeq(net, 1, n)
         /\ net' = SubSeq(net, n + 1, Len(net))
    /\ UNCHANGED <<call, phase, seen, out, got>>

\* serve_one: parse, negotiate, decode the body.
Parsed(frame) ==
    LET key == frame[1].n
        ver == frame[2].n
        hv == CASE Negotiate(key, ver) = "Supported" -> RequestHeaderVersion(key, ver)
                [] Negotiate(key, ver) = "ApiVersionsFallback" /\ ver >= 3 -> 2
                [] OTHER -> 1
    IN Then(ReadRequestHeader(frame, hv), LAMBDA h :
         CASE Negotiate(key, ver) = "Supported" ->
                Then(ReadStruct(RequestOf(key), h.in, ver), LAMBDA b :
                  Ok([corr |-> h.val.corr, client_id |-> h.val.client_id, body |-> b.val,
                      left |-> BytesOf(b.in)], <<>>))
           [] Negotiate(key, ver) = "ApiVersionsFallback" ->
                Ok([corr |-> h.val.corr, client_id |-> h.val.client_id, body |-> TagSection.zero,
                    left |-> 0], <<>>)
           [] OTHER -> Err("UnsupportedVersion"))

Serve ==
    LET f == TakeFrame(inbuf, MaxRequestBytes)
        p == Parsed(f.val)
    IN /\ phase = "sent"
       /\ f.err # "Incomplete"
       /\ IF f.err # "" \/ p.err # ""
          THEN phase' = "closed" /\ UNCHANGED seen
          ELSE phase' = "serving" /\ seen' = p.val
       /\ inbuf' = f.in
       /\ UNCHANGED <<call, net, out, got>>

\* write_response: measured first, then written.
Reply ==
    LET ver == ReplyVersion(call)
        hv == ResponseHeaderVersion(call.key, ver)
        total == BytesOf(ResponseHeader(seen.corr, hv))
                   + SizeStruct(ResponseOf(call.key), Response(call), ver)
        toks == ResponseBytes(call, seen.corr)
    IN /\ phase = "serving"
       /\ IF total > MaxResponseBytes \/ IsRefused(toks)
          THEN phase' = "closed" /\ UNCHANGED out
          ELSE phase' = "replied" /\ out' = WriteFrame(toks)
       /\ UNCHANGED <<call, net, inbuf, seen, got>>

Receive ==
    LET f == TakeFrame(out, MaxResponseBytes)
        ver == AnswerVersion(call)
        r == Then(f, LAMBDA x :
             Then(ReadResponseHeader(x.val, ResponseHeaderVersion(call.key, ver)), LAMBDA h :
             Then(ReadStruct(ResponseOf(call.key), h.in, ver), LAMBDA b :
               Ok([corr |-> h.val, body |-> b.val, left |-> BytesOf(b.in)], <<>>))))
    IN /\ phase = "replied"
       /\ IF r.err # "" THEN phase' = "garbled" /\ UNCHANGED got
          ELSE phase' = "answered" /\ got' = r.val
       /\ out' = <<>>
       /\ UNCHANGED <<call, net, inbuf, seen>>

\* Both ends forget the call.
Done == phase \in {"answered", "garbled", "closed"} /\ UNCHANGED vars

Next ==
    \/ \E key \in Keys \cup {UnknownKey}, shape \in Shapes : \E ver \in Versions(key) : Send(key, ver, shape)
    \/ Arrive
    \/ Serve
    \/ Reply
    \/ Receive
    \/ Done

ExchangeSpec == Init /\ [][Next]_vars

-----------------------------------------------------------------------------
(* Properties. *)

RECURSIVE Carry(_, _, _)
\* What of a value a version carries: a field outside its versions comes back as its default.
Carry(t, v, ver) ==
    CASE t.k = "struct" ->
           [x \in DOMAIN t.zero |->
              IF x = "unknown_tagged_fields" THEN IF ver >= t.flex THEN v[x] ELSE <<>>
              ELSE LET f == CHOOSE f \in Range(t.fields) : f.name = x
                   IN CASE ~Carried(f, ver) -> f.dflt
                        [] Carried(f, ver) /\ f.opt /\ v[x] # <<>> -> <<Carry(f.ty, v[x][1], ver)>>
                        [] Carried(f, ver) /\ f.opt /\ v[x] = <<>> -> <<>>
                        [] OTHER -> Carry(f.ty, v[x], ver)]
      [] t.k = "arr" -> [i \in DOMAIN v |-> Carry(t.of, v[i], ver)]
      [] OTHER -> v

\* What the dispatcher hands to a handler is the request the client meant, field by field as
\* far as the version carries them, and the decoder stops exactly at the end of the frame.
RequestUnderstood ==
    phase = "serving" =>
      /\ seen.corr = Correlation
      /\ seen.client_id = ClientId(call.shape)
      /\ seen.left = 0
      /\ Negotiate(call.key, call.ver) = "Supported" =>
           seen.body = Carry(RequestOf(call.key), Request(call), call.ver)

\* What the client reads is the answer the handler gave, under the same correlation id: header
\* and body agree on what is flexible, and an ApiVersions of the future is answered at version 0.
AnswerUnderstood ==
    /\ phase # "garbled"
    /\ phase = "answered" =>
      /\ got.corr = Correlation
      /\ got.left = 0
      /\ got.body = Carry(ResponseOf(call.key), Response(call), AnswerVersion(call))

\* Whatever the message, its version and the shape of its fields, the other end reads what was
\* meant: decode undoes encode, in both directions.
Understood == RequestUnderstood /\ AnswerUnderstood

\* size() announces the bytes encode() writes, for requests and responses of every version:
\* write_response checks its cap against it and every tagged field is framed with it.
SizeIsExact ==
    phase \in {"sent", "replied"} =>
      LET s == IF phase = "sent" THEN RequestOf(call.key) ELSE ResponseOf(call.key)
          v == IF phase = "sent" THEN Request(call) ELSE Response(call)
          ver == IF phase = "sent" THEN call.ver ELSE AnswerVersion(call)
      IN call.key # UnknownKey => SizeStruct(s, v, ver) = BytesOf(WriteStruct(s, v, ver))

\* A connection is closed only for a frame over the limit, for a null the version cannot carry
\* or for a version ApiVersions does not advertise (Produce below 3 is advertised for old
\* librdkafka and refused): whatever a client picks from ApiVersions is served.
AdvertisedIsServed ==
    phase = "closed" =>
      \/ ~Advertised(call.key, call.ver)
      \/ (call.key = 0 /\ call.ver < 3)
      \/ IsRefused(RequestBytes(call)) \/ BytesOf(RequestBytes(call)) > MaxRequestBytes
      \/ IsRefused(ResponseBytes(call, 0)) \/ BytesOf(ResponseBytes(call, 0)) > MaxResponseBytes

=============================================================================
