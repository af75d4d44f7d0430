--------------------------- MODULE ResponseHeaders ---------------------------
(***************************************************************************)
(* How the header filter shows the response headers to the engine before   *)
(* phase 3.  nginx keeps some headers in fields of r->headers_out and      *)
(* writes them itself, keeps the others in a list, and lets a field point  *)
(* at an element of the list; the filter asks one resolver for each field, *)
(* then walks the list.  The pairs are collected and cross in one call, or *)
(* one by one where collecting, packing or the engine fails.               *)
(***************************************************************************)
EXTENDS HeaderPack

CONSTANTS
  MaxList,      \* bound on the list
  Other         \* headers of other modules: pairs <<name length, value length>>

VARIABLES
  ho,           \* r->headers_out and the fields of r the resolvers read
  pc,           \* resolve, walk, flush, replay, then phase3 or the error
  collector,    \* ctx->resp_hdr_collect is armed
  collected,    \* its pairs
  engine        \* the headers the engine has

vars == <<ho, pc, collector, collected, engine>>

Server        == <<0, 1>>
Date          == <<0, 2>>
ContentLength == <<0, 3>>
ContentType   == <<1, 0>>
LastModified  == <<1, 1>>
Connection    == <<1, 2>>
KeepAlive     == <<1, 3>>
TransferEncoding == <<2, 0>>
Vary          == <<2, 1>>

\* What nginx or a resolver writes, and another spelling of it.
Own     == <<1>>
Foreign == <<2>>

Pair(n, v) == [name |-> n, value |-> v]

Listed ==
  {Pair(n, v) : n \in {Server, Date, LastModified}, v \in {Own, Foreign}}
  \cup {Pair(ContentLength, Own)}
  \cup {Pair([k \in 1..o[1] |-> 3], [k \in 1..o[2] |-> 3]) : o \in Other}

\* A field that points at an element of its name, or at none (0).
Pointer(list, n) == {0} \cup {k \in DOMAIN list : list[k].h.name = n}

\* conn: HTTP/1 with a keep-alive timeout to announce, any other HTTP/1 response
\* (upgrade, keep-alive or close in one header), HTTP/2 and later.
\* Chunks are for responses of unknown length in HTTP/1, and a module that
\* lists a Content-Length sets content_length_n as well.
Init ==
  /\ \E list \in SeqOf([h : Listed, live : BOOLEAN], MaxList),
        content_length_n, content_type, last_modified_time, gzip_vary \in BOOLEAN,
        conn \in {"timeout", "plain", "http2"},
        chunked \in BOOLEAN :
       /\ chunked => ~content_length_n /\ conn # "http2"
       /\ \E server \in Pointer(list, Server), date \in Pointer(list, Date),
             last_modified \in Pointer(list, LastModified),
             content_length \in Pointer(list, ContentLength) :
            /\ content_length # 0 => content_length_n
            /\ ho = [list |-> list, server |-> server, date |-> date,
                     last_modified |-> last_modified, content_length |-> content_length,
                     content_length_n |-> content_length_n, content_type |-> content_type,
                     last_modified_time |-> last_modified_time, conn |-> conn,
                     chunked |-> chunked, gzip_vary |-> gzip_vary]
  /\ pc = "arm" /\ collector = FALSE /\ collected = <<>> /\ engine = <<>>

-----------------------------------------------------------------------------
If(cond, h) == IF cond THEN <<h>> ELSE <<>>

\* The resolver that never looks at the element.
FieldOwn(name, at) == Pair(name, Own)

\* The field's element if there is one, the text nginx writes otherwise.
Field(name, at) == Pair(name, IF at = 0 THEN Own ELSE ho.list[at].h.value)

resolv_header_server == <<Field(Server, ho.server)>>

resolv_header_date == <<Field(Date, ho.date)>>

resolv_header_content_length == If(ho.content_length_n, Pair(ContentLength, Own))

resolv_header_content_type == If(ho.content_type, Pair(ContentType, Own))

\* The time is formatted, whatever last_modified points at.
resolv_header_last_modified == If(ho.last_modified_time, Pair(LastModified, Own))

\* Nothing on HTTP/2 and HTTP/3.
resolv_header_connection ==
  If(ho.conn = "timeout", Pair(KeepAlive, Own)) \o If(ho.conn # "http2", Pair(Connection, Own))

resolv_header_transfer_encoding == If(ho.chunked, Pair(TransferEncoding, Own))

resolv_header_vary == If(ho.gzip_vary, Pair(Vary, Own))

\* The table, in its order.
headers_out ==
  resolv_header_server \o resolv_header_date
  \o resolv_header_content_length \o resolv_header_content_type
  \o resolv_header_last_modified \o resolv_header_connection
  \o resolv_header_transfer_encoding \o resolv_header_vary

\* The walk that knows a resolved header by its name.
ResolvedName(k) == ho.list[k].h.name \in {Server, Date, LastModified}

\* The walk that takes every element.
ResolvedNone(k) == FALSE

\* The element a resolver has read already, known by its address.
Resolved(k) ==
  \/ k = ho.server
  \/ k = ho.date
  \/ k = ho.last_modified /\ ho.last_modified_time

WalkedPairs ==
  LET kept == SelectSeq([k \in DOMAIN ho.list |-> k],
                        LAMBDA k : ho.list[k].live /\ ~Resolved(k))
  IN  [k \in DOMAIN kept |-> ho.list[kept[k]].h]

\* add_response_header() for each of the pairs: into the collector, or to the
\* engine with lengths that are converted to int.
Add(pairs) ==
  IF collector
    THEN collected' = collected \o pairs /\ UNCHANGED engine
    ELSE /\ engine' = engine \o [k \in DOMAIN pairs |->
                                   Pair(Received(pairs[k].name), Received(pairs[k].value))]
         /\ UNCHANGED collected

\* One of them not allocated, or refused by the engine: the filter gives up.
AddFails(pairs) == pairs # <<>> /\ pc' = "error" /\ UNCHANGED <<collected, engine>>

-----------------------------------------------------------------------------
\* The collector is armed, or its array cannot be allocated.
Arm ==
  /\ pc = "arm" /\ pc' = "resolve"
  /\ collector' \in BOOLEAN /\ UNCHANGED <<ho, collected, engine>>

Resolve ==
  /\ pc = "resolve" /\ UNCHANGED <<ho, collector>>
  /\ \/ Add(headers_out) /\ pc' = "walk"
     \/ AddFails(headers_out)

Walk ==
  /\ pc = "walk" /\ UNCHANGED <<ho, collector>>
  /\ \/ Add(WalkedPairs) /\ pc' = IF collector THEN "flush" ELSE "phase3"
     \/ AddFails(WalkedPairs)

\* The collector is detached; the batch is packed and taken, or it has to be
\* replayed because it does not fit, has no buffer or is rejected.
Flush ==
  /\ pc = "flush" /\ collector' = FALSE /\ UNCHANGED <<ho, collected>>
  /\ \/ LET buf == Pack(collected)
            len == Narrow(Len(buf))
        IN  /\ PackFits(collected) /\ Framed(buf, len, Len(collected))
            /\ engine' = Unpack(buf, len, Len(collected)).pairs
            /\ pc' = "phase3"
     \/ pc' = "replay" /\ UNCHANGED engine

Replay ==
  /\ pc = "replay" /\ UNCHANGED <<ho, collector>>
  /\ \/ Add(collected) /\ pc' = "phase3"
     \/ AddFails(collected)

Next == Arm \/ Resolve \/ Walk \/ Flush \/ Replay

Spec == Init /\ [][Next]_vars

-----------------------------------------------------------------------------
\* nginx's header filter (external): the fields that point nowhere are written
\* by nginx, then the list is, without its deleted elements.
Sent ==
  LET live == SelectSeq(ho.list, LAMBDA e : e.live)
  IN  If(ho.server = 0, Pair(Server, Own))
      \o If(ho.date = 0, Pair(Date, Own))
      \o If(ho.content_length = 0 /\ ho.content_length_n, Pair(ContentLength, Own))
      \o If(ho.content_type, Pair(ContentType, Own))
      \o If(ho.last_modified = 0 /\ ho.last_modified_time, Pair(LastModified, Own))
      \o If(ho.conn = "timeout", Pair(KeepAlive, Own))
      \o If(ho.conn # "http2", Pair(Connection, Own))
      \o If(ho.chunked, Pair(TransferEncoding, Own))
      \o If(ho.gzip_vary, Pair(Vary, Own))
      \o [k \in DOMAIN live |-> live[k].h]

Count(pairs, n) == Cardinality({k \in DOMAIN pairs : pairs[k].name = n})
Names(pairs) == {pairs[k].name : k \in DOMAIN pairs}

\* A field of this name points at an element that nginx has deleted.
DeletedField(n) ==
  \E k \in {ho.server, ho.date, ho.last_modified} \ {0} :
    ho.list[k].h.name = n /\ ~ho.list[k].live

\* Whatever points at what, and whichever path carried them, phase 3 is
\* evaluated only when the engine has every header that the client will get,
\* as many times as the client will get it.
SentIsInspected ==
  pc = "phase3" => \A n \in Names(Sent) : Count(engine, n) >= Count(Sent, n)

\* The bytes too, but for the Last-Modified that a field points at, whose time
\* the resolver formats again, and for a value that no int can measure.
SentBytesInspected ==
  pc = "phase3" => \A h \in Range(Sent) :
    h.name # LastModified /\ Len(h.value) <= INT_MAX => h \in Range(engine)

\* And no header is shown that the client does not get, or shown twice, but for
\* a Content-Length in the list and a field whose element was deleted.
InspectedIsSent ==
  pc = "phase3" => \A n \in Names(engine) :
    \/ Count(engine, n) <= Count(Sent, n)
    \/ n = ContentLength /\ ho.content_length # 0
    \/ DeletedField(n)
=============================================================================
