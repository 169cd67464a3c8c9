-------------------------- MODULE CompositeMetadata --------------------------
(***************************************************************************)
(* The metadata of routed requests (rsocket-composite-metadata): a list of *)
(* entries, each a MIME type and a content, the routes in the routing      *)
(* entry, the credentials in the authentication entry, and how a           *)
(* RSocketResponder (rsocket-messaging) finds its handler by them.         *)
(*                                                                         *)
(* An entry's type is a well-known id of seven bits or an explicit name;   *)
(* with Base values of a byte the highest bit is worth Base \div 2.  The   *)
(* decoders are generators: they throw only when they come to the          *)
(* malformed part, and then what came before it has already been used.     *)
(***************************************************************************)
EXTENDS FrameCodec

KnownMask == Base \div 2               \* STREAM_METADATA_KNOWN_MASK, 0x80
Routing == KnownMask - 2               \* MESSAGE_RSOCKET_ROUTING, 0x7e
Authentication == KnownMask - 4        \* MESSAGE_RSOCKET_AUTHENTICATION, 0x7c

WellKnown(id, content) ==
    [known |-> TRUE, id |-> id, mime |-> <<>>, content |-> content]
Explicit(mime, content) ==
    [known |-> FALSE, id |-> 0, mime |-> mime, content |-> content]

-----------------------------------------------------------------------------
(* CompositeMetadata.ts *)

EncodeCustomHeader(mime, length) ==
    Digits(Len(mime) - 1, 1) \o mime \o Digits(length, 3)
EncodeWellKnownHeader(id, length) ==
    Digits(id + KnownMask, 1) \o Digits(length, 3)

EncodeEntry(e) ==
    (IF e.known THEN EncodeWellKnownHeader(e.id, Len(e.content))
                ELSE EncodeCustomHeader(e.mime, Len(e.content)))
    \o e.content

EncodeCompositeMetadata(entries) ==
    FlattenSeq([i \in DOMAIN entries |-> EncodeEntry(entries[i])])

\* Where the type of the entry at an offset ends.
MimeEnd(buffer, at) ==
    IF buffer[at + 1] >= KnownMask THEN at + 1 ELSE at + 2 + buffer[at + 1]

ContentLength(buffer, at) ==
    LET end == MimeEnd(buffer, at) IN Unsigned(Slice(buffer, end, end + 3))

IsEntry(buffer, at) ==
    LET end == MimeEnd(buffer, at)
    IN  /\ end <= Len(buffer)
        /\ end + 3 <= Len(buffer)
        /\ end + 3 + ContentLength(buffer, at) <= Len(buffer)

EntryAt(buffer, at) ==
    LET end == MimeEnd(buffer, at)
        content == Slice(buffer, end + 3, end + 3 + ContentLength(buffer, at))
    IN  IF buffer[at + 1] >= KnownMask
        THEN WellKnown(buffer[at + 1] % KnownMask, content)
        ELSE Explicit(Slice(buffer, at + 1, end), content)

\* computeNextEntryIndex
NextEntry(buffer, at) == MimeEnd(buffer, at) + 3 + ContentLength(buffer, at)

\* The entries up to the end or to what is malformed.
DecodeCompositeMetadata(buffer) ==
    LET from[at \in 0 .. Len(buffer)] ==
            IF at = Len(buffer) THEN [items |-> <<>>, malformed |-> FALSE]
            ELSE IF ~IsEntry(buffer, at)
                 THEN [items |-> <<>>, malformed |-> TRUE]
            ELSE [from[NextEntry(buffer, at)] EXCEPT
                    !.items = << EntryAt(buffer, at) >> \o @]
    IN  from[0]

-----------------------------------------------------------------------------
(* RoutingMetadata.ts *)

EncodeRoutes(routes) ==
    FlattenSeq([i \in DOMAIN routes |->
                   Digits(Len(routes[i]), 1) \o routes[i]])

DecodeRoutes(buffer) ==
    LET End(at) == at + 1 + buffer[at + 1]
        from[at \in 0 .. Len(buffer)] ==
            IF at = Len(buffer) THEN [items |-> <<>>, malformed |-> FALSE]
            ELSE IF End(at) > Len(buffer)
                 THEN [items |-> <<>>, malformed |-> TRUE]
            ELSE [from[End(at)] EXCEPT
                    !.items = << Slice(buffer, at + 1, End(at)) >> \o @]
    IN  from[0]

-----------------------------------------------------------------------------
(* AuthMetadata.ts: a type, well known or named, and its payload *)

Simple == 0
Bearer == 1

EncodeAuth(auth) ==
    (IF auth.known THEN Digits(auth.id + KnownMask, 1)
                   ELSE Digits(Len(auth.mime) - 1, 1) \o auth.mime)
    \o auth.content

EncodeSimpleAuth(username, password) ==
    Digits(Simple + KnownMask, 1)
    \o Digits(Len(username), 2) \o username \o password
EncodeBearerAuth(token) == Digits(Bearer + KnownMask, 1) \o token

IsAuth(buffer) ==
    /\ buffer # <<>>
    /\ buffer[1] < KnownMask => Len(buffer) >= buffer[1] + 2

DecodeAuth(buffer) ==
    IF buffer[1] >= KnownMask
    THEN WellKnown(buffer[1] % KnownMask, Slice(buffer, 1, Len(buffer)))
    ELSE Explicit(Slice(buffer, 1, 2 + buffer[1]),
                  Slice(buffer, 2 + buffer[1], Len(buffer)))

IsSimpleAuth(payload) ==
    /\ Len(payload) >= 2
    /\ Len(payload) >= 2 + Unsigned(Slice(payload, 0, 2))

DecodeSimpleAuth(payload) ==
    LET length == Unsigned(Slice(payload, 0, 2))
    IN  [username |-> Slice(payload, 2, 2 + length),
         password |-> Slice(payload, 2 + length, Len(payload))]

-----------------------------------------------------------------------------
(***************************************************************************)
(* rsocket-messaging: DefaultRequestSpec keeps the metadata of a request   *)
(* in a Map, the route first; a DefaultRSocketResponder has handlers by    *)
(* path and request type.                                                  *)
(***************************************************************************)
SameKey(e, f) == e.known = f.known /\ e.id = f.id /\ e.mime = f.mime

\* RequestSpec.metadata: Map.set
WithMetadata(entries, entry) ==
    IF \E i \in DOMAIN entries : SameKey(entries[i], entry)
    THEN [i \in DOMAIN entries |->
             IF SameKey(entries[i], entry) THEN entry ELSE entries[i]]
    ELSE Append(entries, entry)

RequestMetadata(route, more) ==
    FoldLeft(WithMetadata,
             << WellKnown(Routing, EncodeRoutes(<< route >>)) >>, more)

\* An entry with an explicit type has no mimeType, even if its name is that
\* of the routing type: only the well-known id counts.
RoutesOf(entry) ==
    IF entry.known /\ entry.id = Routing THEN DecodeRoutes(entry.content)
    ELSE [items |-> <<>>, malformed |-> FALSE]

(***************************************************************************)
(* findTypesRegistry: the first path that has handlers, as the two         *)
(* decoders come to it; an error if they come to something malformed       *)
(* before; nothing.                                                        *)
(***************************************************************************)
NoPath == [found |-> FALSE, malformed |-> FALSE, path |-> <<>>]

FirstPath(decoded, paths) ==
    LET known == SelectSeq(decoded.items, LAMBDA path : path \in paths)
    IN  IF known # <<>>
        THEN [found |-> TRUE, malformed |-> FALSE, path |-> Head(known)]
        ELSE [NoPath EXCEPT !.malformed = decoded.malformed]

FindPath(metadata, paths) ==
    LET decoded == DecodeCompositeMetadata(metadata)
        Ended(result) == result.found \/ result.malformed
        result == FoldLeft(LAMBDA soFar, entry :
                               IF Ended(soFar) THEN soFar
                               ELSE FirstPath(RoutesOf(entry), paths),
                           NoPath, decoded.items)
    IN  IF Ended(result) THEN result
        ELSE [NoPath EXCEPT !.malformed = decoded.malformed]

(***************************************************************************)
(* What a request comes to: the handler of a path, the error "Route not    *)
(* found" (nothing for METADATA_PUSH), or the decoder's exception.         *)
(***************************************************************************)
Handled(path) == [kind |-> "handled", path |-> path]
Unhandled(kind) == [kind |-> kind, path |-> <<>>]

\* Mutant: the handler is looked up by the path alone.
Dispatch_AnyType(type, metadata, handlers) ==
    LET found == FindPath(metadata, {h.path : h \in handlers})
    IN  CASE found.malformed -> Unhandled("throws")
          [] found.found -> Handled(found.path)
          [] OTHER -> Unhandled(IF type = "METADATA_PUSH" THEN "nothing"
                                                          ELSE "not found")

Dispatch(type, metadata, handlers) ==
    LET found == FindPath(metadata, {h.path : h \in handlers})
    IN  CASE found.malformed -> Unhandled("throws")
          [] found.found /\ [path |-> found.path, type |-> type] \in handlers ->
                Handled(found.path)
          [] OTHER -> Unhandled(IF type = "METADATA_PUSH" THEN "nothing"
                                                          ELSE "not found")
=============================================================================
