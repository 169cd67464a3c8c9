----------------------------- MODULE MCTransfer -----------------------------
(* Transfer for TLC: a byte has 8 values, so that an int32 turns negative  *)
(* at 2048 and a token's length at 32; contents are bytes from 8 on.       *)
EXTENDS Transfer

Bytes(n, mark) == [i \in 1 .. n |-> mark * Base + i]
Text(n) == Bytes(n, 1)
Highest == (Base^4 \div 2) - 1     \* MAX_REQUEST_N and the like

-----------------------------------------------------------------------------
(* Payloads: empty, absent and opaque metadata *)

PayloadOf(type, complete, k, d) ==
    [type |-> type, streamId |-> 1, complete |-> complete,
     requestN |-> IF type \in WithRequestN THEN 5 ELSE 0,
     hasMetadata |-> k >= 0, metadata |-> Bytes(k, 2), data |-> Bytes(d, 3)]

Plain(ks, ds) ==
    {PayloadOf(type, FALSE, k, d) :
        type \in {"REQUEST_FNF", "REQUEST_RESPONSE", "REQUEST_STREAM"},
        k \in ks, d \in ds}
    \union
    {PayloadOf(type, complete, k, d) :
        type \in {"REQUEST_CHANNEL", "PAYLOAD"}, complete \in BOOLEAN,
        k \in ks, d \in ds}

-----------------------------------------------------------------------------
(* Frames that are sent as they are *)

Setup(flags, token, mime, k, d) ==
    [type |-> "SETUP", streamId |-> 0, flags |-> flags,
     majorVersion |-> 1, minorVersion |-> 0,
     keepAlive |-> Highest, lifetime |-> 9, resumeToken |-> Bytes(token, 4),
     metadataMimeType |-> Text(mime), dataMimeType |-> Text(2),
     metadata |-> Bytes(k, 2), data |-> Bytes(d, 3)]

On(stream, type, fields) ==
    [type |-> type, streamId |-> stream, flags |-> 0] @@ fields

ConnectionFrames ==
    { Setup(0, 0, 1, 0, 0),
      Setup(COMPLETE + METADATA, 0, Base - 1, 3, 0),       \* COMPLETE: LEASE
      Setup(RESUME_ENABLE, 1, 2, 0, 3),
      Setup(RESUME_ENABLE + METADATA, (Base^2 \div 2) - 1, 2, 2, 3),
      On(0, "ERROR", [code |-> 257, message |-> <<>>]),
      On(0, "KEEPALIVE", [lastReceivedPosition |-> 0, data |-> <<>>]),
      [On(0, "KEEPALIVE", [lastReceivedPosition |-> Base^5 + 7,
                           data |-> Bytes(2, 3)]) EXCEPT !.flags = FOLLOWS],
      On(0, "LEASE", [ttl |-> Highest, requestCount |-> 3, metadata |-> <<>>]),
      On(0, "LEASE", [ttl |-> 8, requestCount |-> 0,
                      metadata |-> Bytes(2, 2)]),
      On(0, "RESUME", [majorVersion |-> 1, minorVersion |-> 0,
                       resumeToken |-> Bytes(3, 4),
                       serverPosition |-> Base^6, clientPosition |-> 9]),
      On(0, "RESUME_OK", [clientPosition |-> Base^4 - 1]) }

StreamFrames ==
    { On(1, "CANCEL", << >>),
      On(1, "ERROR", [code |-> Highest, message |-> Text(3)]),
      On(Highest, "REQUEST_N", [requestN |-> 1]),
      On(1, "REQUEST_N", [requestN |-> Highest]),
      On(1, "EXT", [extendedType |-> -1, extendedContent |-> <<>>]),
      [On(1, "EXT", [extendedType |-> 5, extendedContent |-> Bytes(2, 3)])
          EXCEPT !.flags = 512] }

-----------------------------------------------------------------------------
(* Routed requests: a is for two types, b for one, c is not registered *)

a == Bytes(1, 5)
b == Bytes(2, 5)
c == Bytes(Base - 1, 6)

RoutesRegistered ==
    { [path |-> a, type |-> "REQUEST_FNF"],
      [path |-> a, type |-> "REQUEST_RESPONSE"],
      [path |-> b, type |-> "REQUEST_STREAM"],
      [path |-> b, type |-> "METADATA_PUSH"] }

Custom == Explicit(Bytes(KnownMask, 7), Bytes(1, 8))
Other == WellKnown(1, <<>>)
Auth(content) == WellKnown(Authentication, content)
Token == Bytes(2, 9)
Named == Explicit(Bytes(2, 9), Bytes(1, 9))
User == [username |-> Bytes(2, 9), password |-> Bytes(1, 9)]

Encoded(route, more) ==
    EncodeCompositeMetadata(RequestMetadata(route, more))

Routes(type, routes, metadata, more) ==
    [type |-> type, streamId |-> 1, complete |-> FALSE,
     requestN |-> IF type \in WithRequestN THEN 1 ELSE 0,
     hasMetadata |-> TRUE, data |-> Bytes(2, 3), routes |-> routes,
     metadata |-> metadata] @@ more

RoutedRequests ==
    { Routes(type, << route >>, Encoded(route, more), << >>) :
        type \in {"REQUEST_FNF", "REQUEST_RESPONSE", "REQUEST_STREAM"},
        route \in {a, b, c}, more \in {<<>>, << Custom >>, << Other, Custom >>} }
    \union
    { Routes("REQUEST_RESPONSE", << a >>,
             EncodeCompositeMetadata(<< Auth(EncodeAuth(Named)),
                 WellKnown(Routing, EncodeRoutes(<< a >>)) >>),
             [auth |-> Named]),
      Routes("REQUEST_RESPONSE", << a >>,
             EncodeCompositeMetadata(<< Auth(EncodeBearerAuth(Token)),
                 WellKnown(Routing, EncodeRoutes(<< a >>)) >>),
             [auth |-> WellKnown(Bearer, Token)]),
      Routes("REQUEST_STREAM", << c, b >>,
             EncodeCompositeMetadata(<< Custom,
                 WellKnown(Routing, EncodeRoutes(<< c, b >>)),
                 Auth(EncodeSimpleAuth(User.username, User.password)) >>),
             [user |-> User]),
      Routes("REQUEST_FNF", << b >>,
             Encoded(a, << WellKnown(Routing, EncodeRoutes(<< b >>)) >>),
             << >>),
      Routes("REQUEST_FNF", << >>,
             EncodeCompositeMetadata(<< Explicit(Bytes(4, 7), EncodeRoutes(<< a >>)) >>),
             << >>) }

Push(metadata, more) ==
    [type |-> "METADATA_PUSH", streamId |-> 0, flags |-> METADATA,
     metadata |-> metadata] @@ more

Pushes ==
    { Push(<<>>, << >>),
      Push(Encoded(b, << Custom >>), [routes |-> << b >>]),
      Push(Encoded(a, <<>>), [routes |-> << a >>]) }

-----------------------------------------------------------------------------
AllMessages ==
    ConnectionFrames \union StreamFrames \union Pushes \union RoutedRequests
    \union Plain({-1, 0, 1, 4, 8}, {0, 1, 3, 7, 10})

AllFollowers ==
    { PayloadOf("PAYLOAD", TRUE, 1, 2),
      On(0, "KEEPALIVE", [lastReceivedPosition |-> 3, data |-> <<>>]) }

FewPayloads == Plain({-1, 3, 6}, {0, 2, 9})
=============================================================================
