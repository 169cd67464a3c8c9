---------------------------- MODULE Fragmentation ----------------------------
(***************************************************************************)
(* Cutting a payload into frames (Fragmenter.ts) and putting it together   *)
(* again (Reassembler.ts).  A payload is its data, its metadata, and       *)
(* whether it has metadata at all: empty metadata is still announced.      *)
(*                                                                         *)
(* The code has two generators, one for requests with a requestN, which    *)
(* differ in what they take off the room of the first frame: toll is that  *)
(* difference.  They are synchronous, so that a payload's frames follow    *)
(* each other on the wire; here each returns the sequence of its frames.   *)
(***************************************************************************)
EXTENDS FrameCodec

\* Frames.ts, Lengths: what is reserved for the metadata's length and for
\* requestN (whose field is four bytes long).
MetadataLength == 3
RequestLength == 3

WithRequestN == {"REQUEST_STREAM", "REQUEST_CHANNEL"}

IsFragmentable(p, size, type) ==
    /\ size # 0
    /\ Len(p.data) + (IF p.hasMetadata THEN Len(p.metadata) + MetadataLength
                                       ELSE 0)
       + (IF type \in WithRequestN THEN RequestLength ELSE 0) > size

\* A first fragment.  What is kept of the metadata is <<>> or << bytes >>.
FirstFragment(request, kept, data) ==
    [type |-> request.type, streamId |-> request.streamId,
     requestN |-> request.requestN,
     flags |-> FOLLOWS + Flag(kept # <<>>, METADATA),
     metadata |-> FlattenSeq(kept), data |-> data]

LaterFragment(request, kept, data, last) ==
    [type |-> "PAYLOAD", streamId |-> request.streamId,
     flags |-> NEXT + Flag(kept # <<>>, METADATA)
               + (IF last THEN Flag(request.complete, COMPLETE) ELSE FOLLOWS),
     metadata |-> FlattenSeq(kept), data |-> data]

-----------------------------------------------------------------------------
(***************************************************************************)
(* The loop over the metadata from a position on: its frames, and what of  *)
(* the metadata waits for data, with the room that is left beside it.      *)
(***************************************************************************)
MetadataFragments(request, p, size, position) ==
    LET length == Len(p.metadata)
        room == size - MetadataLength
        from[at \in 0 .. length] ==
            IF at = length
            THEN [frames |-> <<>>, kept |-> <<>>, room |-> size]
            ELSE LET next == Smaller(length, at + room)
                     part == Slice(p.metadata, at, next)
                     left == room - Len(part)
                     last == /\ next = length
                             /\ request.complete /\ p.data = <<>>
                 IN  IF left = 0 \/ p.data = <<>>
                     THEN [from[next] EXCEPT !.frames =
                             << LaterFragment(request, << part >>, <<>>, last) >>
                             \o @]
                     ELSE [frames |-> <<>>, kept |-> << part >>, room |-> left]
    IN  from[position]

\* The loop over the data from a position on, which is negative after a
\* first fragment with a negative room.
DataFragments(request, p, size, position, firstRoom, firstKept) ==
    LET length == Len(p.data)
        Next(at, room) == Smaller(length, at + room)
        Fragment(at, room, kept) ==
            LaterFragment(request, kept, Slice(p.data, at, Next(at, room)),
                          Next(at, room) = length)
        from[at \in -size .. length] ==
            IF at >= length THEN <<>>
            ELSE << Fragment(at, size, <<>>) >> \o from[Next(at, size)]
    IN  IF position >= length THEN <<>>
        ELSE << Fragment(position, firstRoom, firstKept) >>
             \o from[Next(position, firstRoom)]

(***************************************************************************)
(* What has happened when the generator comes to the data: the frames so   *)
(* far, the metadata kept for the next one, the room left in it, and       *)
(* whether it is to be the request frame.                                  *)
(***************************************************************************)
AfterMetadata(request, p, size, toll) ==
    LET isRequest == request.type # "PAYLOAD"
        room == size - MetadataLength - toll
        part == Slice(p.metadata, 0, Smaller(Len(p.metadata), room))
        left == room - Len(part)
        Loop(position, frames) ==
            LET rest == MetadataFragments(request, p, size, position)
            IN  [first |-> FALSE, frames |-> frames \o rest.frames,
                 kept |-> rest.kept, room |-> rest.room]
    IN  CASE ~p.hasMetadata ->
               [first |-> isRequest, frames |-> <<>>, kept |-> <<>>,
                room |-> size]
          [] p.hasMetadata /\ p.metadata = <<>> ->
               [first |-> isRequest, frames |-> <<>>, kept |-> << <<>> >>,
                room |-> size - MetadataLength]
          [] p.metadata # <<>> /\ ~isRequest -> Loop(0, <<>>)
          [] p.metadata # <<>> /\ isRequest /\ left = 0 ->
               Loop(Len(part), << FirstFragment(request, << part >>, <<>>) >>)
          [] OTHER ->
               [first |-> TRUE, frames |-> <<>>, kept |-> << part >>,
                room |-> left]

\* The toll is taken off again for the data of the first frame, also when
\* metadata has paid it.
Fragments(request, p, size, toll) ==
    LET so == AfterMetadata(request, p, size, toll)
        next == Smaller(Len(p.data), so.room - toll)
    IN  so.frames \o
        IF so.first
        THEN << FirstFragment(request, so.kept, Slice(p.data, 0, next)) >>
             \o DataFragments(request, p, size, next, size, <<>>)
        ELSE DataFragments(request, p, size, 0, so.room, so.kept)

Fragment(request, p, size) == Fragments(request, p, size, 0)
FragmentWithRequestN(request, p, size) ==
    Fragments(request, p, size, RequestLength)

-----------------------------------------------------------------------------
(* Reassembler.ts.  What is read of a frame is never empty, so that <<>>   *)
(* is what the holder does not have.                                       *)

NoFragments == [hasFragments |-> FALSE, data |-> <<>>, metadata |-> <<>>]

\* Mutant: the fragment of metadata replaces what is there.
Add_Replaces(holder, f) ==
    [hasFragments |-> TRUE, data |-> holder.data \o f.data,
     metadata |-> IF f.metadata # <<>> THEN f.metadata ELSE holder.metadata]

Add(holder, f) ==
    IF ~holder.hasFragments
    THEN [hasFragments |-> TRUE, data |-> f.data,
          metadata |-> IF f.metadata # <<>> THEN f.metadata
                                            ELSE holder.metadata]
    ELSE [holder EXCEPT !.data = @ \o f.data,
                        !.metadata = IF @ # <<>> THEN @ \o f.metadata ELSE @]

Reassemble(holder, f) ==
    [data |-> holder.data \o f.data,
     metadata |-> IF holder.metadata # <<>> THEN holder.metadata \o f.metadata
                                            ELSE <<>>]
=============================================================================
