------------------------------ MODULE ReadBuffer ------------------------------
(***************************************************************************)
(* How the bytes of a backend reach the client (forward_message_cycle, the *)
(* idle branch of handle_client, await_ready_status): the session's        *)
(* backend_read buffer outlives a cycle, so that a frame that arrived in   *)
(* part is completed by the cycle that reads on.                           *)
(*                                                                         *)
(* A frame is two pieces, which TCP may deliver in one read or in two; a   *)
(* piece names its backend, the frame's number there, its half and what    *)
(* the frame is: the answer to a request, a ReadyForQuery, or a message    *)
(* the server sends of its own accord.  The sessions follow each other     *)
(* and use the same buffers, as they may through the pool of buffers.      *)
(***************************************************************************)
EXTENDS Integers, Sequences, SequencesExt

CONSTANTS
    Conn,       \* backend connections
    Drains,     \* recovery_mode is "recover": a timed-out backend is drained
    MaxCycle,   \* bound: cycles, over all sessions
    MaxNote,    \* bound: messages the servers send of their own accord
    MaxSession  \* bound: sessions

VARIABLES
    sess,         \* the session: where it is, the backend it holds, its cycle
    peer,         \* each backend: frames it owes, pieces on their way, frames sent
    backend_read, \* SessionBufferSet::backend_read
    drained,      \* the buffer of await_ready_status
    passed,       \* the pieces this session's client has been sent
    used          \* what the bounds count

streamVars == <<sess, peer, backend_read, drained, passed, used>>

Nobody == "none"
Shapes == {"sync", "flush", "silent"}

(* A backend that answers a cycle of a shape owes these frames.            *)
Replies(shape) ==
    CASE shape = "sync" -> <<"reply", "ready">>
      [] shape = "flush" -> <<"reply">>
      [] shape = "silent" -> << >>

Pieces(c, n, tag) == [h \in 1..2 |-> [from |-> c, frame |-> n, half |-> h, tag |-> tag]]

Begun == [pc |-> "idle", held |-> Nobody, shape |-> "silent", started |-> FALSE,
          retried |-> FALSE, safe |-> FALSE, then |-> "idle", else |-> "idle", cut |-> FALSE]

StreamInit ==
    /\ sess = Begun
    /\ peer = [c \in Conn |-> [owes |-> << >>, wire |-> << >>, sent |-> 0, open |-> TRUE]]
    /\ backend_read = << >>
    /\ drained = << >>
    /\ passed = << >>
    /\ used = [cycles |-> 0, notes |-> 0, sessions |-> 1]

-----------------------------------------------------------------------------
(* Framing.                                                                *)

Pair(s, i) ==
    /\ s[i].half = 1 /\ s[i + 1].half = 2
    /\ s[i].from = s[i + 1].from /\ s[i].frame = s[i + 1].frame

(* The pieces are whole frames. *)
Framed(s) == Len(s) % 2 = 0 /\ \A i \in 1..(Len(s) \div 2) : Pair(s, 2 * i - 1)

(* They are whole frames and perhaps the beginning of one more. *)
Aligned(s) ==
    LET whole == (Len(s) \div 2) * 2 IN
    /\ Framed(SubSeq(s, 1, whole))
    /\ whole < Len(s) => s[Len(s)].half = 1

(* parse_backend_frame, until it wants more bytes.  Bytes that do not begin *)
(* with a header have a tag and a length all the same: whatever they spell  *)
(* is taken, awaited or refused.                                            *)
Parses(s) ==
    IF Aligned(s)
    THEN LET whole == (Len(s) \div 2) * 2
             frames == SubSeq(s, 1, whole)
         IN {[frames |-> frames, rest |-> SubSeq(s, whole + 1, Len(s)), error |-> FALSE,
              tags |-> {frames[i].tag : i \in DOMAIN frames}]}
    ELSE {[frames |-> SubSeq(s, 1, k), rest |-> SubSeq(s, k + 1, Len(s)), error |-> e, tags |-> t] :
             k \in 0..Len(s), e \in BOOLEAN, t \in {{}, {"reply"}, {"ready"}}}

-----------------------------------------------------------------------------
(* The backends.                                                           *)

(* An owed frame is written. *)
ServerAnswers(c) ==
    /\ peer[c].open /\ peer[c].owes # << >>
    /\ peer' = [peer EXCEPT ![c].owes = Tail(@), ![c].sent = @ + 1,
                            ![c].wire = @ \o Pieces(c, peer[c].sent + 1, Head(peer[c].owes))]
    /\ UNCHANGED <<sess, backend_read, drained, passed, used>>

(* A NotificationResponse, ParameterStatus or NoticeResponse. *)
ServerNotifies(c) ==
    /\ peer[c].open /\ sess.held = c /\ used.notes < MaxNote
    /\ used' = [used EXCEPT !.notes = @ + 1]
    /\ peer' = [peer EXCEPT ![c].sent = @ + 1, ![c].wire = @ \o Pieces(c, peer[c].sent + 1, "note")]
    /\ UNCHANGED <<sess, backend_read, drained, passed>>

(* The connection breaks; what had not arrived may be lost. *)
ServerBreaks(c) ==
    /\ peer[c].open /\ sess.held = c
    /\ \E k \in 0..Len(peer[c].wire) :
         peer' = [peer EXCEPT ![c].open = FALSE, ![c].owes = << >>,
                              ![c].wire = SubSeq(@, 1, k)]
    /\ UNCHANGED <<sess, backend_read, drained, passed, used>>

(* The proxy closes the connection. *)
Closed(c) == [peer EXCEPT ![c] = [@ EXCEPT !.open = FALSE, !.owes = << >>, !.wire = << >>]]
Asked(p, c, shape) == [p EXCEPT ![c].owes = @ \o Replies(shape)]

-----------------------------------------------------------------------------
(* The session.  `cut` is history: bytes read in part were left behind, or *)
(* the bytes after them went elsewhere.                                    *)

Partial == backend_read # << >>

CarriedCleared == << >>
(* The read buffer a cycle starts with: the one the last cycle left.       *)
Carried == backend_read

(* Between cycles.  What a cycle found out is forgotten.                   *)
Resting(c) == [Begun EXCEPT !.held = c, !.cut = sess.cut]

(* The backend is read to a ReadyForQuery, and the session goes on in one  *)
(* of two ways.                                                            *)
Draining(then, else, partial) ==
    [Resting(sess.held) EXCEPT !.pc = "drain", !.then = then, !.else = else, !.cut = @ \/ partial]

(* forward_message_cycle writes the cycle; one that elicits no reply is    *)
(* over at once and keeps the backend.                                     *)
SendCycle(c, shape) ==
    /\ sess.pc = "idle" /\ used.cycles < MaxCycle
    /\ peer[c].open /\ sess.held \in {Nobody, c}
    /\ used' = [used EXCEPT !.cycles = @ + 1]
    /\ peer' = Asked(peer, c, shape)
    /\ backend_read' = Carried
    /\ \/ shape = "silent" /\ sess' = Resting(c)
       \/ /\ shape # "silent"
          /\ \E safe \in BOOLEAN :
               sess' = [Resting(c) EXCEPT !.pc = "forward", !.shape = shape, !.safe = safe]
    /\ UNCHANGED <<drained, passed>>

CycleDone(tags) ==
    CASE sess.shape = "sync" -> "ready" \in tags
      [] sess.shape = "flush" -> "reply" \in tags

Ended == [Begun EXCEPT !.pc = "gone", !.cut = sess.cut]

(* finish_ready_backend keeps the backend, returns it, or resets it first; *)
(* a completed Flush keeps it.                                             *)
Finished(next, partial) ==
    CASE next = "keep" -> Resting(sess.held)
      [] next = "release" -> [Resting(Nobody) EXCEPT !.cut = @ \/ partial]
      [] next = "reset" -> Draining("idle", "gone", partial)

(* One read of the loop: every complete frame is passed on and the rest    *)
(* stays in the buffer.  A frame that cannot be one ends the session; the  *)
(* buffer had been taken out of the set.                                   *)
ReadBackend(k) ==
    LET c == sess.held
        left == [peer EXCEPT ![c].wire = SubSeq(@, k + 1, Len(@))]
    IN
    /\ sess.pc = "forward"
    /\ \E r \in Parses(backend_read \o SubSeq(peer[c].wire, 1, k)) :
         \/ /\ r.error
            /\ sess' = Ended /\ peer' = Closed(c) /\ backend_read' = << >>
            /\ UNCHANGED passed
         \/ /\ ~r.error /\ ~CycleDone(r.tags)
            /\ sess' = [sess EXCEPT !.started = @ \/ r.frames # << >>]
            /\ peer' = left /\ backend_read' = r.rest /\ passed' = passed \o r.frames
         \/ /\ ~r.error /\ CycleDone(r.tags)
            /\ \E next \in IF sess.shape = "flush" THEN {"keep"} ELSE {"keep", "release", "reset"} :
                 /\ sess' = Finished(next, r.rest # << >>)
                 /\ peer' = IF next = "reset" THEN Asked(left, c, "sync") ELSE left
            /\ backend_read' = r.rest /\ passed' = passed \o r.frames
    /\ UNCHANGED <<drained, used>>

(* The read fails, or finds the connection closed.  Before any frame was   *)
(* passed on, a request that is safe to repeat goes to another backend,    *)
(* once; otherwise the session ends.                                       *)
BackendFails ==
    LET c == sess.held IN
    /\ sess.pc = "forward" /\ ~peer[c].open /\ peer[c].wire = << >>
    /\ \/ /\ ~sess.started /\ sess.safe /\ ~sess.retried
          /\ \E d \in Conn \ {c} :
               /\ peer[d].open
               /\ peer' = Asked(peer, d, sess.shape)
               /\ sess' = [sess EXCEPT !.held = d, !.retried = TRUE, !.cut = @ \/ Partial]
       \/ sess' = Ended /\ UNCHANGED peer
    /\ UNCHANGED <<backend_read, drained, passed, used>>

(* A session that goes on without its backend, or ends. *)
Goes(to) == IF to = "gone" THEN Ended ELSE Resting(Nobody)

(* handle_query_timeout: the backend is discarded, or drained first.  The  *)
(* session goes on if the client had been sent nothing.                    *)
QueryTimeout ==
    LET to == IF sess.started THEN "gone" ELSE "idle" IN
    /\ sess.pc = "forward"
    /\ IF Drains
       THEN /\ sess' = Draining(to, to, Partial)
            /\ UNCHANGED peer
       ELSE /\ sess' = [Goes(to) EXCEPT !.cut = @ \/ (to = "idle" /\ Partial)]
            /\ peer' = Closed(sess.held)
    /\ UNCHANGED <<backend_read, drained, passed, used>>

(* await_ready_status reads into a buffer of its own until ReadyForQuery,  *)
(* and the backend goes back to the pool.                                  *)
DrainReads(k) ==
    LET c == sess.held IN
    /\ sess.pc = "drain"
    /\ \E r \in Parses(drained \o SubSeq(peer[c].wire, 1, k)) :
         \/ /\ r.error
            /\ sess' = Goes(sess.else) /\ peer' = Closed(c) /\ drained' = << >>
         \/ /\ ~r.error
            /\ peer' = [peer EXCEPT ![c].wire = SubSeq(@, k + 1, Len(@))]
            /\ IF "ready" \in r.tags
               THEN sess' = [Goes(sess.then) EXCEPT !.cut = @ \/ r.rest # << >>]
                    /\ drained' = << >>
               ELSE drained' = r.rest /\ UNCHANGED sess
    /\ UNCHANGED <<backend_read, passed, used>>

(* The drain times out, or the connection breaks under it. *)
DrainFails ==
    /\ sess.pc = "drain"
    /\ sess' = Goes(sess.else) /\ peer' = Closed(sess.held) /\ drained' = << >>
    /\ UNCHANGED <<backend_read, passed, used>>

(* Between cycles a held backend is read too, into another buffer, and     *)
(* what it sent goes to the client as it is.                               *)
IdleReads(k) ==
    LET c == sess.held IN
    /\ sess.pc = "idle"
    /\ passed' = passed \o SubSeq(peer[c].wire, 1, k)
    /\ peer' = [peer EXCEPT ![c].wire = SubSeq(@, k + 1, Len(@))]
    /\ sess' = [sess EXCEPT !.cut = @ \/ Partial \/ k % 2 = 1]
    /\ UNCHANGED <<backend_read, drained, used>>

IdleCloses ==
    LET c == sess.held IN
    /\ sess.pc = "idle" /\ c # Nobody /\ ~peer[c].open /\ peer[c].wire = << >>
    /\ sess' = [sess EXCEPT !.held = Nobody, !.cut = @ \/ Partial]
    /\ UNCHANGED <<peer, backend_read, drained, passed, used>>

(* The client leaves between cycles: finalize_backend_on_disconnect        *)
(* discards the backend it holds, returns it, or resets it first.          *)
ClientLeaves ==
    LET c == sess.held IN
    /\ sess.pc = "idle"
    /\ \/ c = Nobody /\ sess' = Ended /\ UNCHANGED peer
       \/ c # Nobody /\ sess' = Ended /\ peer' = Closed(c)
       \/ c # Nobody /\ sess' = [Ended EXCEPT !.cut = @ \/ Partial] /\ UNCHANGED peer
       \/ /\ c # Nobody /\ peer[c].open
          /\ sess' = Draining("gone", "gone", Partial)
          /\ peer' = Asked(peer, c, "sync")
    /\ UNCHANGED <<backend_read, drained, passed, used>>

(* SessionBufferSet::prepare_for_reuse. *)
Recycled == << >>

(* The lease is dropped, and the next session takes the buffers. *)
NextSession ==
    /\ sess.pc = "gone" /\ used.sessions < MaxSession
    /\ used' = [used EXCEPT !.sessions = @ + 1]
    /\ sess' = [Begun EXCEPT !.cut = sess.cut]
    /\ backend_read' = Recycled
    /\ passed' = << >>
    /\ UNCHANGED <<peer, drained>>

(* A read returns what has arrived, or a part of it. *)
Reads == IF sess.held = Nobody THEN {} ELSE 1..Len(peer[sess.held].wire)

StreamNext ==
    \/ \E c \in Conn : ServerAnswers(c) \/ ServerNotifies(c) \/ ServerBreaks(c)
    \/ \E c \in Conn, shape \in Shapes : SendCycle(c, shape)
    \/ \E k \in Reads : ReadBackend(k) \/ DrainReads(k) \/ IdleReads(k)
    \/ BackendFails \/ QueryTimeout \/ DrainFails \/ IdleCloses
    \/ ClientLeaves \/ NextSession

StreamSpec == StreamInit /\ [][StreamNext]_streamVars

-----------------------------------------------------------------------------
StreamTypeOK ==
    /\ sess.pc \in {"idle", "forward", "drain", "gone"}
    /\ sess.held \in Conn \cup {Nobody} /\ sess.shape \in Shapes
    /\ \A f \in {"started", "retried", "safe", "cut"} : sess[f] \in BOOLEAN
    /\ \A c \in Conn : peer[c].open \in BOOLEAN /\ peer[c].sent \in Nat
    /\ used.cycles \in 0..MaxCycle /\ used.notes \in 0..MaxNote
    /\ used.sessions \in 1..MaxSession

(* However the reads fall, the client is sent whole frames, each once and  *)
(* in the order the backend sent them, and the buffer a cycle starts with  *)
(* holds the beginning of the frame the backend sends next: unless the     *)
(* session earlier let go of a backend in the middle of a frame, or read   *)
(* it past the buffer while idle.                                          *)
FramesIntact ==
    ~sess.cut =>
        /\ Framed(passed)
        /\ \A i, j \in DOMAIN passed :
             (i + 1 < j /\ passed[i].from = passed[j].from) => passed[i].frame <= passed[j].frame
        /\ sess.pc \in {"idle", "forward"} =>
             IF sess.held = Nobody THEN backend_read = << >>
             ELSE Aligned(backend_read \o peer[sess.held].wire)

(* The bytes a cycle finds in the buffer are of the backend it reads: they *)
(* "belong to the response this cycle continues reading".                  *)
LeftoverOwned ==
    sess.pc = "forward" =>
        \A i \in DOMAIN backend_read : backend_read[i].from = sess.held

(* What an idle session passes on is "complete frames from the backend":   *)
(* a client with no cycle under way has been sent whole frames.            *)
IdleWhole == sess.pc = "idle" => Framed(passed)
=============================================================================
