--------------------------- MODULE PostgresServer ---------------------------
(***************************************************************************)
(* One PostgreSQL server process, as the proxy relies on it: it executes   *)
(* the requests of its socket in order and ends the answer to each with a  *)
(* ReadyForQuery carrying its transaction status.  The server is not part  *)
(* of the repository; this module states what the proxy's code assumes.    *)
(*                                                                         *)
(* residue says, for every setting and session object, which client's      *)
(* statement left it there (None: the server default).                     *)
(***************************************************************************)
EXTENDS VirtualSession

CONSTANTS Client, None,
          Lasting    \* objects ROLLBACK does not undo (session advisory locks)

(* flush: an extended batch ended by Flush, which no ReadyForQuery answers. *)
Modes == {"query", "parse", "prepare", "bind", "flush", "proxy"}

Request == [by : Client, st : Statement,
            mode : Modes]

Response == [by : Client, mode : Modes,
             err : BOOLEAN, status : {"I", "T", "E"}]

Residue == [Key \cup Object -> Client \cup {None}]

Clean == [o \in Key \cup Object |-> None]

Server == [tx : {"I", "T", "E"}, residue : Residue, saved : Residue,
           inbox : Seq(Request), outbox : Seq(Response)]

FreshServer ==
    [tx |-> "I", residue |-> Clean, saved |-> Clean, inbox |-> <<>>, outbox |-> <<>>]

(* An aborted transaction accepts only its end; DISCARD ALL is refused     *)
(* inside a transaction block.                                             *)
Fails(sv, st) ==
    \/ st.op = "fail"
    \/ sv.tx = "E" /\ st.op \notin {"commit", "rollback"}
    \/ sv.tx = "T" /\ st.op = "discard"

RolledBack(sv) ==
    [o \in Key \cup Object |-> IF o \in Lasting THEN sv.residue[o] ELSE sv.saved[o]]

(* Effect of a statement on the session, its transaction status aside.     *)
Effect(sv, rq) ==
    CASE rq.st.op \in {"set", "raise"} -> [sv.residue EXCEPT ![rq.st.arg] = rq.by]
      [] rq.st.op \in {"reset", "drop"} -> [sv.residue EXCEPT ![rq.st.arg] = None]
      [] rq.st.op = "discard" -> Clean
      [] rq.st.op \in {"commit", "rollback"} ->
             IF sv.tx = "E" \/ (sv.tx = "T" /\ rq.st.op = "rollback")
             THEN RolledBack(sv) ELSE sv.residue
      [] OTHER -> sv.residue

Ran(sv, rq) ==
    IF Fails(sv, rq.st)
    THEN [sv EXCEPT !.tx = IF @ = "I" THEN "I" ELSE "E"]
    ELSE [sv EXCEPT !.residue = Effect(sv, rq),
                    !.saved = CASE rq.st.op = "begin" /\ sv.tx = "I" -> sv.residue
                                [] rq.st.op \in {"commit", "rollback"} -> Clean
                                [] OTHER -> @,
                    !.tx = CASE rq.st.op = "begin" -> "T"
                             [] rq.st.op \in {"commit", "rollback"} -> "I"
                             [] OTHER -> @]

(* The server takes its next request, executes it and answers.             *)
Execute(sv) ==
    LET rq == Head(sv.inbox)
        done == Ran(sv, rq)
    IN  [done EXCEPT !.inbox = Tail(@),
                     !.outbox = Append(@, [by |-> rq.by, mode |-> rq.mode,
                                           err |-> Fails(sv, rq.st), status |-> done.tx])]

Quiet(sv) == sv.inbox = <<>> /\ sv.outbox = <<>>
=============================================================================
