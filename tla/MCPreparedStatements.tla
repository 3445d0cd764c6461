------------------------ MODULE MCPreparedStatements ------------------------
(* Small instances of PreparedStatements: one session, two backends, one   *)
(* or two named statements and the unnamed one.                            *)
EXTENDS PreparedStatements

Names == {"", "s", "t"}
Queries == {"q1", "q2", "bad", "begin"}

Outcomes ==
    [q \in Queries \cup {"foreign"} |->
        CASE q = "bad" -> "42P01" [] q = "begin" -> "begin" [] OTHER -> "read"]

F(tag, name, query) == [tag |-> tag, name |-> name, query |-> query]
P(n, q) == F("P", n, q)
B(n) == F("B", n, None)
D(n) == F("D", n, None)
C(n) == F("C", n, None)
X == F("E", "", None)
S == F("S", "", None)
H == F("H", "", None)
Q(q) == F("Q", "", q)

(* Statements prepared in one cycle and used in another, redefined, closed *)
(* and re-prepared; Flush-delimited batches; failing ones.                 *)
Usual ==
    {<<P("s", "q1"), D("s"), H>>, <<P("s", "q2"), B("s"), X, S>>, <<B("s"), X, S>>,
     <<P("t", "bad"), B("s"), S>>, <<P("t", "q2"), B("s"), H>>,
     <<C("s"), P("", "q1"), S>>, <<Q("begin")>>, <<H>>, <<S>>}

(* The two sets below show what section 6 of the README says.              *)

(* The unnamed statement, parsed in one cycle and bound in the next.       *)
Unnameds == {<<P("", "q1"), S>>, <<B(""), X, S>>}

(* Flush batches sent without waiting.                                     *)
Impatient == {<<P("s", "bad"), H>>, <<B("s"), H, S>>}

(* Bound: others use a released backend before the session's last batch.   *)
OthersFirst == others' # others => sent < MaxBatches

FairSpec == Init /\ [][Next /\ OthersFirst]_vars /\ Fairness

(* A cycle that is being forwarded ends, and it ends answered: every       *)
(* request of the client got one reply and no Parse of the proxy's own     *)
(* did, the backend has nothing more to send, and the catalog records only *)
(* statements the client can still name (PreparedStatements).              *)
CyclesServed == [](Answered /\ NothingStranded /\ RecordsLive) /\ CycleEnds
=============================================================================
