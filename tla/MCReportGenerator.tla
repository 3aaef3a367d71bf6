-------------------------- MODULE MCReportGenerator --------------------------
(***************************************************************************)
(* A handful of log lines for the report generator: three clients that come *)
(* from two addresses with one program, under different users.              *)
(***************************************************************************)
EXTENDS ReportGenerator

MCClient(addr, name) == [ip |-> addr, user |-> name, tls |-> "", attrs |-> {<<"_os", "linux">>}]
Ann == MCClient("ip1", "ann")
Bob == MCClient("ip1", "bob")
Eve == MCClient("ip2", "eve")
MCLine(at, m, c, text) == [time |-> at, msg |-> m, client |-> c, sql |-> text]

(* For the window of a run at time 4 that looks back three units: line 1 is *)
(* before it.  The clients of lines 2 to 6 are more than the two a section  *)
(* has rows for, and so are the texts; the statements of Ann and Bob        *)
(* alternate, and with that of Eve are more than a page of three.           *)
MCLines == <<
    MCLine(0, "auth_success", Ann, ""),
    MCLine(1, "auth_success", Bob, ""),
    MCLine(4, "query", Bob, "long"),
    MCLine(3, "query", Ann, "q2"),
    MCLine(2, "query", Bob, "q1"),
    MCLine(1, "query", Eve, ""),
    MCLine(2, "auth_failure", Eve, ""),
    MCLine(2, "redis seeding complete", NoClient, ""),
    MCLine(2, "query", Ann, "q1"),
    MCLine(1, "query", Ann, "q1") >>
FewEvents == 1..7
CappedEvents == {2, 4, 5, 9, 10}
LateEvents == {2, 6, 8}
=============================================================================
