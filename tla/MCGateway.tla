------------------------------ MODULE MCGateway ------------------------------
(* Gateway with the asks of three requests: one by HTTP or the console, one *)
(* by gRPC or to the stream, one to the stream.                             *)
EXTENDS Gateway, TLC

CONSTANTS q1, q2, q3

\* A valid token of a tenant that expires at exp.
Token(exp, tenant) == [sig |-> TRUE, exp |-> exp, tag |-> ServiceTag, tenant |-> tenant]

Plain(form, op, token) ==
    [form |-> form, op |-> op, token |-> token, cookie |-> FALSE, tenant |-> "b", num |-> 0,
     targets |-> 1, ttl |-> 0, index |-> 1, size |-> 10, api |-> FALSE]

Good == Token(None, "a")
Old == Token(None, "")
Short == Token(1, "a")

MCAsksOf ==
    (q1 :> {[Plain("http", "MarkRead", Short) EXCEPT !.cookie = TRUE],
            [Plain("http", "GetTenantPage", Old) EXCEPT !.index = 0],
            Plain("http", "BatchMarkRead", Old),
            Plain("http", "SendToUsers", Good),
            Plain("http", "ApplyTicket", Good),
            [Plain("http", "ApplyTicket", Good) EXCEPT !.tenant = ""],
            [Plain("web", "Index", None) EXCEPT !.cookie = TRUE],
            [Plain("web", "Dashboard", None) EXCEPT !.cookie = TRUE, !.api = TRUE],
            Plain("web", "LoginPage", None)}) @@
    (q2 :> {Plain("grpc", "SendToUsers", Good),
            [Plain("grpc", "SendToUsers", Good) EXCEPT !.num = 256],
            [Plain("grpc", "GetTenantPage", Short) EXCEPT !.index = 0, !.size = -1],
            Plain("grpc", "BatchMarkRead", Old),
            Plain("stream", "Subscribe", None)}) @@
    (q3 :> {Plain("stream", "Subscribe", None)})
=============================================================================
