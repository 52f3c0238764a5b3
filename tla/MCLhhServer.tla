----------------------------- MODULE MCLhhServer ----------------------------
(* An instance of LhhServer for TLC: two game servers and a client.        *)
EXTENDS LhhServer, TLC

CONSTANTS g1, g2, c1

TwoGameds == {g1, g2}
OneClient == {c1}
None == {}

Text(t) == [type |-> "string", int |-> 0, text |-> t]
Num(n) == [type |-> "number", int |-> n, text |-> ToString(n)]
Entries(ip, inter) == [k \in {"GATED_IP", "INTER_GATED_PORT", "OUTER_GATED_PORT"} |->
                          CASE k = "GATED_IP" -> Text(ip)
                            [] k = "INTER_GATED_PORT" -> Num(inter)
                            [] OTHER -> Num(44)]

\* A good file; one whose address is a name, one that does not name the inter
\* port, and one with a key that is the name of a Lua global.
SomeFiles ==
    LET good == Entries("127.0.0.1", 40)
    IN  {good,
         Entries("localhost", 40),
         [k \in DOMAIN good \ {"INTER_GATED_PORT"} |-> good[k]],
         [k \in DOMAIN good \cup {"print"} |->
             IF k = "print" THEN Num(1) ELSE good[k]]}

Globals == {"print"}
SomeAddresses == {"127.0.0.1"}
SomeArgvs == {<<>>, <<"l">>, <<"n", "l">>, <<"l", "f">>}
=============================================================================
