---------------------------- MODULE MCLibraries ----------------------------
(* Instances of the libraries for TLC.  They share nothing, so a behaviour *)
(* exercises one of them (turn) and leaves the others as they are at first. *)
EXTENDS ListHead, ThreadPool, Atoi, Config, EvBuffer

CONSTANTS h1, h2, e1, e2, e3, p1, p2

VARIABLE turn

TwoHeads == {h1, h2}
ThreeEntries == {e1, e2, e3}
TwoProducers == {p1, p2}

\* Numbers of up to four digits exceed an int of eight bits, and so does the
\* place value of the third digit.
ShortTexts == BoundedSeq({0, 1, 2, 7, Other}, 4)

Text(t) == LuaValue("string", 0, t)
Flag(b) == LuaValue("boolean", b, NULL)
Fraction == LuaValue("number", 0, "25.5")
Table == LuaValue("table", 0, NULL)

\* An entry named like a library function, one whose key is not a string, and
\* two ordinary ones.
SomeKeys == {"print", "[1]", "IP", "PORT"}
SomeFiles == UNION {[ks -> {Text("x"), Number(-3), Number(300), Flag(1), Fraction, Table}] :
                       ks \in SUBSET SomeKeys}
Globals == {"print"}
Unnamed == {"[1]"}

NoText == <<>>
NoFile == <<>>

LibInit ==
    /\ turn \in {"list", "pool", "atoi", "config", "evbuffer"}
    /\ ListInit
    /\ PoolInit
    /\ AtoiInit /\ (turn # "atoi" => text = NoText)
    /\ EvBufferInit
    /\ ConfigInit /\ (turn # "config" => file = NoFile)

LibNext ==
    /\ UNCHANGED turn
    /\ \/ turn = "list" /\ ListNext /\ UNCHANGED <<poolVars, atoiVars, configVars, evbufferVars>>
       \/ turn = "pool" /\ PoolNext /\ UNCHANGED <<listVars, atoiVars, configVars, evbufferVars>>
       \/ turn = "atoi" /\ AtoiNext /\ UNCHANGED <<listVars, poolVars, configVars, evbufferVars>>
       \/ turn = "config" /\ ConfigNext /\ UNCHANGED <<listVars, poolVars, atoiVars, evbufferVars>>
       \/ turn = "evbuffer" /\ EvBufferNext /\ UNCHANGED <<listVars, poolVars, atoiVars, configVars>>

libVars == <<turn, listVars, poolVars, atoiVars, configVars, evbufferVars>>

LibFairness ==
    \A p \in Producers :
        WF_libVars(thread_pool_add(p) /\ UNCHANGED <<turn, listVars, atoiVars, configVars, evbufferVars>>)

LibSpec == LibInit /\ [][LibNext]_libVars /\ LibFairness
=============================================================================
