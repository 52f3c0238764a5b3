----------------------------- MODULE ConfigFile -----------------------------
(***************************************************************************)
(* What src/src/config.c makes of a configuration file, as operators.      *)
(*                                                                         *)
(* A file is the table that src/src/load_config.lua returns: a function    *)
(* from its keys to Lua values.  Of a Lua value the C API shows its type,  *)
(* the integer that it converts to (for a boolean, 0 or 1) and the text    *)
(* that it converts to, which is NULL for a table or a function.           *)
(***************************************************************************)
EXTENDS CInts, Sequences, TLC

CONSTANTS NonStringKeys,  \* keys that are not strings
          LuaGlobals      \* names that luaL_openlibs and load_config.lua define

ASSUME ConfigFileAssumption == NonStringKeys \cap LuaGlobals = {}

NULL == "NULL"

LuaValue(type, int, text) == [type |-> type, int |-> int, text |-> text]

Nil == LuaValue("nil", 0, NULL)

\* What a global of the standard library looks like.
LibraryValue == LuaValue("function", 0, NULL)

Number(n) == LuaValue("number", n, ToString(n))

Unusable(v) == v.type \notin {"boolean", "number", "string"}

\* The global that config_set_int or config_set_string makes of an entry: a
\* lua_Integer is passed on as an int.
Stored(v) == IF v.type = "string" THEN v ELSE Number(CInt(v.int))

\* The entries at which __init_config calls exit(1), and those at which the
\* assertion of config_set_int or config_set_string fails.
InvalidEntries(file) ==
    {k \in DOMAIN file : k \in NonStringKeys \/ Unusable(file[k])}

CollidingEntries(file) ==
    (DOMAIN file \cap LuaGlobals) \ InvalidEntries(file)

\* lua_next visits the entries in no particular order: with entries of both
\* kinds either may come first.
Outcomes(file) ==
    (IF InvalidEntries(file) # {} THEN {"exit1"} ELSE {})
      \cup (IF CollidingEntries(file) # {} THEN {"abort"} ELSE {})
      \cup (IF InvalidEntries(file) \cup CollidingEntries(file) = {}
            THEN {"ready"} ELSE {})

\* The getters after a start-up with this file.  A missing integer is 0; a
\* missing string fails an assertion.
IntOf(file, key) == IF key \in DOMAIN file THEN CInt(file[key].int) ELSE 0
StringOf(file, key) == IF key \in DOMAIN file THEN Stored(file[key]).text ELSE NULL
=============================================================================
