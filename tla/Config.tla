------------------------------- MODULE Config -------------------------------
(***************************************************************************)
(* The configuration store: src/src/config.c.  config_init reads the file  *)
(* into a table and copies it, entry by entry, into the globals of its Lua *)
(* state, which the getters read.                                          *)
(***************************************************************************)
EXTENDS ConfigFile

CONSTANTS Files,     \* the tables that ./config.ini may evaluate to
          Keys       \* the names that matter: keys of the files and globals

\* Every key matters, and a Lua value is what LuaValue makes.
ASSUME FilesAssumption ==
    \A f \in Files :
        /\ DOMAIN f \subseteq Keys
        /\ \A k \in DOMAIN f : f[k] \in [type : STRING, int : Int, text : STRING]

VARIABLES file,      \* the table that ./config.ini evaluates to
          config,    \* "start", "reading", "ready", or how config_init ended
                     \* the process ("unread": exit(1) without a table)
          todo,      \* keys of the table that lua_next has not returned yet
          globals    \* the globals of the Lua state

configVars == <<file, config, todo, globals>>

ConfigInit == /\ file \in Files
              /\ config = "start"
              /\ todo = {}
              /\ globals = [k \in Keys |-> Nil]

-----------------------------------------------------------------------------
\* luaL_newstate, the libraries, and load_config.lua on ./config.ini.  No
\* memory for a state: luaL_openlibs is called with NULL.  A missing file, a
\* syntax error or a missing environment variable: lua_pcall fails.
load ==
    /\ config = "start"
    /\ \/ /\ config' = "reading"
          /\ todo' = DOMAIN file
          /\ globals' = [k \in Keys |-> IF k \in LuaGlobals THEN LibraryValue
                                        ELSE Nil]
       \/ /\ config' \in {"segv", "unread"}
          /\ UNCHANGED <<todo, globals>>
    /\ UNCHANGED file

Bug_CollisionExits(key, value) ==
    \/ /\ globals[key].type = "nil"
       /\ globals' = [globals EXCEPT ![key] = value]
       /\ UNCHANGED config
    \/ /\ globals[key].type # "nil"
       /\ config' = "exit1"
       /\ UNCHANGED globals

\* config_set_int and config_set_string: assert that the global is nil.
config_set(key, value) ==
    \/ /\ globals[key].type = "nil"
       /\ globals' = [globals EXCEPT ![key] = value]
       /\ UNCHANGED config
    \/ /\ globals[key].type # "nil"
       /\ config' = "abort"
       /\ UNCHANGED globals

Bug_NumbersAsStrings(key) ==
    /\ config = "reading"
    /\ key \in todo
    /\ todo' = todo \ {key}
    /\ \/ /\ Unusable(file[key])
          /\ config' = "exit1"
          /\ UNCHANGED globals
       \/ /\ ~Unusable(file[key])
          /\ config_set(key, file[key])
    /\ UNCHANGED file

\* One turn of the loop of __init_config.
init_entry(key) ==
    /\ config = "reading"
    /\ key \in todo
    /\ todo' = todo \ {key}
    /\ \/ /\ key \in NonStringKeys \/ Unusable(file[key])
          /\ config' = "exit1"
          /\ UNCHANGED globals
       \/ /\ key \notin NonStringKeys /\ ~Unusable(file[key])
          /\ config_set(key, Stored(file[key]))
    /\ UNCHANGED file

init_done == /\ config = "reading"
             /\ todo = {}
             /\ config' = "ready"
             /\ UNCHANGED <<file, todo, globals>>

\* config_get_string converts the global on the stack, not the global itself.
config_get_int(key) == CInt(globals[key].int)
config_get_string(key) == globals[key].text

ConfigNext == load \/ (\E key \in todo : init_entry(key)) \/ init_done

ConfigSpec == ConfigInit /\ [][ConfigNext]_configVars

-----------------------------------------------------------------------------
(* Properties.                                                             *)

(* In whatever order lua_next returns the entries of a table that has been *)
(* read, config_init succeeds only for one that has neither an invalid     *)
(* entry nor one named like a global of Lua, calls exit(1) only for one    *)
(* with an invalid entry, and aborts only for one with such a name.  In    *)
(* particular no good file makes it end the process.                       *)
OutcomeOfFile ==
    config \in {"ready", "abort", "exit1"} => config \in Outcomes(file)

(* After start-up the getters give what the file says, as a C int and as a *)
(* text, whatever the order of the entries; a fraction reads as 0 and a    *)
(* boolean as 0 or 1.                                                      *)
ReadyConfigReadable ==
    config = "ready" =>
        \A k \in DOMAIN file :
            /\ config_get_int(k) = IntOf(file, k)
            /\ config_get_string(k) = StringOf(file, k)
            /\ file[k].type # "string" =>
                   config_get_string(k) = ToString(config_get_int(k))
=============================================================================
