--------------------------- MODULE ScriptModules ----------------------------
(***************************************************************************)
(* The scripts Lua has loaded: package.loaded, "call" and "reload" of      *)
(* link.lua, and RegModuleFunc, which makes the table of C++ functions     *)
(* that every script requires at its start.                                *)
(*                                                                         *)
(* A script is what its table says: for each function the edit that wrote  *)
(* it, 0 if the table has none.  Other scripts may hold the table (local x *)
(* = require ...).  Whether the held table is the loaded one is all that   *)
(* is kept of the tables' identity.                                        *)
(***************************************************************************)
EXTENDS Integers, Sequences

CONSTANTS
    Scripts,
    Functions,   \* functions a script may define
    MaxEdits     \* bound: edits of script files while the program runs

ASSUME MaxEditsAssumption == MaxEdits \in Nat

VARIABLES
    registered,  \* RegModuleFunc was called
    edits,
    file,        \* each script file: whether it loads, and what it defines
    loaded,      \* package.loaded: nothing, a value that is no table, or a table
    held,        \* by other scripts: nothing, the loaded table, or one of their own
    latest,      \* what the file defined when it was last loaded or reloaded
    failed       \* scripts of which a reload failed

files  == <<registered, edits, file>>
tables == <<loaded, held, latest, failed>>

Defined == [Functions -> 0..MaxEdits]
Nothing == [f \in Functions |-> 0]

ModulesTypeOK ==
    /\ registered \in BOOLEAN /\ edits \in 0..MaxEdits
    /\ file \in [Scripts -> [kind : {"table", "value", "broken"}, funs : Defined]]
    /\ loaded \in [Scripts -> [is : {"nil", "value", "table"}, funs : Defined]]
    /\ held \in [Scripts -> [is : {"none", "loaded", "own"}, funs : Defined]]
    /\ latest \in [Scripts -> Defined] /\ failed \subseteq Scripts

ModulesInit ==
    /\ registered = FALSE /\ edits = 0
    /\ file = [m \in Scripts |-> [kind |-> "broken", funs |-> Nothing]]
    /\ loaded = [m \in Scripts |-> [is |-> "nil", funs |-> Nothing]]
    /\ held = [m \in Scripts |-> [is |-> "none", funs |-> Nothing]]
    /\ latest = [m \in Scripts |-> Nothing] /\ failed = {}

-----------------------------------------------------------------------------
\* Somebody edits a script file, and may leave it broken.
EditFile(m, kind, funs) ==
    /\ edits < MaxEdits
    /\ edits' = edits + 1
    /\ file' = [file EXCEPT ![m] =
                   [kind |-> kind,
                    funs |-> [f \in Functions |-> IF f \in funs THEN edits + 1 ELSE 0]]]
    /\ UNCHANGED <<registered, tables>>

Register ==
    /\ registered' = TRUE
    /\ UNCHANGED <<edits, file, tables>>

-----------------------------------------------------------------------------
(* require: the loaded value, or the file's. *)

Loads(m) == registered /\ file[m].kind # "broken"

Required(m) ==
    IF loaded[m].is # "nil" THEN loaded[m]
    ELSE IF file[m].kind = "table" THEN [is |-> "table", funs |-> file[m].funs]
    ELSE [is |-> "value", funs |-> Nothing]

RequireFails(m) == loaded[m].is = "nil" /\ ~Loads(m)

Require(m) ==
    /\ ~RequireFails(m)
    /\ loaded' = [loaded EXCEPT ![m] = Required(m)]
    /\ latest' = IF loaded[m].is = "nil" THEN [latest EXCEPT ![m] = file[m].funs] ELSE latest

\* What link.lua's call does before it calls the function: require, mod[f], assert.
Finds(m, f) == ~RequireFails(m) /\ Required(m).is = "table" /\ Required(m).funs[f] # 0

\* Another script requires m and keeps the table.
Hold(m) ==
    /\ Require(m)
    /\ held[m].is = "none" /\ loaded'[m].is = "table"
    /\ held' = [held EXCEPT ![m].is = "loaded"]
    /\ UNCHANGED <<files, failed>>

-----------------------------------------------------------------------------
(* reload. *)

\* The holders' table is no longer the loaded one.
Apart(m) ==
    IF held[m].is = "loaded" THEN [held EXCEPT ![m] = [is |-> "own", funs |-> loaded[m].funs]]
    ELSE held

\* Mutant: the new table takes the place of the old one.
ReplacesTable(m) ==
    /\ loaded' = [loaded EXCEPT ![m] = [is |-> "table", funs |-> file[m].funs]]
    /\ held' = Apart(m)

\* for k, v in pairs(newMod): oldMod[k] = v, and the old table is loaded again.
Merge(m) ==
    /\ loaded' = [loaded EXCEPT ![m] =
                     [is   |-> IF loaded[m].is = "value" THEN "value" ELSE "table",
                      funs |-> [f \in Functions |-> IF file[m].funs[f] # 0 THEN file[m].funs[f]
                                                    ELSE loaded[m].funs[f]]]]
    /\ UNCHANGED held

(* The file gives a table, and every function of it can be put into the   *)
(* old module: that is a table or nothing, or there are none to put.       *)
Mergeable(m) ==
    /\ Loads(m) /\ file[m].kind = "table"
    /\ loaded[m].is = "value" => file[m].funs = Nothing

ReloadSucceeds(m) ==
    /\ Mergeable(m)
    /\ Merge(m)
    /\ latest' = [latest EXCEPT ![m] = file[m].funs]
    /\ UNCHANGED <<files, failed>>

(* The error leaves package.loaded[m] as require left it: nil if the file  *)
(* did not load, else the new value, which pairs() refused or which could  *)
(* not be copied into an old value that was no table.                      *)
ReloadFails(m) ==
    /\ ~Mergeable(m)
    /\ loaded' = [loaded EXCEPT ![m] =
                     IF ~Loads(m) THEN [is |-> "nil", funs |-> Nothing]
                     ELSE IF file[m].kind = "table" THEN [is |-> "table", funs |-> file[m].funs]
                     ELSE [is |-> "value", funs |-> Nothing]]
    /\ latest' = IF Loads(m) THEN [latest EXCEPT ![m] = file[m].funs] ELSE latest
    /\ held' = Apart(m)
    /\ failed' = failed \cup {m}
    /\ UNCHANGED files

-----------------------------------------------------------------------------
(***************************************************************************)
(* A reload is seen by everyone: calls, and scripts that keep the module's *)
(* table since before the reload, find the functions of the file that was  *)
(* loaded last.  Holders lose sight of it once a reload has failed, and no *)
(* later reload brings them back.                                          *)
(***************************************************************************)
ReloadIsSeen ==
    \A m \in Scripts, f \in Functions : latest[m][f] # 0 =>
        /\ loaded[m].is = "table" => loaded[m].funs[f] = latest[m][f]
        /\ held[m].is = "own" => m \in failed

\* The inductive form: holders part from the loaded table only in a failed reload.
SeenInv == ReloadIsSeen /\ \A m \in Scripts : held[m].is = "own" => m \in failed
=============================================================================
