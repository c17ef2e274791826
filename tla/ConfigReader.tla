---------------------------- MODULE ConfigReader ----------------------------
(***************************************************************************)
(* MeshSim::LoadConfig and io_utils.cc: the configuration files are read   *)
(* one after the other, each line by line; the first problem ends the      *)
(* program.                                                                *)
(*                                                                         *)
(* A line is a record of what its tokens say.  Comments and empty lines    *)
(* are gone.  A failed assertion, an exception, a null pointer and a name  *)
(* that ns-3 does not know all end the program: status "crashed".          *)
(***************************************************************************)
EXTENDS Integers, Sequences, FiniteSets, SequencesExt

FileNames == <<"mesh_mobility", "sta_mobility", "apps", "routing", "mesh_wifi", "apsta_wifi">>

VARIABLES
    config,    \* the lines of the files that can be opened, by name
    reading,   \* number of the file being read
    line,      \* number of the line read next
    status     \* how far the program has come; "failed": a function returned false

readerVars == <<config, reading, line, status>>

ReaderTypeOK ==
    /\ DOMAIN config \subseteq ToSet(FileNames)
    /\ reading \in DOMAIN FileNames
    /\ FileNames[reading] \in DOMAIN config => line \in 1 .. Len(config[FileNames[reading]]) + 1

Reading(name) ==
    /\ status = "loading"
    /\ FileNames[reading] = name
    /\ name \in DOMAIN config

AtLine(name) == Reading(name) /\ line <= Len(config[name])
AtEnd(name) == Reading(name) /\ line > Len(config[name])

(* The lines of a file that have been read. *)
LinesRead(name) ==
    IF name \notin DOMAIN config THEN 0
    ELSE IF FileNames[reading] = name THEN line - 1
    ELSE IF \E i \in 1 .. reading : FileNames[i] = name THEN Len(config[name])
    ELSE 0

(* f with the value v for k, whether k has one already or not: map's []    *)
(* and SetAttribute.                                                       *)
Put(f, k, v) == [l \in DOMAIN f \cup {k} |-> IF l = k THEN v ELSE f[l]]

(* The numbers of the lines of a kind. *)
OfKind(lines, kind) == {n \in DOMAIN lines : lines[n].kind = kind}

(* How many of the first n lines of a file are of a kind. *)
Nth(name, kind, n) == Cardinality({i \in 1 .. n : config[name][i].kind = kind})

Stop(outcome) == status' = outcome /\ UNCHANGED <<config, reading, line>>

NextLine == line' = line + 1 /\ UNCHANGED <<config, reading, status>>

NextFile ==
    /\ IF reading = Len(FileNames)
       THEN status' = "loaded" /\ UNCHANGED <<reading, line>>
       ELSE reading' = reading + 1 /\ line' = 1 /\ UNCHANGED status
    /\ UNCHANGED config

(* A file that is not there, or that may not be written: fstream opens it  *)
(* for both.                                                               *)
OpenFails ==
    /\ status = "loading"
    /\ FileNames[reading] \notin DOMAIN config
    /\ Stop("failed")
=============================================================================
