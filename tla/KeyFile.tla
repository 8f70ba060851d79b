-------------------------------- MODULE KeyFile --------------------------------
(***************************************************************************)
(* First use of the approval key: signing.resolve_key, called by every     *)
(* MCP process when it builds its service (service.py) and by the worker,  *)
(* on one runtime directory.  A fresh directory is met by several of them  *)
(* at once, for the workbench server starts a process per request.         *)
(*                                                                         *)
(* Abstractions: a key is named after the process that drew it at random;  *)
(* a file shorter than MIN_KEY_BYTES reads as Short, and a new file is     *)
(* Short until its key is written.  A process creates at most one file     *)
(* (the key file, or the temporary one, which bears its process id), so    *)
(* files are named after processes too.  Nobody deletes the key file, so   *)
(* the second pass of the loop is the last.                                *)
(***************************************************************************)
CONSTANTS
  Processes,   \* processes that resolve the key
  Injected,    \* those that have a key in their environment
  Mortal,      \* those that may die on the way
  Given,       \* a file that was there before, and the key in it
  Beginnings,  \* what the runtime directory may hold: Absent, Short or Given
  Short,       \* what a file too short for a key reads as
  EnvKey,      \* the key in the environment
  Absent       \* no file, no key

ASSUME KeyFileAssumption ==
  /\ Injected \subseteq Processes /\ Mortal \subseteq Processes
  /\ Beginnings \subseteq {Absent, Short, Given}
  /\ Given \notin Processes /\ Short \notin Processes \cup {Given}
  /\ EnvKey \notin Processes \cup {Given, Short}
  /\ Absent \notin Processes \cup {Given, Short, EnvKey}

VARIABLES
  keyFile,   \* the file with the name .approval_key
  holds,     \* what each file reads as
  step,      \* where each process is in resolve_key
  key,       \* the key each process resolved
  repairs    \* the processes that replaced the file they found

keyVars == <<keyFile, holds, step, key, repairs>>

Files == Processes \cup {Given}

KeyTypeOK ==
  /\ keyFile \in Files \cup {Absent}
  /\ holds \in [Files -> Files \cup {Short, Absent}]
  /\ step \in [Processes -> {"look", "read", "create", "fill", "draw", "replace",
                             "reread", "done", "dead"}]
  /\ key \in [Processes -> Files \cup {Short, EnvKey, Absent}]
  /\ repairs \in SUBSET Processes

KeyInit ==
  \E beginning \in Beginnings :
    /\ keyFile = IF beginning = Absent THEN Absent ELSE Given
    /\ holds = [f \in Files |-> IF f = Given THEN beginning ELSE Absent]
    /\ step = [p \in Processes |-> IF p \in Injected THEN "done" ELSE "look"]
    /\ key = [p \in Processes |-> IF p \in Injected THEN EnvKey ELSE Absent]
    /\ repairs = {}

--------------------------------------------------------------------------------
GoOn(p, from, to) == step[p] = from /\ step' = [step EXCEPT ![p] = to]
Resolve(p, k) == key' = [key EXCEPT ![p] = k]

\* path.exists()
Look(p) ==
  /\ GoOn(p, "look", IF keyFile = Absent THEN "create" ELSE "read")
  /\ UNCHANGED <<keyFile, holds, key, repairs>>

\* A key long enough is taken; a shorter one is replaced.
ReadKey(p) ==
  /\ GoOn(p, "read", IF holds[keyFile] = Short THEN "draw" ELSE "done")
  /\ IF holds[keyFile] = Short THEN UNCHANGED key ELSE Resolve(p, holds[keyFile])
  /\ UNCHANGED <<keyFile, holds, repairs>>

FaultyCreate(p) ==
  LET file == IF keyFile = Absent THEN p ELSE keyFile
  IN  /\ GoOn(p, "create", "fill")
      /\ keyFile' = file
      /\ holds' = [holds EXCEPT ![file] = Short, ![p] = Short]
      /\ UNCHANGED <<key, repairs>>

\* os.open with O_CREAT | O_EXCL: one process creates the file, empty; any other
\* looks again.
Create(p) ==
  /\ IF keyFile = Absent
     THEN /\ GoOn(p, "create", "fill")
          /\ keyFile' = p
          /\ holds' = [holds EXCEPT ![p] = Short]
     ELSE GoOn(p, "create", "look") /\ UNCHANGED <<keyFile, holds>>
  /\ UNCHANGED <<key, repairs>>

\* The key goes into the file the process created, whatever has the name now.
Fill(p) ==
  /\ GoOn(p, "fill", "reread")
  /\ holds' = [holds EXCEPT ![p] = p]
  /\ UNCHANGED <<keyFile, key, repairs>>

\* _write_key_atomic: a new key in a temporary file, ...
Draw(p) ==
  /\ GoOn(p, "draw", "replace")
  /\ holds' = [holds EXCEPT ![p] = p]
  /\ UNCHANGED <<keyFile, key, repairs>>

\* ... which then takes the name.
Replace(p) ==
  /\ GoOn(p, "replace", "reread")
  /\ keyFile' = p
  /\ repairs' = repairs \cup {p}
  /\ UNCHANGED <<holds, key>>

\* Whoever wrote a key returns what the name reads as by then.
Reread(p) ==
  /\ GoOn(p, "reread", "done")
  /\ Resolve(p, holds[keyFile])
  /\ UNCHANGED <<keyFile, holds, repairs>>

Die(p) ==
  /\ p \in Mortal
  /\ step[p] \notin {"done", "dead"}
  /\ step' = [step EXCEPT ![p] = "dead"]
  /\ UNCHANGED <<keyFile, holds, key, repairs>>

KeyNext ==
  \E p \in Processes :
    Look(p) \/ ReadKey(p) \/ Create(p) \/ Fill(p) \/ Draw(p) \/ Replace(p)
    \/ Reread(p) \/ Die(p)

KeySpec == KeyInit /\ [][KeyNext]_keyVars

--------------------------------------------------------------------------------
Resolved == {p \in Processes \ Injected : step[p] = "done"}

\* Processes that race for the first use agree on one key, unless somebody
\* replaced a file it had read too short: every key beyond the first is the key
\* of such a repair (signing.py:72-95).
KeysComeFromRepairs ==
  \E first \in Files : \A p \in Resolved : key[p] \in repairs \cup {first}

\* The comment at signing.py:83-85: O_EXCL "so two processes racing the first-use
\* creation don't clobber each other", fsync "so the file is not observed empty
\* by a racer".
RacersAgree == \A p, q \in Resolved : key[p] = key[q]
================================================================================
