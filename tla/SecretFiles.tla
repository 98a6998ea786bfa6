---------------------------- MODULE SecretFiles ----------------------------
(***************************************************************************)
(* The plaintext of Secrets being edited, on the disk (private_file, the   *)
(* drop of a SecretEdit and sweep_abandoned of src/src/app/secret_edit.rs):*)
(* each edit has a directory of its own with a lock file its owner holds,  *)
(* each start of sofka sweeps what no running sofka holds.                 *)
(*                                                                         *)
(* A process is what runs at one place: a terminal, a user, one sofka at a *)
(* time. Directories are numbered as they are made, and none is remade: a  *)
(* name has the process id, the time and a counter in it.                  *)
(***************************************************************************)
EXTENDS Naturals

CONSTANTS
  Procs,
  Nobody,
  MaxDirs  \* bound: directories ever made

SecretFilesAssumption == Nobody \notin Procs /\ MaxDirs \in Nat

VARIABLES
  entries, \* entries[d]: the files in directory d
  there,   \* the directories that exist
  aged,     \* those last modified more than UNLOCKED_GRACE ago
  by,      \* by[d]: the running process that made d, if it still runs
  holder,  \* holder[d]: who holds the lock on d's lock file
  made,    \* directories made so far
  at,      \* at[p]: where p's event loop is
  mine,    \* mine[p]: the directory of its edit, 0 for none
  sweep    \* sweep[p]: where its sweeping thread is; and, for the properties, what it owes

disk == <<entries, there, aged>>
vars == <<entries, there, aged, by, holder, made, at, mine, sweep>>

Dirs == 1 .. MaxDirs
Lock == "owner.lock"
Staging == "owner.lock.new"
Secret == "secret.yaml"

Rests == [step |-> "lists", todo |-> {}, dir |-> 0, owes |-> {}]

Init ==
  /\ entries = [d \in Dirs |-> {}] /\ there = {} /\ aged = {}
  /\ by = [d \in Dirs |-> Nobody] /\ holder = [d \in Dirs |-> Nobody]
  /\ made = 0
  /\ at = [p \in Procs |-> "off"] /\ mine = [p \in Procs |-> 0]
  /\ sweep = [p \in Procs |-> Rests]

\* A file comes or goes: the directory is modified.
Put(d, files) ==
  /\ entries' = [entries EXCEPT ![d] = files]
  /\ aged' = aged \ {d}

Goes(p, from, to) == at[p] = from /\ at' = [at EXCEPT ![p] = to]

-----------------------------------------------------------------------------
(* private_file: one system call after the other.                          *)

MakeDir(p) ==
  /\ Goes(p, "idle", "made") /\ made < MaxDirs
  /\ made' = made + 1 /\ there' = there \cup {made'}
  /\ mine' = [mine EXCEPT ![p] = made'] /\ by' = [by EXCEPT ![made'] = p]
  /\ UNCHANGED <<entries, aged, holder, sweep>>

\* Mutant: the lock file has its name before it is locked.
OpenNamed(p) ==
  /\ Goes(p, "made", "opened")
  /\ Put(mine[p], {Lock})
  /\ UNCHANGED <<there, by, holder, made, mine, sweep>>

OpenStaging(p) ==
  /\ Goes(p, "made", "opened")
  /\ Put(mine[p], {Staging})
  /\ UNCHANGED <<there, by, holder, made, mine, sweep>>

TakeLock(p) ==
  /\ Goes(p, "opened", "locked") /\ holder[mine[p]] = Nobody
  /\ holder' = [holder EXCEPT ![mine[p]] = p]
  /\ UNCHANGED <<disk, by, made, mine, sweep>>

RenameLock(p) ==
  /\ Goes(p, "locked", "named")
  /\ Put(mine[p], {Lock})
  /\ UNCHANGED <<there, by, holder, made, mine, sweep>>

\* create_private, of a new edit and of one that is opened again.
WriteSecret(p) ==
  /\ at[p] \in {"named", "closed"} /\ at' = [at EXCEPT ![p] = "editor"]
  /\ Put(mine[p], entries[mine[p]] \cup {Secret})
  /\ UNCHANGED <<there, by, holder, made, mine, sweep>>

\* drop of the SecretEdit, or of the lock alone when a step above failed: the lock goes
\* first, then the directory.
Release(p) ==
  /\ at' = [at EXCEPT ![p] = "removes"]
  /\ holder' = [d \in Dirs |-> IF d = mine[p] /\ holder[d] = p THEN Nobody ELSE holder[d]]
  /\ UNCHANGED <<disk, by, made, mine, sweep>>

CreateFails(p) == at[p] \in {"made", "opened", "locked", "named"} /\ Release(p)

-----------------------------------------------------------------------------
(* finish_secret_edit                                                      *)

\* The file goes as soon as it is read.
EditorCloses(p) ==
  /\ Goes(p, "editor", "closed")
  /\ Put(mine[p], entries[mine[p]] \ {Secret})
  /\ UNCHANGED <<there, by, holder, made, mine, sweep>>

\* Mutant: nothing is dropped but the state in memory.
ForgetEdit(p) ==
  /\ Goes(p, "editor", "idle")
  /\ holder' = [holder EXCEPT ![mine[p]] = Nobody] /\ mine' = [mine EXCEPT ![p] = 0]
  /\ UNCHANGED <<disk, by, made, sweep>>

\* command_failure: the edit is dropped with its file.
EditorFails(p) == at[p] = "editor" /\ Release(p)

EditEnds(p) == at[p] = "closed" /\ Release(p)

\* remove_dir_all(d): whatever is in it, in the order the directory lists it.
RemovesFrom(d) ==
  \E f \in entries[d] :
    /\ Put(d, entries[d] \ {f})
    /\ UNCHANGED there

RemovesEmpty(d) ==
  /\ entries[d] = {}
  /\ there' = there \ {d} /\ aged' = aged \ {d}
  /\ UNCHANGED entries

RemoveFile(p) ==
  /\ at[p] = "removes" /\ RemovesFrom(mine[p])
  /\ UNCHANGED <<by, holder, made, at, mine, sweep>>

RemoveDir(p) ==
  /\ Goes(p, "removes", "idle") /\ RemovesEmpty(mine[p])
  /\ mine' = [mine EXCEPT ![p] = 0]
  /\ UNCHANGED <<by, holder, made, sweep>>

-----------------------------------------------------------------------------
(* sweep_abandoned_in, on a thread of its own at each start.               *)

Sweeps(p, from, step, todo, d) ==
  /\ sweep[p].step = from
  /\ sweep' = [sweep EXCEPT ![p].step = step, ![p].todo = todo, ![p].dir = d]
  /\ UNCHANGED <<by, made, at, mine>>

Rest(p, d) == sweep[p].todo \ {d}

\* Goes for d: from now on no other sweep owes it.
GoesFor(p, step, d) ==
  /\ sweep[p].step = "lists"
  /\ sweep' = [q \in Procs |->
       IF q = p THEN [sweep[p] EXCEPT !.step = step, !.todo = Rest(p, d), !.dir = d]
       ELSE [sweep[q] EXCEPT !.owes = @ \ {d}]]
  /\ UNCHANGED <<by, made, at, mine>>

Locked(d) == Lock \in entries[d]

\* abandoned: somebody else has the lock, or the directory is still being made.
SweepSkips(p, d) ==
  /\ d \in sweep[p].todo
  /\ \/ d \notin there
     \/ Locked(d) /\ holder[d] # Nobody
     \/ ~Locked(d) /\ d \notin aged
  /\ Sweeps(p, "lists", "lists", Rest(p, d), 0)
  /\ UNCHANGED <<disk, holder>>

\* The lock can be had: nobody is editing.
SweepTakesLock(p, d) ==
  /\ d \in sweep[p].todo /\ d \in there /\ Locked(d) /\ holder[d] = Nobody
  /\ GoesFor(p, "has", d)
  /\ holder' = [holder EXCEPT ![d] = p]
  /\ UNCHANGED disk

\* Mutant: a directory that has no lock is left alone.
SweepLeavesUnlocked(p, d) ==
  /\ d \in sweep[p].todo /\ d \in there /\ ~Locked(d) /\ d \in aged
  /\ Sweeps(p, "lists", "lists", Rest(p, d), 0)
  /\ UNCHANGED <<disk, holder>>

SweepFindsOld(p, d) ==
  /\ d \in sweep[p].todo /\ d \in there /\ ~Locked(d) /\ d \in aged
  /\ GoesFor(p, "removes", d)
  /\ UNCHANGED <<disk, holder>>

\* abandoned returns, and the lock is dropped.
SweepReleases(p) ==
  /\ Sweeps(p, "has", "removes", sweep[p].todo, sweep[p].dir)
  /\ holder' = [d \in Dirs |->
                  IF d = sweep[p].dir /\ holder[d] = p THEN Nobody ELSE holder[d]]
  /\ UNCHANGED disk

SweepRemovesFile(p) ==
  /\ sweep[p].step = "removes" /\ RemovesFrom(sweep[p].dir)
  /\ UNCHANGED <<by, holder, made, at, mine, sweep>>

SweepRemovesDir(p) ==
  /\ Sweeps(p, "removes", "lists", sweep[p].todo, 0)
  /\ RemovesEmpty(sweep[p].dir)
  /\ UNCHANGED holder

-----------------------------------------------------------------------------
(* Processes come and go.                                                  *)

\* Plaintext that nobody edits; and what of it a sweep that starts now has to remove.
Abandoned(d) == Secret \in entries[d] /\ by[d] = Nobody

Due == {d \in there : /\ Abandoned(d) /\ holder[d] = Nobody /\ (Locked(d) \/ d \in aged)
                      /\ \A q \in Procs : sweep[q].dir # d}

Start(p) ==
  /\ Goes(p, "off", "idle")
  /\ sweep' = [sweep EXCEPT ![p].todo = there, ![p].owes = Due]
  /\ UNCHANGED <<disk, by, holder, made, mine>>

\* The locks of a process go with it, and so do its threads.
Ends(p) ==
  /\ at' = [at EXCEPT ![p] = "off"] /\ mine' = [mine EXCEPT ![p] = 0]
  /\ sweep' = [sweep EXCEPT ![p] = Rests]
  /\ by' = [d \in Dirs |-> IF by[d] = p THEN Nobody ELSE by[d]]
  /\ holder' = [d \in Dirs |-> IF holder[d] = p THEN Nobody ELSE holder[d]]
  /\ UNCHANGED <<disk, made>>

Quit(p) == at[p] = "idle" /\ Ends(p)
Crash(p) == at[p] \notin {"off", "idle"} /\ Ends(p)

\* UNLOCKED_GRACE passes; a directory is made in less.
Ages(d) ==
  /\ d \in there \ aged
  /\ ~ \E p \in Procs : mine[p] = d /\ at[p] \in {"made", "opened", "locked"}
  /\ aged' = aged \cup {d}
  /\ UNCHANGED <<entries, there, by, holder, made, at, mine, sweep>>

Edits(p) ==
  \/ MakeDir(p) \/ OpenStaging(p) \/ TakeLock(p) \/ RenameLock(p) \/ WriteSecret(p)
  \/ CreateFails(p)
  \/ EditorCloses(p) \/ EditorFails(p) \/ EditEnds(p)
  \/ RemoveFile(p) \/ RemoveDir(p)

SweepRemoves(p) == SweepRemovesFile(p) \/ SweepRemovesDir(p)

SweepSteps(p) ==
  \/ \E d \in Dirs : SweepSkips(p, d) \/ SweepTakesLock(p, d) \/ SweepFindsOld(p, d)
  \/ SweepReleases(p) \/ SweepRemoves(p)

Next ==
  \/ \E p \in Procs : Edits(p) \/ SweepSteps(p) \/ Start(p) \/ Quit(p) \/ Crash(p)
  \/ \E d \in Dirs : Ages(d)

Spec == Init /\ [][Next]_vars

-----------------------------------------------------------------------------
(* What a reader of the disk may find.                                     *)

\* No sweep touches an edit a running sofka has open, and a running sofka has the
\* plaintext of no edit but that one on the disk: on every way out of the editor, of a
\* failed creation and of a reopened document, the file goes.
EditsAccounted ==
  /\ \A p \in Procs :
       at[p] \in {"editor", "closed"} =>
         /\ mine[p] \in there /\ Lock \in entries[mine[p]] /\ holder[mine[p]] = p
         /\ (Secret \in entries[mine[p]]) = (at[p] = "editor")
  /\ \A d \in Dirs :
       Secret \in entries[d] /\ by[d] # Nobody => mine[by[d]] = d

\* When a sweep comes to its end, what sofkas that were killed had left at its start is
\* gone, but for what another sweep went for, and what had lost its lock not long ago.
SweepsDone ==
  \A p \in Procs :
    sweep[p].step = "lists" /\ sweep[p].todo = {} =>
      \A d \in sweep[p].owes : Secret \notin entries[d]
=============================================================================
