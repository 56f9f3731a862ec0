------------------------------ MODULE Storage -------------------------------
(***************************************************************************)
(* Core::Storage::Storage (src/Storage/Storage.cpp): a thin object around   *)
(* one LevelDB (or RocksDB) database, and the database directories it works *)
(* on.                                                                      *)
(*                                                                         *)
(* A database directory is absent (no CURRENT file: DB::Open without        *)
(* create_if_missing refuses it), damaged (it exists but files are missing: *)
(* neither Open nor a create with error_if_exists succeeds) or present with *)
(* a map from keys to values.  An open database holds LevelDB's LOCK file,  *)
(* so at most one Storage object has a path open and every other Open,      *)
(* create or DestroyDB of the path fails at once instead of waiting.        *)
(*                                                                         *)
(* Each operation comes as the action of its success and, where it can     *)
(* fail, the action of its failure; what a caller does on either is the     *)
(* caller's business.  The failures the environment causes (a system call   *)
(* that returns an error) happen only when "io" is in Faults.               *)
(***************************************************************************)
EXTENDS Naturals

CONSTANTS
    Paths,      \* the database directories
    Procs,      \* the processes, each with at most one live Storage object
    NoPath,     \* the value of a null _db pointer
    Faults      \* the faults of the environment: "io", "crash", "crypto"

ASSUME NoPathAssumption == NoPath \notin Paths

VARIABLES
    disk,       \* disk[path]: what is in the directory, kept across crashes
    db          \* db[p]: the path p's Storage object has open (its _db)

storageVars == <<disk, db>>

NoKeys == [key \in {} |-> key]

Absent == [state |-> "absent", kv |-> NoKeys]
Damaged == [state |-> "damaged", kv |-> NoKeys]
Present(kv) == [state |-> "present", kv |-> kv]

IsPresent(path) == disk[path].state = "present"

\* LevelDB's LOCK file is held while some Storage object has the path open.
Locked(path) == \E p \in Procs : db[p] = path

\* WriteBatch of Puts, applied as a whole.
Put(kv, batch) ==
    [key \in (DOMAIN kv) \cup (DOMAIN batch) |->
        IF key \in DOMAIN batch THEN batch[key] ELSE kv[key]]

-----------------------------------------------------------------------------

\* Storage::create, success: create_if_missing and error_if_exists.
CreateDB(p, path) ==
    /\ db[p] = NoPath
    /\ disk[path].state = "absent"
    /\ ~Locked(path)
    /\ disk' = [disk EXCEPT ![path] = Present(NoKeys)]
    /\ db' = [db EXCEPT ![p] = path]

\* Storage::create, failure.  The path is taken or locked and nothing
\* changes; or a system call failed, before or after the empty database came
\* into existence.
CreateDBFails(p, path) ==
    /\ \/ /\ db[p] # NoPath \/ disk[path].state # "absent" \/ Locked(path)
          /\ UNCHANGED disk
       \/ /\ "io" \in Faults
          /\ disk[path].state = "absent"
          /\ disk' \in {disk, [disk EXCEPT ![path] = Present(NoKeys)]}
    /\ UNCHANGED db

\* Storage::open, success.
OpenDB(p, path) ==
    /\ db[p] = NoPath
    /\ IsPresent(path)
    /\ ~Locked(path)
    /\ db' = [db EXCEPT ![p] = path]
    /\ UNCHANGED disk

\* Storage::open, failure.
OpenDBFails(p, path) ==
    /\ \/ db[p] # NoPath
       \/ ~IsPresent(path)
       \/ Locked(path)
       \/ "io" \in Faults
    /\ UNCHANGED disk

CloseDB_Leak(p) == UNCHANGED db

\* Storage::close and the destructor: the database object is deleted and the
\* LOCK released.
CloseDB(p) == db' = [db EXCEPT ![p] = NoPath]

\* Storage::set, success: one synchronous write of the batch.
SetKeys(p, batch) ==
    disk' = [disk EXCEPT ![db[p]] = Present(Put(@.kv, batch))]

\* Two writes instead of one batch: the failure of the second keeps the first.
SetKeysFails_NoBatch(p, batch) ==
    /\ "io" \in Faults
    /\ \E done \in SUBSET DOMAIN batch :
        disk' = [disk EXCEPT ![db[p]] =
                    Present(Put(@.kv, [key \in done |-> batch[key]]))]

\* Storage::set, failure: after a failed write or sync of the log the batch
\* may or may not be found when the database is opened again, but never a
\* part of it.
SetKeysFails(p, batch) ==
    /\ "io" \in Faults
    /\ \/ UNCHANGED disk
       \/ SetKeys(p, batch)

\* What DestroyDB leaves when it is cut short: it deletes file by file.
HalfRemoved(path) ==
    IF disk[path].state = "absent"
    THEN {Absent}
    ELSE {disk[path], Damaged, Absent}

DestroyDB_Unlocked(path) == disk' = [disk EXCEPT ![path] = Absent]

\* Storage::remove, success; a directory that does not exist is no error.
DestroyDB(path) ==
    /\ ~Locked(path)
    /\ disk' = [disk EXCEPT ![path] = Absent]

\* Storage::remove, failure: the path is locked, or a deletion failed.
DestroyDBFails(path) ==
    \/ /\ Locked(path)
       /\ UNCHANGED disk
    \/ /\ "io" \in Faults
       /\ ~Locked(path)
       /\ \E left \in HalfRemoved(path) :
            disk' = [disk EXCEPT ![path] = left]

=============================================================================
