------------------------------ MODULE KeyFile ------------------------------
(***************************************************************************)
(* The host's identity on disk (src/src/auth/keyfile.rs): processes that   *)
(* call load_or_generate on the same two files, and may fail or be killed  *)
(* between any two system calls.  A key is named by the process that       *)
(* generated it.                                                           *)
(***************************************************************************)
EXTENDS Naturals

CONSTANTS
    Procs,          \* processes, each making one call
    Old,            \* the pair adb may have left there, or a part of it
    Absent,         \* no such file
    Broken          \* a file that holds no whole key

ASSUME KeyFileAssumption ==
    /\ {Old, Absent, Broken} \cap Procs = {}
    /\ Old # Absent /\ Old # Broken /\ Absent # Broken

VARIABLES
    private,        \* adbkey
    public,         \* adbkey.pub
    step,           \* where each process is
    key,            \* the HostKey it has returned
    raced           \* history: two processes at once had found no key

keyVars == <<private, public, step, key, raced>>

Keys == Procs \cup {Old}

Goes(p, s) == step' = [step EXCEPT ![p] = s]

(* paths.private.exists(): also of a file that holds no key. *)
FoundWhole == private \in Keys
Found == private # Absent

Check(p) ==
    /\ step[p] = "off"
    /\ Goes(p, IF Found THEN "read" ELSE "generate")
    /\ raced' = (raced \/ (~Found /\ \E q \in Procs : step[q] = "generate"))
    /\ UNCHANGED <<private, public, key>>

(* read_key: a file that is not a whole PEM is an error, whatever wrote it. *)
ReadKey(p) ==
    /\ step[p] = "read"
    /\ IF private \in Keys
       THEN Goes(p, "done") /\ key' = [key EXCEPT ![p] = private]
       ELSE Goes(p, "stopped") /\ UNCHANGED key
    /\ UNCHANGED <<private, public, raced>>

(* write_private: the file is created or truncated, and then written from   *)
(* its beginning; over a key of another process, which need not be of the   *)
(* same length, this may leave neither.                                     *)
WrittenOver(file, p) == IF file \in Keys \ {p} THEN {p, Broken} ELSE {p}

OpenPrivate(p) ==
    /\ step[p] = "generate" /\ Goes(p, "write")
    /\ private' = Broken
    /\ UNCHANGED <<public, key, raced>>

WritePrivate(p) ==
    /\ step[p] = "write" /\ Goes(p, "public")
    /\ private' \in WrittenOver(private, p)
    /\ UNCHANGED <<public, key, raced>>

OpenPublic(p) ==
    /\ step[p] = "public" /\ Goes(p, "write_public")
    /\ public' = Broken
    /\ UNCHANGED <<private, key, raced>>

WritePublic(p) ==
    /\ step[p] = "write_public" /\ Goes(p, "done")
    /\ public' \in WrittenOver(public, p)
    /\ key' = [key EXCEPT ![p] = p]
    /\ UNCHANGED <<private, raced>>

(* Killed, or a system call that fails. *)
Storing == {"generate", "write", "public", "write_public"}
Stop(p) ==
    /\ step[p] \in Storing \cup {"read"}
    /\ Goes(p, "stopped")
    /\ UNCHANGED <<private, public, key, raced>>

(* Whatever was left there: both files, either of them, broken ones, none.  *)
Left == {Absent, Old, Broken}

KeyInit ==
    /\ private \in Left /\ public \in Left
    /\ step = [p \in Procs |-> "off"] /\ key = [p \in Procs |-> Absent]
    /\ raced = FALSE

KeyStep(p) == \/ Check(p) \/ ReadKey(p) \/ OpenPrivate(p) \/ WritePrivate(p)
              \/ OpenPublic(p) \/ WritePublic(p) \/ Stop(p)

KeyNext == \E p \in Procs : KeyStep(p)

KeySpec == KeyInit /\ [][KeyNext]_keyVars

-----------------------------------------------------------------------------
(* Properties *)

(* Every process that has a key has the one that is stored, so all have the *)
(* same and a device asked once is asked no more; whatever is killed half   *)
(* way, and unless two processes at once found no key.                      *)
OneIdentity ==
    ~raced => \A p \in Procs : step[p] = "done" => key[p] = private

(* The two files belong together: a public file of one of these processes  *)
(* is that of the private one, and once a process has returned a key it     *)
(* generated, the public one is its own, whatever was there before: an      *)
(* adbkey.pub without its adbkey does not stay.                             *)
FilesBelong ==
    ~raced =>
    /\ public \in Procs => public = private
    /\ \A p \in Procs : step[p] = "done" /\ key[p] = p => public = p

=============================================================================
