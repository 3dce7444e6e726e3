--------------------------- MODULE KeyFileProofs ---------------------------
(***************************************************************************)
(* OneIdentity and FilesBelong, for any number of processes.               *)
(***************************************************************************)
EXTENDS KeyFile, TLAPS

Steps == {"off", "read", "done", "stopped"} \cup Storing

TypeOK ==
    /\ private \in Keys \cup {Absent, Broken}
    /\ public \in Keys \cup {Absent, Broken}
    /\ step \in [Procs -> Steps]
    /\ key \in [Procs -> Keys \cup {Absent}]
    /\ raced \in BOOLEAN

(* Without a race at most one process is storing a key, and how far it is   *)
(* decides what the files hold; nothing of ours is public before it is      *)
(* private, and a key that is stored is not its process's to read.          *)
OneStores ==
    \A p, q \in Procs : step[p] \in Storing /\ step[q] \in Storing => p = q

Progress ==
    \A p \in Procs :
        /\ step[p] = "generate" => private = Absent
        /\ step[p] = "write" => private = Broken
        /\ step[p] \in {"public", "write_public"} => private = p
        /\ step[p] = "public" => public \in Left
        /\ step[p] = "write_public" => public = Broken

PublicLast == private \in Left => public \in Left

Stored == \A p \in Procs : private = p => step[p] \notin {"off", "read"}

Handed == \A p \in Procs : step[p] = "done" => key[p] = private /\ key[p] \in Keys

Together ==
    /\ public \in Procs => public = private
    /\ \A p \in Procs : step[p] = "done" /\ key[p] = p => public = p

Quiet == OneStores /\ Progress /\ PublicLast /\ Stored /\ Handed /\ Together

IInv == TypeOK /\ (~raced => Quiet)

LEMMA Distinct == /\ Absent \notin Keys /\ Broken \notin Keys
                  /\ Old # Absent /\ Old # Broken /\ Absent # Broken
                  /\ Left \cap Procs = {}
  BY KeyFileAssumption DEF Keys, Left

LEMMA KeyInitial == KeyInit => IInv
  BY Distinct DEF KeyInit, IInv, TypeOK, Quiet, OneStores, Progress, PublicLast,
     Stored, Handed, Together, Left, Keys, Steps, Storing

(* The types are kept by every step. *)
LEMMA TypeStep ==
    ASSUME TypeOK, NEW p \in Procs, KeyStep(p) PROVE TypeOK'
  <1> USE DEF TypeOK, Steps, Storing, Goes, Keys
  <1>1. CASE Check(p) BY <1>1 DEF Check, Found, Keys
  <1>2. CASE ReadKey(p) BY <1>2 DEF ReadKey
  <1>3. CASE OpenPrivate(p) BY <1>3 DEF OpenPrivate
  <1>4. CASE WritePrivate(p) BY <1>4 DEF WritePrivate, WrittenOver
  <1>5. CASE OpenPublic(p) BY <1>5 DEF OpenPublic
  <1>6. CASE WritePublic(p) BY <1>6 DEF WritePublic, WrittenOver
  <1>7. CASE Stop(p) BY <1>7 DEF Stop
  <1> QED BY <1>1, <1>2, <1>3, <1>4, <1>5, <1>6, <1>7 DEF KeyStep

LEMMA QuietStep ==
    ASSUME IInv, NEW p \in Procs, KeyStep(p), ~raced' PROVE Quiet'
  <1>a. TypeOK BY DEF IInv
  <1>q. ~raced /\ Quiet
    BY <1>a DEF IInv, KeyStep, Check, ReadKey, OpenPrivate, WritePrivate,
       OpenPublic, WritePublic, Stop, TypeOK
  <1> USE <1>a, <1>q, Distinct
      DEF Quiet, OneStores, Progress, PublicLast, Stored, Handed, Together, Left, Storing, Goes, TypeOK
  <1>1. CASE Check(p) BY <1>1 DEF Check, Found, Keys
  <1>2. CASE ReadKey(p) BY <1>2 DEF ReadKey
  <1>3. CASE OpenPrivate(p) BY <1>3 DEF OpenPrivate
  <1>4. CASE WritePrivate(p) BY <1>4 DEF WritePrivate, WrittenOver, Keys
  <1>5. CASE OpenPublic(p) BY <1>5 DEF OpenPublic, Keys
  <1>6. CASE WritePublic(p) BY <1>6 DEF WritePublic, WrittenOver, Keys
  <1>7. CASE Stop(p) BY <1>7 DEF Stop
  <1> QED BY <1>1, <1>2, <1>3, <1>4, <1>5, <1>6, <1>7 DEF KeyStep

LEMMA KeyInductive == IInv /\ [KeyNext]_keyVars => IInv'
  <1> SUFFICES ASSUME IInv, [KeyNext]_keyVars PROVE IInv' OBVIOUS
  <1>1. CASE UNCHANGED keyVars
    BY <1>1 DEF keyVars, IInv, TypeOK, Quiet, OneStores, Progress, PublicLast, Stored, Handed, Together, Left
  <1>2. ASSUME NEW p \in Procs, KeyStep(p) PROVE IInv'
    BY <1>2, TypeStep, QuietStep DEF IInv
  <1> QED BY <1>1, <1>2 DEF KeyNext

THEOREM KeyInvariant == KeySpec => []IInv
  BY KeyInitial, KeyInductive, PTL DEF KeySpec

(* Unless two processes at once found no key, every process that has one    *)
(* has the one that is stored.                                              *)
THEOREM IdentityKept == KeySpec => []OneIdentity
  <1>1. IInv => OneIdentity BY DEF IInv, Quiet, Handed, OneIdentity
  <1> QED BY <1>1, KeyInvariant, PTL

(* And a public file of theirs is that of the private one; whoever returns  *)
(* a key it generated has replaced what was there.                          *)
THEOREM FilesTogether == KeySpec => []FilesBelong
  <1>1. IInv => FilesBelong BY DEF IInv, Quiet, Together, FilesBelong
  <1> QED BY <1>1, KeyInvariant, PTL

=============================================================================
