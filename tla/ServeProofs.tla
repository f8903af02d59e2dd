----------------------------- MODULE ServeProofs -----------------------------
(***************************************************************************)
(* The safety of Serve for any processes, releases and syncs: type         *)
(* correctness, SchemaFits, RunsMigrated and SignalStopsRound.             *)
(***************************************************************************)
EXTENDS Serve, TLAPS

-----------------------------------------------------------------------------
(* The inductive invariant. *)

(* The advisory lock belongs to the one process that migrates. *)
LockInv == \A p \in Procs : pc[p] \in Locked <=> holder = p

(* The tables lag behind the version by one migration at most, and only    *)
(* while it is dirty.                                                      *)
DatabaseInv ==
    /\ ~dirty => schema = version
    /\ dirty => schema = version \/ schema = version - 1

(* Where the one that migrates stands in the migration. *)
MigratorInv ==
    \A p \in Procs :
        /\ pc[p] = "pending" => ~dirty /\ version <= Release[p]
        /\ pc[p] = "apply" => dirty /\ schema = version - 1 /\ version <= Release[p]
        /\ pc[p] = "applied" => dirty /\ schema = version /\ version <= Release[p]

(* A process that has left MigrateUp found its migrations applied, and     *)
(* they stay applied.                                                      *)
BootedInv ==
    \A p \in Procs :
        pc[p] \in Looping \cup {"booted"} =>
            /\ schema >= Release[p]
            /\ dirty => version > Release[p]

SignalInv ==
    \A p \in Procs :
        /\ signalled[p] => command[p] = "serve" /\ pc[p] \in Looping
        /\ begun[p] > 0 => signalled[p] /\ pc[p] # "enter"
        /\ begun[p] <= 1

IInv ==
    /\ TypeOK
    /\ LockInv
    /\ DatabaseInv
    /\ MigratorInv
    /\ BootedInv
    /\ SignalInv

-----------------------------------------------------------------------------
(* Sequences of syncs. *)

(* The configured syncs, one of them alone, and what is left of a round    *)
(* are sequences of configured syncs.                                      *)
LEMMA SyncsType ==
    /\ Syncs \in Seq(Range(Syncs))
    /\ \A n \in Range(Syncs) : <<n>> \in Seq(Range(Syncs))
  BY ServeAssumption DEF ServeAssumption, Range

(* The rest of a non-empty round, however its first sync ended. *)
LEMMA RestType ==
    ASSUME NEW list \in Seq(Range(Syncs)), list # <<>>, NEW ok
    PROVE  Rest(list, ok) \in Seq(Range(Syncs))
  BY DEF Rest

-----------------------------------------------------------------------------
(* The steps. *)

LEMMA InitIInv == Init => IInv
  <1> SUFFICES ASSUME Init PROVE IInv
    OBVIOUS
  <1> USE ServeAssumption DEF ServeAssumption, Init
  <1>1. version \in Nat
    BY DEF Range
  <1>2. <<>> \in Seq(Range(Syncs))
    OBVIOUS
  <1>3. TypeOK
    BY <1>1, <1>2 DEF TypeOK, Booting, Looping
  <1>4. LockInv /\ DatabaseInv /\ MigratorInv /\ BootedInv /\ SignalInv
    BY <1>1 DEF LockInv, Locked, DatabaseInv, MigratorInv, BootedInv, Looping, SignalInv
  <1> QED
    BY <1>3, <1>4 DEF IInv

(* A process that ends, at any point, leaves a database that the others    *)
(* can deal with.                                                          *)
LEMMA ExitStep ==
    ASSUME IInv, NEW p \in Procs, pc[p] # "down", Exit(p)
    PROVE  IInv'
  <1> USE ServeAssumption DEF ServeAssumption, IInv, Exit, Goto, database
  <1>1. TypeOK'
    BY DEF TypeOK, Booting, Looping
  <1>2. LockInv'
    BY DEF TypeOK, LockInv, Locked
  <1>3. DatabaseInv' /\ MigratorInv' /\ BootedInv' /\ SignalInv'
    BY DEF TypeOK, DatabaseInv, MigratorInv, BootedInv, Looping, SignalInv
  <1> QED
    BY <1>1, <1>2, <1>3

LEMMA EnvironmentStep ==
    ASSUME IInv,
           \/ ForceVersion
           \/ \E s \in Range(Syncs) : Stall(s)
           \/ \E p \in Procs : Start(p) \/ Kill(p) \/ Signal(p) \/ Tick(p)
    PROVE  IInv'
  <1> USE ServeAssumption DEF ServeAssumption
  <1>1. CASE ForceVersion
    <2>1. \A p \in Procs : pc[p] \notin Locked
      BY <1>1 DEF IInv, TypeOK, LockInv, ForceVersion
    <2> QED
      BY <1>1, <2>1 DEF IInv, ForceVersion, TypeOK, LockInv, Locked, DatabaseInv, MigratorInv,
                        BootedInv, Looping, SignalInv, loop
  <1>2. ASSUME NEW s \in Range(Syncs), Stall(s) PROVE IInv'
    BY <1>2 DEF IInv, Stall, TypeOK, LockInv, DatabaseInv, MigratorInv, BootedInv, SignalInv,
                database, loop
  <1>3. ASSUME NEW p \in Procs, Start(p) PROVE IInv'
    <2> USE <1>3 DEF IInv, Start, Goto, database
    <2>1. todo' \in [Procs -> Seq(Range(Syncs))] /\ command' \in [Procs -> {"serve", "sync"}]
      <3>1. PICK c \in {"serve", "sync"}, s \in {Syncs} \cup {<<n>> : n \in Range(Syncs)} :
                /\ command' = [command EXCEPT ![p] = c]
                /\ todo' = [todo EXCEPT ![p] = s]
        OBVIOUS
      <3>2. s \in Seq(Range(Syncs))
        <4>1. CASE s = Syncs
          BY <4>1, SyncsType
        <4>2. ASSUME NEW n \in Range(Syncs), s = <<n>> PROVE s \in Seq(Range(Syncs))
          BY <4>2, SyncsType
        <4> QED
          BY <4>1, <4>2
      <3> QED
        BY <3>1, <3>2 DEF TypeOK
    <2>2. TypeOK'
      BY <2>1 DEF TypeOK, Booting, Looping
    <2>3. \A q \in Procs : q # p => pc'[q] = pc[q] /\ command'[q] = command[q]
      BY DEF TypeOK
    <2>4. pc'[p] = "waiting"
      BY DEF TypeOK
    <2> QED
      BY <2>2, <2>3, <2>4 DEF TypeOK, LockInv, Locked, DatabaseInv, MigratorInv, BootedInv,
                              Looping, SignalInv
  <1>4. ASSUME NEW p \in Procs, Kill(p) PROVE IInv'
    BY <1>4, ExitStep DEF Kill
  <1>5. ASSUME NEW p \in Procs, Signal(p) PROVE IInv'
    BY <1>5 DEF IInv, Signal, TypeOK, LockInv, DatabaseInv, MigratorInv, BootedInv, SignalInv,
                database
  <1>6. ASSUME NEW p \in Procs, Tick(p) PROVE IInv'
    BY <1>6 DEF IInv, Tick, TypeOK, LockInv, DatabaseInv, MigratorInv, BootedInv, SignalInv,
                database
  <1> QED
    BY <1>1, <1>2, <1>3, <1>4, <1>5, <1>6

LEMMA BootStep ==
    ASSUME IInv, NEW p \in Procs, Boot(p)
    PROVE  IInv'
  <1> USE ServeAssumption DEF ServeAssumption, IInv
  <1>1. CASE Lock(p)
    BY <1>1 DEF Lock, MayLock, Goto, TypeOK, LockInv, Locked, DatabaseInv, MigratorInv,
                BootedInv, Booting, Looping, SignalInv, database, loop
  <1>2. CASE LockTimesOut(p)
    BY <1>2, ExitStep DEF LockTimesOut
  <1>3. CASE ReadVersion(p)
    <2>1. CASE Refuses(p)
      BY <1>3, <2>1, ExitStep DEF ReadVersion
    <2>2. CASE ~Refuses(p)
      <3> USE <1>3, <2>2 DEF ReadVersion, Refuses, Goto, database, loop
      <3>1. ~dirty /\ version <= Release[p]
        BY DEF TypeOK
      <3>2. pc' = [pc EXCEPT ![p] = "pending"]
             /\ UNCHANGED <<database, holder, stalled, command, loop>>
        OBVIOUS
      <3>3. TypeOK'
        BY <3>2 DEF TypeOK, Booting
      <3>4. LockInv' /\ SignalInv'
        BY <3>2 DEF TypeOK, LockInv, Locked, Looping, SignalInv
      <3>5. DatabaseInv' /\ MigratorInv' /\ BootedInv'
        BY <3>1, <3>2 DEF TypeOK, DatabaseInv, MigratorInv, BootedInv, Looping
      <3> QED
        BY <3>3, <3>4, <3>5
    <2> QED
      BY <2>1, <2>2
  <1>4. ASSUME pc[p] \in Locked
        PROVE  \A q \in Procs : q # p => pc[q] \notin Locked
    BY <1>4 DEF LockInv
  <1>5. CASE MarkDirty(p)
    <2> USE <1>5 DEF MarkDirty, Goto, loop
    <2>1. pc[p] \in Locked /\ \A q \in Procs : q # p => pc[q] \notin Locked
      BY <1>4 DEF Locked
    <2>2. TypeOK' /\ LockInv' /\ SignalInv'
      BY <2>1 DEF TypeOK, LockInv, Locked, Booting, Looping, SignalInv
    <2>3. DatabaseInv' /\ MigratorInv' /\ BootedInv'
      BY <2>1 DEF TypeOK, Locked, DatabaseInv, MigratorInv, BootedInv, Looping
    <2> QED
      BY <2>2, <2>3
  <1>6. CASE Apply(p)
    <2>1. pc[p] = "apply" /\ schema = version - 1
      BY <1>6 DEF Apply, MigratorInv
    <2>2. pc[p] \in Locked /\ \A q \in Procs : q # p => pc[q] \notin Locked
      BY <2>1, <1>4 DEF Locked
    <2> USE <1>6, <2>1, <2>2 DEF Apply, Goto, loop
    <2>3. TypeOK' /\ LockInv' /\ SignalInv'
      BY DEF TypeOK, LockInv, Locked, Booting, Looping, SignalInv
    <2>4. DatabaseInv' /\ MigratorInv' /\ BootedInv'
      BY DEF TypeOK, Locked, DatabaseInv, MigratorInv, BootedInv, Looping
    <2> QED
      BY <2>3, <2>4
  <1>7. CASE MarkClean(p)
    <2> USE <1>7 DEF MarkClean, Goto, loop
    <2>1. pc[p] \in Locked /\ \A q \in Procs : q # p => pc[q] \notin Locked
      BY <1>4 DEF Locked
    <2>2. TypeOK' /\ LockInv' /\ SignalInv'
      BY <2>1 DEF TypeOK, LockInv, Locked, Booting, Looping, SignalInv
    <2>3. DatabaseInv' /\ MigratorInv' /\ BootedInv'
      BY <2>1 DEF TypeOK, Locked, DatabaseInv, MigratorInv, BootedInv, Looping
    <2> QED
      BY <2>2, <2>3
  <1>8. CASE Unlock(p)
    <2> USE <1>8 DEF Unlock, Goto, loop, database
    <2>1. pc[p] \in Locked /\ \A q \in Procs : q # p => pc[q] \notin Locked
      BY <1>4 DEF Locked
    <2>2. TypeOK' /\ LockInv' /\ SignalInv'
      BY <2>1 DEF TypeOK, LockInv, Locked, Booting, Looping, SignalInv
    <2>3. DatabaseInv' /\ MigratorInv' /\ BootedInv'
      BY <2>1 DEF TypeOK, Locked, DatabaseInv, MigratorInv, BootedInv, Looping
    <2> QED
      BY <2>2, <2>3
  <1>9. CASE OpenStore(p)
    BY <1>9 DEF OpenStore, Goto, TypeOK, LockInv, Locked, DatabaseInv, MigratorInv,
                BootedInv, Booting, Looping, SignalInv, database, loop
  <1> QED
    BY <1>1, <1>2, <1>3, <1>5, <1>6, <1>7, <1>8, <1>9 DEF Boot

(* A step of the loop stays in the loop or ends the process; it touches    *)
(* neither the database nor the lock.                                      *)
LEMMA RunStep ==
    ASSUME IInv, NEW p \in Procs, Run(p)
    PROVE  IInv'
  <1> USE ServeAssumption DEF ServeAssumption, IInv, Goto, database, loop
  <1>1. ASSUME UNCHANGED <<database, holder>>, pc[p] \in Looping,
               NEW where \in Looping, pc' = [pc EXCEPT ![p] = where]
        PROVE  LockInv' /\ DatabaseInv' /\ MigratorInv' /\ BootedInv'
    BY <1>1 DEF TypeOK, LockInv, Locked, DatabaseInv, MigratorInv, BootedInv, Looping
  <1>2. CASE CheckContext(p)
    <2>1. CASE Stops(p)
      <3>1. <<>> \in Seq(Range(Syncs))
        OBVIOUS
      <3>2. TypeOK' /\ SignalInv'
        BY <1>2, <2>1, <3>1 DEF CheckContext, TypeOK, Booting, Looping, SignalInv
      <3> QED
        BY <1>1, <1>2, <2>1, <3>2 DEF CheckContext, Looping
    <2>2. CASE ~Stops(p)
      <3>1. TypeOK' /\ SignalInv'
        BY <1>2, <2>2 DEF CheckContext, RoundOver, Stops, TypeOK, Booting, Looping, SignalInv
      <3> QED
        BY <1>1, <1>2, <2>2, <3>1 DEF CheckContext, Looping
    <2> QED
      BY <2>1, <2>2
  <1>3. CASE BeginSync(p)
    <2>1. TypeOK' /\ SignalInv'
      BY <1>3 DEF BeginSync, TypeOK, Booting, Looping, SignalInv
    <2> QED
      BY <1>1, <1>3, <2>1 DEF BeginSync, Looping
  <1>4. CASE EndSync(p)
    <2>1. todo[p] \in Seq(Range(Syncs)) /\ todo[p] # <<>>
      BY <1>4 DEF EndSync, TypeOK
    <2>2. PICK ok \in BOOLEAN : todo' = [todo EXCEPT ![p] = Rest(todo[p], ok)]
      BY <1>4 DEF EndSync
    <2>3. todo' \in [Procs -> Seq(Range(Syncs))] /\ \A q \in Procs : q # p => todo'[q] = todo[q]
      BY <2>1, <2>2, RestType DEF TypeOK
    <2>4. TypeOK' /\ SignalInv'
      BY <1>4, <2>3 DEF EndSync, TypeOK, Booting, Looping, SignalInv
    <2> QED
      BY <1>1, <1>4, <2>4 DEF EndSync, Looping
  <1>5. CASE EndRound(p)
    <2>1. CASE command[p] = "sync" /\ Exit(p)
      BY <1>5, <2>1, ExitStep DEF EndRound
    <2>2. CASE command[p] = "serve" /\ pc' = [pc EXCEPT ![p] = "select"]
               /\ UNCHANGED <<database, holder, stalled, command, loop>>
      <3>1. TypeOK' /\ SignalInv'
        BY <1>5, <2>2 DEF EndRound, TypeOK, Booting, Looping, SignalInv
      <3> QED
        BY <1>1, <1>5, <2>2, <3>1 DEF EndRound, Looping
    <2> QED
      BY <1>5, <2>1, <2>2 DEF EndRound
  <1>6. CASE Done(p)
    BY <1>6, ExitStep DEF Done
  <1>7. CASE Ticked(p)
    <2>1. TypeOK' /\ SignalInv'
      BY <1>7, SyncsType DEF Ticked, TypeOK, Booting, Looping, SignalInv
    <2> QED
      BY <1>1, <1>7, <2>1 DEF Ticked, Looping
  <1> QED
    BY <1>2, <1>3, <1>4, <1>5, <1>6, <1>7 DEF Run

LEMMA NextIInv == IInv /\ [Next]_vars => IInv'
  <1> SUFFICES ASSUME IInv, [Next]_vars PROVE IInv'
    OBVIOUS
  <1>1. CASE UNCHANGED vars
    BY <1>1 DEF vars, IInv, TypeOK, LockInv, DatabaseInv, MigratorInv, BootedInv, SignalInv,
                database, loop
  <1>2. CASE Next
    BY <1>2, EnvironmentStep, BootStep, RunStep DEF Next
  <1> QED
    BY <1>1, <1>2

(* The lock, the tables, the migrator, booted processes and the signal     *)
(* keep to the invariant at every step of every process (migrate.go:21-45, *)
(* main.go:76-113 and 188-251).                                            *)
THEOREM Invariance == Spec => []IInv
  <1> QED
    BY InitIInv, NextIInv, PTL DEF Spec

-----------------------------------------------------------------------------
(* The theorems. *)

(* Every variable keeps its type, and a sync is begun only for a sync that *)
(* is left in the round, for any processes, releases and syncs.            *)
THEOREM ServeTypes == Spec => []TypeOK
  <1>1. IInv => TypeOK
    BY DEF IInv
  <1> QED
    BY <1>1, Invariance, PTL

(* However many processes of whatever releases boot together and die       *)
(* wherever they will, a migration meets the schema it was written for.    *)
THEOREM MigrationsFit == Spec => []SchemaFits
  <1>1. IInv => SchemaFits
    BY DEF IInv, MigratorInv, SchemaFits
  <1> QED
    BY <1>1, Invariance, PTL

(* No sync runs on tables older than its release or on a half-done         *)
(* migration of its own.                                                   *)
THEOREM SyncsRunMigrated == Spec => []RunsMigrated
  <1>1. IInv => RunsMigrated
    BY DEF IInv, BootedInv, RunsMigrated
  <1> QED
    BY <1>1, Invariance, PTL

(* At most one sync begins after the signal. *)
THEOREM SignalStops == Spec => []SignalStopsRound
  <1>1. IInv => SignalStopsRound
    BY DEF IInv, SignalInv, SignalStopsRound
  <1> QED
    BY <1>1, Invariance, PTL
=============================================================================
