------------------------- MODULE SecureStoreProofs -------------------------
(***************************************************************************)
(* Proofs about SecureStore, for any hosts, names, credentials and keys:   *)
(* commands of every kind overlap as they like, and each may die or fail   *)
(* anywhere.  StoreInv says which mode each process works in and which     *)
(* key it holds: the mode for every process that loaded the file in the    *)
(* form it has, the key as long as no switch ran beside another command of *)
(* the keyring.  KeptInv says where the secret of an entry is while it is  *)
(* promised (Told): in the file and in the store of every process, or in   *)
(* the store of the one process that runs and changes it.                  *)
(***************************************************************************)
EXTENDS SecureStore, FiniteSetTheorems, TLAPS

Stages == {"idle", "open", "apply", "migrate", "find", "mint", "write",
           "rename", "unkey"}

-----------------------------------------------------------------------------
(* The types, for any commands side by side.  A secret is moved out of an  *)
(* entry that is there, which the types alone do not say.                  *)

Moving    ==
    \A p \in Procs : pc[p] = "migrate" => \A e \in todo[p] : mem[p][e] # Absent
TypedDisk ==
    /\ disk \in [body : Store, seal : Keys \cup {Absent}]
    /\ ring \in [Entries -> Pair] /\ master \in Keys \cup {Absent}
    /\ stray \subseteq BOOLEAN /\ late \subseteq Procs /\ crossed \in BOOLEAN
    /\ saved \in [Entries -> Values \cup {Absent, Unknown}]
TypedProcs ==
    /\ pc \in [Procs -> Stages] /\ cmd \in [Procs -> Commands \cup {NoCommand}]
    /\ mem \in [Procs -> Store] /\ secure \in [Procs -> BOOLEAN]
    /\ todo \in [Procs -> SUBSET Entries] /\ key \in [Procs -> Keys \cup {Absent}]
Counted == commands \in 0..MaxCommands /\ faults \in 0..MaxFaults

TypeInv == TypedDisk /\ TypedProcs /\ Counted /\ Moving

LEMMA NamedCommand ==
    ASSUME NEW c \in Commands, c.op \in {"upsert", "remove"}
    PROVE  c.name \in Names /\ (c.op = "upsert" => c.cred \in Values)
  BY DEF Commands, Switches

LEMMA TypeInvTypes == TypeInv <=> TypeOK /\ Moving
  BY DEF TypeInv, TypedDisk, TypedProcs, Counted, TypeOK, Stages

(* What a host has in hand of an entry is of its type.                     *)
LEMMA EntryParts ==
    ASSUME SecureAssumption
    PROVE  /\ 0 \in Values /\ Absent \notin Entry
           /\ Blank \in Pair /\ Empty \in Store
           /\ \A x \in Entry : /\ x.secret \in Values /\ x.token \in Values
                               /\ PairOf(x) \in Pair
           /\ \A v \in Values : Cred(v) \in Pair /\ Given(v) \in Entry
<1>1. 0 \in Values
  BY DEF SecureAssumption, Values
<1> QED
  BY <1>1 DEF SecureAssumption, Blank, Pair, Empty, Store, Entry, PairOf, Cred, Given

LEMMA HydratedTyped ==
    ASSUME SecureAssumption, ring \in [Entries -> Pair], NEW e \in Entries, NEW lost,
           NEW x \in Entry \cup {Absent}
    PROVE  Hydrated(e, x, lost) \in Entry \cup {Absent}
<1>1. CASE x = Absent
  BY <1>1 DEF Hydrated
<1>2. CASE x \in Entry
  <2>1. ring[e].secret \in Values /\ ring[e].token \in Values
    BY DEF Pair
  <2> QED BY <1>2, <2>1 DEF Hydrated, Entry
<1> QED BY <1>1, <1>2

(* A process that leaves leaves nothing.                                   *)
LEMMA ExitTyped ==
    ASSUME SecureAssumption, TypedProcs, Moving, NEW p \in Procs, Exit(p)
    PROVE  TypedProcs' /\ Moving'
<1>1. /\ pc' \in [Procs -> Stages] /\ cmd' \in [Procs -> Commands \cup {NoCommand}]
      /\ secure' \in [Procs -> BOOLEAN]
      /\ todo' \in [Procs -> SUBSET Entries] /\ key' \in [Procs -> Keys \cup {Absent}]
  BY DEF Exit, TypedProcs, Stages
<1>2. mem' \in [Procs -> Store]
  BY EntryParts DEF Exit, TypedProcs
<1>3. Moving'
  BY DEF Exit, TypedProcs, Moving
<1> QED BY <1>1, <1>2, <1>3 DEF TypedProcs

LEMMA GiveUpTyped ==
    ASSUME SecureAssumption, TypeInv, NEW p \in Procs, GiveUp(p),
           faults' = faults \/ Fault, stray' \subseteq BOOLEAN
    PROVE  TypeInv'
<1>1. TypedProcs' /\ Moving'
  BY ExitTyped DEF GiveUp, TypeInv
<1>2. saved' \in [Entries -> Values \cup {Absent, Unknown}]
  BY DEF GiveUp, Forget, TypeInv, TypedDisk
<1>3. TypedDisk'
  BY <1>2 DEF GiveUp, TypeInv, TypedDisk, races
<1>4. Counted'
  BY DEF GiveUp, Fault, TypeInv, Counted, SecureAssumption
<1> QED BY <1>1, <1>3, <1>4 DEF TypeInv

(* A save begins with what there is to move.                               *)
LEMMA BeginTyped ==
    ASSUME TypedProcs, Moving, NEW p \in Procs, NEW store \in Store, BeginSave(p, store)
    PROVE  /\ pc' \in [Procs -> Stages] /\ mem' \in [Procs -> Store]
           /\ todo' \in [Procs -> SUBSET Entries] /\ Moving'
<1>1. Movable(p, store) \subseteq Entries /\ \A e \in Movable(p, store) : store[e] # Absent
  BY DEF Movable
<1>2. pc' \in [Procs -> Stages] /\ mem' \in [Procs -> Store]
  BY DEF BeginSave, TypedProcs, Stages
<1>3. todo' \in [Procs -> SUBSET Entries]
  BY <1>1 DEF BeginSave, TypedProcs
<1>4. Moving'
  BY <1>1 DEF BeginSave, TypedProcs, Moving
<1> QED BY <1>2, <1>3, <1>4

LEMMA ReadTyped ==
    ASSUME SecureAssumption, TypeInv, NEW p \in Procs, Read(p)
    PROVE  TypeInv'
<1>1. disk.body \in Store /\ disk.seal \in Keys \cup {Absent}
  BY DEF TypeInv, TypedDisk
<1>2. TypedProcs'
  BY <1>1 DEF Read, TypeInv, TypedProcs, Stages
<1>3. Moving'
  BY DEF Read, TypeInv, TypedProcs, Moving
<1>4. crossed' \in BOOLEAN /\ late' \subseteq Procs
  BY DEF Read, Crosses, TypeInv, TypedDisk
<1>5. saved' \in [Entries -> Values \cup {Absent, Unknown}]
  BY DEF Read, TypeInv, TypedDisk
<1>6. TypedDisk' /\ Counted'
  BY <1>4, <1>5 DEF Read, TypeInv, TypedDisk, Counted, SecureAssumption
<1> QED BY <1>2, <1>3, <1>6 DEF TypeInv

LEMMA OpenTyped ==
    ASSUME SecureAssumption, IsFiniteSet(Names), TypeInv, NEW p \in Procs, Open(p)
    PROVE  TypeInv'
<1>1. PICK lost \in SUBSET (Wanted(p) \X {"secret", "token"}) :
         /\ faults + Cardinality(lost) <= MaxFaults
         /\ faults' = faults + Cardinality(lost)
         /\ mem' = [mem EXCEPT ![p] = [e \in Entries |->
                IF e \in Wanted(p) THEN Hydrated(e, @[e], lost) ELSE @[e]]]
  BY DEF Open, Hydrate
<1>2. Cardinality(lost) \in Nat
  <2>1. IsFiniteSet(Kinds) /\ IsFiniteSet({"secret", "token"})
    <3>1. ASSUME NEW a, NEW b PROVE IsFiniteSet({a, b})
      <4>1. IsFiniteSet({a}) /\ IsFiniteSet({b})
        BY FS_Singleton
      <4>2. IsFiniteSet({a} \cup {b})
        BY <4>1, FS_Union
      <4>3. {a, b} = {a} \cup {b}
        OBVIOUS
      <4> QED BY <4>2, <4>3
    <3> QED BY <3>1 DEF Kinds
  <2>2. IsFiniteSet(Entries)
    BY <2>1, FS_Product DEF Entries
  <2>3. IsFiniteSet(Wanted(p))
    BY <2>2, FS_Subset DEF Wanted
  <2>4. IsFiniteSet(Wanted(p) \X {"secret", "token"})
    BY <2>1, <2>3, FS_Product
  <2> QED BY <2>4, FS_Subset, FS_CardinalityType
<1>3. Counted'
  BY <1>1, <1>2 DEF Open, Hydrate, TypeInv, Counted, SecureAssumption
<1> DEFINE store == [e \in Entries |->
                IF e \in Wanted(p) THEN Hydrated(e, mem[p][e], lost) ELSE mem[p][e]]
<1>4. store \in Store
  <2>1. \A e \in Entries : mem[p][e] \in Entry \cup {Absent}
    BY DEF TypeInv, TypedProcs, Store
  <2>2. ring \in [Entries -> Pair]
    BY DEF TypeInv, TypedDisk
  <2> QED BY <2>1, <2>2, HydratedTyped DEF Store
<1>5. mem' = [mem EXCEPT ![p] = store]
  BY <1>1
<1> HIDE DEF store
<1>6. TypedProcs'
  BY <1>4, <1>5 DEF Open, Hydrate, TypeInv, TypedProcs, Stages
<1>7. Moving'
  BY <1>5 DEF Open, Hydrate, TypeInv, TypedProcs, Moving
<1> QED BY <1>3, <1>6, <1>7 DEF Open, Hydrate, TypeInv, TypedDisk, races

LEMMA UpsertTyped ==
    ASSUME SecureAssumption, TypeInv, NEW p \in Procs, Upsert(p)
    PROVE  TypeInv'
<1> DEFINE c       == cmd[p]
           profile == <<"profile", c.name>>
           source  == <<"source", c.name>>
           new     == IF Inherits(mem[p][profile], c.cred) THEN mem[p][profile]
                      ELSE Given(c.cred)
           store   == [mem[p] EXCEPT ![profile] = new, ![source] = Given(c.cred)]
<1>1. c.name \in Names /\ c.cred \in Values /\ mem[p] \in Store
  BY NamedCommand DEF Upsert, TypeInv, TypedProcs, NoCommand
<1>2. profile \in Entries /\ source \in Entries
  BY <1>1 DEF Entries, Kinds
<1>3. Given(c.cred) \in Entry /\ Blank \in Pair
  BY <1>1, EntryParts
<1>4. new \in Entry \cup {Absent}
  BY <1>1, <1>2, <1>3 DEF Store
<1>5. BeginSave(p, store)
  BY DEF Upsert
<1>6. ring' \in [Entries -> Pair]
  BY <1>3 DEF Upsert, TypeInv, TypedDisk
<1>7. saved' \in [Entries -> Values \cup {Absent, Unknown}]
  BY <1>1 DEF Upsert, TypeInv, TypedDisk
<1> HIDE DEF c, profile, source, new
<1>8. store \in Store
  BY <1>1, <1>3, <1>4 DEF Store
<1> HIDE DEF store
<1>9. TypedProcs' /\ Moving'
  <2>1. UNCHANGED <<cmd, secure, key>>
    BY DEF Upsert
  <2> QED BY <1>5, <1>8, <2>1, BeginTyped DEF TypeInv, TypedProcs
<1> QED BY <1>6, <1>7, <1>9 DEF Upsert, TypeInv, TypedDisk, Counted, races

LEMMA RemoveTyped ==
    ASSUME SecureAssumption, TypeInv, NEW p \in Procs, Remove(p)
    PROVE  TypeInv'
<1> DEFINE gone  == Touched(cmd[p])
           store == [e \in Entries |-> IF e \in gone THEN Absent ELSE mem[p][e]]
<1>1. store \in Store
  BY DEF TypeInv, TypedProcs, Store
<1>2. BeginSave(p, store)
  BY DEF Remove
<1>3. ring' \in [Entries -> Pair]
  BY EntryParts DEF Remove, TypeInv, TypedDisk
<1>4. saved' \in [Entries -> Values \cup {Absent, Unknown}]
  BY DEF Remove, TypeInv, TypedDisk
<1> HIDE DEF store
<1>5. TypedProcs' /\ Moving'
  <2>1. UNCHANGED <<cmd, secure, key>>
    BY DEF Remove
  <2> QED BY <1>1, <1>2, <2>1, BeginTyped DEF TypeInv, TypedProcs
<1> QED BY <1>3, <1>4, <1>5 DEF Remove, TypeInv, TypedDisk, Counted, races

LEMMA MigrateTyped ==
    ASSUME SecureAssumption, TypeInv, NEW p \in Procs, Migrate(p) \/ MigrateFails(p)
    PROVE  TypeInv'
<1>1. PICK e \in Due(p) :
         LET x == mem[p][e] IN
         /\ \/ ring' = ring
            \/ ring' = [ring EXCEPT ![e] = [secret |-> SecretPut(e, x),
                           token |-> IF x.token = 0 THEN @.token ELSE x.token]]
            \/ ring' = [ring EXCEPT ![e].secret = SecretPut(e, x)]
         /\ mem' \in {mem, [mem EXCEPT ![p][e] = [secret |-> 0, token |-> 0, flag |-> TRUE]]}
         /\ Settle(p, e)
  BY DEF Migrate, MigrateFails
<1>2. e \in todo[p] /\ e \in Entries
  BY DEF Due, TypeInv, TypedProcs
<1>3. mem[p] \in Store /\ mem[p][e] \in Entry
  <2>1. pc[p] = "migrate"
    BY DEF Migrate, MigrateFails
  <2> QED BY <1>2, <2>1 DEF TypeInv, TypedProcs, Moving, Store
<1> DEFINE x == mem[p][e]
<1>4. x.secret \in Values /\ x.token \in Values /\ 0 \in Values
  BY <1>3, EntryParts
<1>5. ring \in [Entries -> Pair] /\ ring[e] \in Pair
  BY <1>2 DEF TypeInv, TypedDisk
<1>6. SecretPut(e, x) \in Values
  BY <1>4, <1>5 DEF SecretPut, Pair
<1>7. ring' \in [Entries -> Pair]
  <2> DEFINE both == [secret |-> SecretPut(e, x),
                      token |-> IF x.token = 0 THEN ring[e].token ELSE x.token]
             one  == [ring[e] EXCEPT !.secret = SecretPut(e, x)]
  <2>1. both \in Pair /\ one \in Pair
    BY <1>4, <1>5, <1>6 DEF Pair
  <2>2. \/ ring' = ring \/ ring' = [ring EXCEPT ![e] = both] \/ ring' = [ring EXCEPT ![e] = one]
    BY <1>1
  <2> HIDE DEF both, one
  <2> QED BY <1>5, <2>1, <2>2
<1> DEFINE moved == [secret |-> 0, token |-> 0, flag |-> TRUE]
           store == [mem[p] EXCEPT ![e] = moved]
<1>8. moved \in Entry
  BY <1>4 DEF Entry
<1>9. mem' = mem \/ mem' = [mem EXCEPT ![p] = store]
  BY <1>1
<1> HIDE DEF moved
<1>10. store \in Store /\ \A d \in Entries : mem[p][d] # Absent => store[d] # Absent
  BY <1>3, <1>8, EntryParts DEF Store
<1> HIDE DEF store
<1>11. mem' \in [Procs -> Store] /\ todo' \in [Procs -> SUBSET Entries]
  BY <1>1, <1>9, <1>10 DEF Settle, TypeInv, TypedProcs
<1>12. Moving'
  BY <1>1, <1>9, <1>10 DEF Settle, TypeInv, TypedProcs, Moving
<1>13. Counted'
  BY DEF Migrate, MigrateFails, Settle, Fault, TypeInv, Counted, SecureAssumption
<1>14. saved' \in [Entries -> Values \cup {Absent, Unknown}]
  BY <1>1 DEF Settle, TypeInv, TypedDisk
<1> QED BY <1>1, <1>7, <1>11, <1>12, <1>13, <1>14 DEF Settle, TypeInv, TypedDisk, TypedProcs, races

(* The modes, the key, and the file.                                       *)
LEMMA ProceedTyped ==
    ASSUME TypeInv, NEW p \in Procs, NEW k \in Keys \cup {Absent}, Proceed(p, k),
           master' \in Keys \cup {Absent}
    PROVE  TypeInv'
<1>1. pc' \in [Procs -> Stages] /\ mem' \in [Procs -> Store]
      /\ todo' \in [Procs -> SUBSET Entries] /\ Moving'
  <2>1. CASE secure[p]
    BY <2>1 DEF Proceed, TypeInv, TypedProcs, Moving, Stages
  <2>2. CASE ~secure[p]
    <3>1. mem[p] \in Store
      BY DEF TypeInv, TypedProcs
    <3> QED BY <2>2, <3>1, BeginTyped DEF Proceed, TypeInv
  <2> QED BY <2>1, <2>2
<1>2. TypedProcs'
  BY <1>1 DEF Proceed, TypeInv, TypedProcs
<1> QED BY <1>1, <1>2 DEF Proceed, TypeInv, TypedDisk, Counted, races

LEMMA SwitchTyped ==
    ASSUME TypeInv, NEW p \in Procs,
           \/ Enable(p) \/ Disable(p) \/ Migrated(p) \/ FindKey(p) \/ NoKey(p)
           \/ MintKey(p) \/ Write(p)
    PROVE  TypeInv'
<1>1. CASE Enable(p) \/ Migrated(p) \/ NoKey(p) \/ Write(p)
  <2>1. UNCHANGED <<disk, ring, master, cmd, mem, secure, todo, key, stray, saved, races,
                    commands, faults>>
    BY <1>1 DEF Enable, Migrated, NoKey, Write
  <2>2. pc' \in [Procs -> Stages]
    BY <1>1 DEF Enable, Migrated, NoKey, Write, TypeInv, TypedProcs, Stages
  <2>3. Moving'
    BY <1>1 DEF Enable, Migrated, NoKey, Write, TypeInv, TypedProcs, Moving
  <2> QED BY <2>1, <2>2, <2>3 DEF TypeInv, TypedDisk, TypedProcs, Counted, races
<1>2. CASE Disable(p)
  <2>1. mem[p] \in Store
    BY DEF TypeInv, TypedProcs
  <2>2. /\ pc' \in [Procs -> Stages] /\ mem' \in [Procs -> Store]
        /\ todo' \in [Procs -> SUBSET Entries] /\ Moving'
    BY <1>2, <2>1, BeginTyped DEF Disable, TypeInv
  <2> QED BY <1>2, <2>2 DEF Disable, TypeInv, TypedDisk, TypedProcs, Counted, races
<1>3. CASE FindKey(p)
  BY <1>3, ProceedTyped DEF FindKey, TypeInv, TypedDisk
<1>4. CASE MintKey(p)
  BY <1>4, ProceedTyped DEF MintKey, Fresh
<1> QED BY <1>1, <1>2, <1>3, <1>4

LEMMA EndTyped ==
    ASSUME SecureAssumption, TypeInv, NEW p \in Procs, Rename(p) \/ Unkey(p)
    PROVE  TypeInv'
<1>1. TypedProcs' /\ Moving'
  <2>1. CASE Exit(p)
    BY <2>1, ExitTyped DEF TypeInv
  <2>2. CASE pc' = [pc EXCEPT ![p] = "unkey"] /\ UNCHANGED <<cmd, mem, secure, todo, key>>
    BY <2>2 DEF TypeInv, TypedProcs, Moving, Stages
  <2> QED BY <2>1, <2>2 DEF Rename, Unkey
<1>2. Image(p) \in [body : Store, seal : Keys \cup {Absent}]
  BY DEF Image, TypeInv, TypedProcs
<1>3. TypedDisk'
  BY <1>2 DEF Rename, Unkey, TypeInv, TypedDisk, races
<1>4. Counted'
  BY DEF Rename, Unkey, Fault, TypeInv, Counted, SecureAssumption
<1> QED BY <1>1, <1>3, <1>4 DEF TypeInv

LEMMA TypeStep ==
    ASSUME SecureAssumption, IsFiniteSet(Names), TypeInv, [Next]_vars
    PROVE  TypeInv'
<1>1. ASSUME NEW p \in Procs, Step(p) PROVE TypeInv'
  <2>1. CASE LoadFails(p) \/ Declines(p) \/ SaveFails(p) \/ Crash(p)
    <3>1. GiveUp(p) /\ (faults' = faults \/ Fault)
      BY <2>1 DEF LoadFails, Declines, SaveFails, Crash
    <3>2. stray' \subseteq BOOLEAN
      <4>1. stray \subseteq BOOLEAN /\ {~secure[p]} \subseteq BOOLEAN
        BY DEF TypeInv, TypedDisk
      <4> QED BY <2>1, <4>1 DEF LoadFails, Declines, SaveFails, Crash
    <3> QED BY <3>1, <3>2, GiveUpTyped
  <2>2. CASE Read(p) \/ Open(p) \/ Upsert(p) \/ Remove(p)
    BY <2>2, ReadTyped, OpenTyped, UpsertTyped, RemoveTyped
  <2>3. CASE Migrate(p) \/ MigrateFails(p)
    BY <2>3, MigrateTyped
  <2>4. CASE \/ Enable(p) \/ Disable(p) \/ Migrated(p) \/ FindKey(p) \/ NoKey(p)
             \/ MintKey(p) \/ Write(p)
    BY <2>4, SwitchTyped
  <2>5. CASE Rename(p) \/ Unkey(p)
    BY <2>5, EndTyped
  <2> QED BY <1>1, <2>1, <2>2, <2>3, <2>4, <2>5 DEF Step
<1>2. CASE UNCHANGED vars
  BY <1>2 DEF vars, races, TypeInv, TypedDisk, TypedProcs, Counted, Moving
<1> QED BY <1>1, <1>2 DEF Next

LEMMA TypeInvariant ==
    ASSUME SecureAssumption, IsFiniteSet(Names) PROVE Spec => []TypeInv
<1>1. Init => TypeInv
  <2> SUFFICES ASSUME Init PROVE TypeInv
    OBVIOUS
  <2>1. TypedDisk
    BY EntryParts DEF Init, TypedDisk
  <2>2. TypedProcs
    BY EntryParts DEF Init, TypedProcs, Stages
  <2>3. Counted /\ Moving
    BY DEF Init, Counted, Moving, SecureAssumption
  <2> QED BY <2>1, <2>2, <2>3 DEF TypeInv
<1>2. TypeInv /\ [Next]_vars => TypeInv'
  BY TypeStep
<1> QED BY <1>1, <1>2, PTL DEF Spec

(* The types of the file, the keyring and the commands in flight, for any  *)
(* processes, overlapping as they like.  The connection names are finitely *)
(* many: the keyring reads that may fail are counted.                      *)
THEOREM StoreTypeCorrect ==
    ASSUME SecureAssumption, IsFiniteSet(Names) PROVE Spec => []TypeOK
<1>1. TypeInv => TypeOK
  BY TypeInvTypes
<1> QED BY <1>1, TypeInvariant, PTL

-----------------------------------------------------------------------------
(* The mode of the file, and its key.                                      *)

Running(p)   == pc[p] # "idle"
Editing(p)   == cmd[p].op \notin Switches
Loaded(p)    == pc[p] \notin {"idle", "open"}
Committed(p) == pc[p] \notin {"idle", "open", "apply"}

(* What the argument needs of the types.                                   *)
Shape ==
    /\ pc \in [Procs -> Stages]
    /\ cmd \in [Procs -> Commands \cup {NoCommand}]
    /\ secure \in [Procs -> BOOLEAN]
    /\ key \in [Procs -> Keys \cup {Absent}]
    /\ {master, disk.seal} \subseteq Keys \cup {Absent}

(* The mode a process works in is that of the file, unless the file        *)
(* changed its form since.                                                 *)
ModeKnown(p) == p \notin late =>
    /\ pc[p] = "open" => (key[p] = Absent <=> disk.seal = Absent)
    /\ Loaded(p) /\ (Editing(p) \/ pc[p] = "apply")
         => (secure[p] <=> disk.seal # Absent)

(* What a process tells of itself.  Without a keyring it loads plain files *)
(* only, and switches nothing.                                             *)
SelfKnown(p) ==
    /\ pc[p] \in {"find", "mint"} => secure[p] \/ cmd[p].op = "enable"
    /\ Committed(p) /\ cmd[p].op = "disable" => ~secure[p]
    /\ pc[p] = "unkey" => cmd[p].op = "disable"
    /\ pc[p] \in {"write", "rename"} /\ secure[p] => key[p] # Absent
    /\ ~HasRing(p) => /\ Loaded(p) => ~secure[p]
                      /\ Committed(p) => Editing(p)

(* A switch has the keyring to itself.                                     *)
SwitchAlone ==
    \A p, q \in Procs :
        p # q /\ Running(p) /\ Running(q) /\ HasRing(p) /\ HasRing(q)
            => Editing(p) /\ Editing(q)

(* The key it will seal with is the one in the keyring, and a new one is   *)
(* made only while the file is plain, by the command that seals it.        *)
KeyKnown(p) ==
    /\ Loaded(p) /\ secure[p] => master # Absent
    /\ pc[p] = "mint" => disk.seal = Absent /\ cmd[p].op = "enable"
    /\ pc[p] \in {"write", "rename"} /\ secure[p] => key[p] = master
    /\ pc[p] = "unkey" => disk.seal = Absent

Orderly == Fits /\ SwitchAlone /\ \A p \in Procs : KeyKnown(p)

StoreInv ==
    /\ Shape
    /\ \A p \in Procs : ModeKnown(p) /\ SelfKnown(p)
    /\ crossed \/ Orderly

LEMMA InitStoreInv ==
    ASSUME SecureAssumption PROVE Init => StoreInv
  BY DEF Init, StoreInv, Shape, SwitchAlone, Orderly, Fits, ModeKnown, SelfKnown, KeyKnown,
         Loaded, Committed, Running, Editing, Stages, NoCommand, SecureAssumption

(* A host without a keyring touches no key.                                *)
LEMMA RinglessEdits ==
    ASSUME StoreInv, NEW p \in Procs, ~HasRing(p)
    PROVE  /\ pc[p] \notin {"find", "mint", "unkey"}
           /\ Loaded(p) => ~secure[p]
  BY DEF StoreInv, SelfKnown, Loaded, Committed, Editing, Switches

(* A step of one process that leaves the file, the keyring's key and the   *)
(* commands alone disturbs no other.                                       *)
LEMMA LocalKeeps ==
    ASSUME StoreInv, NEW p \in Procs, Running(p),
           UNCHANGED <<cmd, disk, master, late, crossed>>,
           NEW s \in Stages, pc' = [pc EXCEPT ![p] = s],
           NEW b \in BOOLEAN, secure' = [secure EXCEPT ![p] = b],
           NEW k \in Keys \cup {Absent}, key' = [key EXCEPT ![p] = k],
           ModeKnown(p)', SelfKnown(p)', crossed \/ KeyKnown(p)'
    PROVE  StoreInv'
<1>1. Shape'
  BY DEF StoreInv, Shape
<1>2. \A q \in Procs \ {p} : /\ pc'[q] = pc[q] /\ cmd'[q] = cmd[q]
                             /\ key'[q] = key[q] /\ secure'[q] = secure[q]
  BY DEF StoreInv, Shape
<1>3. \A q \in Procs \ {p} : (ModeKnown(q) /\ SelfKnown(q))'
  BY <1>2 DEF StoreInv, ModeKnown, SelfKnown, Editing, Loaded, Committed, HasRing
<1>4. ASSUME Orderly, KeyKnown(p)' PROVE Orderly'
  <2>1. SwitchAlone'
    BY <1>2, <1>4 DEF Orderly, SwitchAlone, Running, Editing, HasRing
  <2>2. \A q \in Procs \ {p} : KeyKnown(q)'
    BY <1>2, <1>4 DEF Orderly, KeyKnown, Loaded
  <2> QED BY <1>4, <2>1, <2>2 DEF Orderly, Fits
<1> QED
  BY <1>1, <1>3, <1>4 DEF StoreInv

(* The steps that change nothing but the stage.                            *)
LEMMA StageKeeps ==
    ASSUME StoreInv, NEW p \in Procs, Running(p),
           UNCHANGED <<cmd, disk, master, secure, key, late, crossed>>,
           NEW s \in Stages, pc' = [pc EXCEPT ![p] = s],
           ModeKnown(p)', SelfKnown(p)', crossed \/ KeyKnown(p)'
    PROVE  StoreInv'
<1>1. /\ secure' = [secure EXCEPT ![p] = secure[p]]
      /\ key' = [key EXCEPT ![p] = key[p]]
      /\ secure[p] \in BOOLEAN /\ key[p] \in Keys \cup {Absent}
  BY DEF StoreInv, Shape
<1> QED
  BY <1>1, LocalKeeps

(* Leaving keeps the invariant: nothing but the process changes.           *)
LEMMA LeaveKeeps ==
    ASSUME StoreInv, NEW p \in Procs, GiveUp(p)
    PROVE  StoreInv'
<1>1. /\ Exit(p) /\ UNCHANGED <<disk, master, late, crossed>>
  BY DEF GiveUp, races
<1>2. Shape'
  BY <1>1 DEF Exit, StoreInv, Shape, Stages
<1>3. /\ pc'[p] = "idle"
      /\ \A q \in Procs \ {p} : /\ pc'[q] = pc[q] /\ cmd'[q] = cmd[q]
                                /\ key'[q] = key[q] /\ secure'[q] = secure[q]
  BY <1>1 DEF Exit, StoreInv, Shape
<1>4. \A q \in Procs : (ModeKnown(q) /\ SelfKnown(q))'
  BY <1>1, <1>3 DEF StoreInv, ModeKnown, SelfKnown, Editing, Loaded, Committed, HasRing
<1>5. Orderly => Orderly'
  BY <1>1, <1>3 DEF Orderly, Fits, SwitchAlone, KeyKnown, Running, Editing, Loaded, HasRing
<1> QED BY <1>1, <1>2, <1>4, <1>5 DEF StoreInv

LEMMA ReadKeeps ==
    ASSUME SecureAssumption, StoreInv, NEW p \in Procs, Read(p)
    PROVE  StoreInv'
<1>1. PICK c \in Commands : cmd' = [cmd EXCEPT ![p] = c] /\ crossed' = Crosses(p, c)
  BY DEF Read
<1>2. /\ pc[p] = "idle" /\ pc' = [pc EXCEPT ![p] = "open"]
      /\ key' = [key EXCEPT ![p] = disk.seal]
      /\ late' = late \ {p}
      /\ UNCHANGED <<disk, master, secure>>
  BY DEF Read
<1>3. Shape'
  BY <1>1, <1>2 DEF StoreInv, Shape, Stages
<1>4. \A q \in Procs \ {p} : /\ pc'[q] = pc[q] /\ cmd'[q] = cmd[q]
                             /\ key'[q] = key[q] /\ secure'[q] = secure[q]
                             /\ (q \in late' <=> q \in late)
  BY <1>1, <1>2 DEF StoreInv, Shape
<1>5. cmd'[p] = c /\ pc'[p] = "open" /\ key'[p] = disk.seal
  BY <1>1, <1>2 DEF StoreInv, Shape
<1>6. \A q \in Procs : (ModeKnown(q) /\ SelfKnown(q))'
  BY <1>2, <1>4, <1>5 DEF StoreInv, ModeKnown, SelfKnown, Editing, Loaded, Committed, HasRing
<1>7. ASSUME ~crossed' PROVE Orderly'
  <2>1. CASE ~Beside(p)
    <3>1. Fits /\ \A q \in Procs \ {p} : pc[q] = "idle"
      BY <1>1, <1>7, <2>1 DEF Crosses, Beside
    <3>2. SwitchAlone' /\ Fits'
      BY <1>2, <1>4, <3>1 DEF SwitchAlone, Running, Fits
    <3>3. \A q \in Procs : KeyKnown(q)'
      BY <1>4, <1>5, <3>1 DEF KeyKnown, Loaded
    <3> QED BY <3>2, <3>3 DEF Orderly
  <2>2. CASE Beside(p)
    <3>1. /\ ~crossed
          /\ \A q \in Procs \ {p} : pc[q] # "idle" /\ HasRing(p) /\ HasRing(q)
                => c.op \notin Switches /\ cmd[q].op \notin Switches
      BY <1>1, <1>7, <2>2 DEF Crosses
    <3>2. Orderly
      BY <3>1 DEF StoreInv
    <3>3. SwitchAlone'
      BY <1>4, <1>5, <3>1, <3>2, SMTT(30) DEF Orderly, SwitchAlone, Running, Editing, HasRing
    <3>4. \A q \in Procs : KeyKnown(q)'
      BY <1>2, <1>4, <1>5, <3>2 DEF Orderly, KeyKnown, Loaded
    <3> QED BY <1>2, <3>2, <3>3, <3>4 DEF Orderly, Fits
  <2> QED BY <2>1, <2>2
<1> QED
  BY <1>3, <1>6, <1>7 DEF StoreInv

LEMMA OpenKeeps ==
    ASSUME StoreInv, NEW p \in Procs, Open(p)
    PROVE  StoreInv'
<1> DEFINE b == key[p] # Absent
<1>1. /\ pc[p] = "open" /\ Running(p) /\ UNCHANGED <<cmd, disk, master, key, late, crossed>>
      /\ pc' = [pc EXCEPT ![p] = "apply"] /\ "apply" \in Stages
      /\ secure' = [secure EXCEPT ![p] = b] /\ b \in BOOLEAN
      /\ key' = [key EXCEPT ![p] = key[p]] /\ key[p] \in Keys \cup {Absent}
      /\ Opens(p)
  BY DEF Open, Hydrate, Running, Stages, StoreInv, Shape, races
<1>2. pc'[p] = "apply" /\ (secure'[p] <=> key[p] # Absent)
  BY <1>1 DEF StoreInv, Shape
<1>3. ModeKnown(p)'
  BY <1>1, <1>2 DEF StoreInv, ModeKnown, Editing
<1>4. SelfKnown(p)' /\ KeyKnown(p)'
  BY <1>1, <1>2 DEF SelfKnown, KeyKnown, Loaded, Committed, Opens, HasRing
<1> QED
  BY <1>1, <1>3, <1>4, LocalKeeps

LEMMA EditKeeps ==
    ASSUME StoreInv, NEW p \in Procs, Upsert(p) \/ Remove(p)
    PROVE  StoreInv'
<1>1. /\ pc[p] = "apply" /\ cmd[p].op \in {"upsert", "remove"}
      /\ UNCHANGED <<cmd, disk, master, secure, key, late, crossed>>
      /\ pc' = [pc EXCEPT ![p] = "migrate"]
  BY DEF Upsert, Remove, BeginSave, races
<1>2. pc'[p] = "migrate" /\ Editing(p)
  BY <1>1 DEF StoreInv, Shape, Editing, Switches
<1>3. ModeKnown(p)' /\ SelfKnown(p)'
  BY <1>1, <1>2 DEF StoreInv, ModeKnown, SelfKnown, Editing, Loaded, Committed, HasRing
<1>4. crossed \/ KeyKnown(p)'
  BY <1>1, <1>2 DEF StoreInv, Orderly, KeyKnown, Loaded
<1> QED
  BY <1>1, <1>3, <1>4, StageKeeps DEF Running, Stages

LEMMA EnableKeeps ==
    ASSUME StoreInv, NEW p \in Procs, Enable(p)
    PROVE  StoreInv'
<1>1. /\ pc[p] = "apply" /\ cmd[p].op = "enable" /\ ~secure[p] /\ HasRing(p)
      /\ UNCHANGED <<cmd, disk, master, secure, key, late, crossed>>
      /\ pc' = [pc EXCEPT ![p] = "find"]
  BY DEF Enable, races
<1>2. pc'[p] = "find" /\ ~Editing(p)
  BY <1>1 DEF StoreInv, Shape, Editing, Switches
<1>3. ModeKnown(p)' /\ SelfKnown(p)' /\ KeyKnown(p)'
  BY <1>1, <1>2 DEF ModeKnown, SelfKnown, KeyKnown, Editing, Loaded, HasRing
<1> QED
  BY <1>1, <1>3, StageKeeps DEF Running, Stages

LEMMA DisableKeeps ==
    ASSUME StoreInv, NEW p \in Procs, Disable(p)
    PROVE  StoreInv'
<1>1. /\ pc[p] = "apply" /\ cmd[p].op = "disable" /\ secure[p]
      /\ UNCHANGED <<cmd, disk, master, key, late, crossed>>
      /\ pc' = [pc EXCEPT ![p] = "migrate"]
      /\ secure' = [secure EXCEPT ![p] = FALSE]
      /\ key' = [key EXCEPT ![p] = key[p]] /\ key[p] \in Keys \cup {Absent}
  BY DEF Disable, BeginSave, StoreInv, Shape, races
<1>2. pc'[p] = "migrate" /\ ~Editing(p) /\ ~secure'[p] /\ HasRing(p)
  BY <1>1, RinglessEdits DEF StoreInv, Shape, Editing, Switches, Loaded
<1>3. ModeKnown(p)' /\ SelfKnown(p)' /\ KeyKnown(p)'
  BY <1>1, <1>2 DEF ModeKnown, SelfKnown, KeyKnown, Editing, HasRing
<1> QED
  BY <1>1, <1>3, LocalKeeps DEF Running, Stages

LEMMA MigrateKeeps ==
    ASSUME StoreInv, NEW p \in Procs, Migrate(p) \/ MigrateFails(p)
    PROVE  StoreInv'
<1>1. UNCHANGED <<pc, cmd, disk, master, secure, key, late, crossed>>
  BY DEF Migrate, MigrateFails, Settle, races
<1> QED
  BY <1>1 DEF StoreInv, Shape, SwitchAlone, Orderly, Fits, ModeKnown, SelfKnown, KeyKnown,
     Running, Editing, Loaded, Committed, HasRing

LEMMA MigratedKeeps ==
    ASSUME StoreInv, NEW p \in Procs, Migrated(p)
    PROVE  StoreInv'
<1> DEFINE s == IF secure[p] THEN "find" ELSE "write"
<1>1. /\ pc[p] = "migrate" /\ UNCHANGED <<cmd, disk, master, secure, key, late, crossed>>
      /\ pc' = [pc EXCEPT ![p] = s]
  BY DEF Migrated, races
<1>2. pc'[p] = s
  BY <1>1 DEF StoreInv, Shape
<1>3. ModeKnown(p)' /\ SelfKnown(p)'
  BY <1>1, <1>2 DEF StoreInv, ModeKnown, SelfKnown, Editing, Loaded, Committed, HasRing
<1>4. crossed \/ KeyKnown(p)'
  BY <1>1, <1>2 DEF StoreInv, Orderly, KeyKnown, Loaded
<1> QED
  BY <1>1, <1>3, <1>4, StageKeeps DEF Running, Stages

LEMMA NoKeyKeeps ==
    ASSUME StoreInv, NEW p \in Procs, NoKey(p)
    PROVE  StoreInv'
<1>1. /\ pc[p] = "find" /\ master = Absent
      /\ UNCHANGED <<cmd, disk, master, secure, key, late, crossed>>
      /\ pc' = [pc EXCEPT ![p] = "mint"]
  BY DEF NoKey, races
<1>2. pc'[p] = "mint"
  BY <1>1 DEF StoreInv, Shape
<1>3. ModeKnown(p)' /\ SelfKnown(p)'
  BY <1>1, <1>2 DEF StoreInv, ModeKnown, SelfKnown, Editing, Loaded, Committed, HasRing
<1>4. crossed \/ KeyKnown(p)'
  BY <1>1, <1>2 DEF StoreInv, Orderly, Fits, SelfKnown, KeyKnown, Loaded
<1> QED
  BY <1>1, <1>3, <1>4, StageKeeps DEF Running, Stages

(* With the key of the keyring in hand, before a save and before a write.  *)
LEMMA ProceedKeeps ==
    ASSUME StoreInv, NEW p \in Procs, pc[p] \in {"find", "mint"},
           NEW k, k # Absent, Proceed(p, k)
    PROVE  (ModeKnown(p) /\ SelfKnown(p))'
<1> DEFINE s == IF secure[p] THEN "write" ELSE "migrate"
<1>1. /\ UNCHANGED <<cmd, disk, late, crossed>>
      /\ pc' = [pc EXCEPT ![p] = s]
      /\ secure' = [secure EXCEPT ![p] = TRUE]
      /\ key' = [key EXCEPT ![p] = k]
  BY DEF Proceed, BeginSave, races
<1>2. pc'[p] = s /\ secure'[p] /\ key'[p] = k
  BY <1>1 DEF StoreInv, Shape
<1>3. HasRing(p) /\ cmd[p].op # "disable" /\ (Editing(p) => secure[p])
  BY RinglessEdits DEF StoreInv, SelfKnown, Committed, Editing, Switches
<1> QED
  BY <1>1, <1>2, <1>3 DEF StoreInv, ModeKnown, SelfKnown, Editing, Loaded, Committed, HasRing

LEMMA FindKeyKeeps ==
    ASSUME StoreInv, NEW p \in Procs, FindKey(p)
    PROVE  StoreInv'
<1> DEFINE s == IF secure[p] THEN "write" ELSE "migrate"
<1>1. /\ pc[p] = "find" /\ master # Absent
      /\ UNCHANGED <<cmd, disk, master, late, crossed>>
      /\ pc' = [pc EXCEPT ![p] = s]
      /\ secure' = [secure EXCEPT ![p] = TRUE]
      /\ key' = [key EXCEPT ![p] = master]
  BY DEF FindKey, Proceed, BeginSave, races
<1>2. pc'[p] = s /\ secure'[p] /\ key'[p] = master
  BY <1>1 DEF StoreInv, Shape
<1>3. ModeKnown(p)' /\ SelfKnown(p)'
  BY <1>1, ProceedKeeps DEF FindKey
<1>4. KeyKnown(p)'
  BY <1>1, <1>2 DEF KeyKnown
<1>5. master \in Keys \cup {Absent}
  BY DEF StoreInv, Shape
<1> QED
  BY <1>1, <1>3, <1>4, <1>5, LocalKeeps DEF Running, Stages

-----------------------------------------------------------------------------
(* The steps that change the keyring's key or the file.                    *)

(* While a switch runs that the keyring is left to, all others with a      *)
(* keyring stand idle, and none of the rest works on a key.                *)
LEMMA SwitchHasRing ==
    ASSUME StoreInv, Orderly, NEW p \in Procs, HasRing(p), Running(p), ~Editing(p),
           NEW q \in Procs \ {p}
    PROVE  /\ pc[q] \notin {"find", "mint", "unkey"}
           /\ Loaded(q) => ~secure[q]
<1>1. CASE HasRing(q)
  BY <1>1 DEF Orderly, SwitchAlone, Running, Loaded
<1>2. CASE ~HasRing(q)
  BY <1>2, RinglessEdits
<1> QED BY <1>1, <1>2

LEMMA MintKeyKeeps ==
    ASSUME StoreInv, NEW p \in Procs, MintKey(p), Absent \notin Keys
    PROVE  StoreInv'
<1> DEFINE s == IF secure[p] THEN "write" ELSE "migrate"
<1>1. PICK k \in Keys : /\ master' = k /\ Proceed(p, k)
  BY DEF MintKey, Fresh
<1>2. /\ key' = [key EXCEPT ![p] = k]
      /\ pc' = [pc EXCEPT ![p] = s]
      /\ secure' = [secure EXCEPT ![p] = TRUE]
      /\ UNCHANGED <<cmd, disk, late, crossed>>
  BY <1>1 DEF Proceed, BeginSave, races
<1>3. pc[p] = "mint" /\ k # Absent
  BY DEF MintKey
<1>4. Shape'
  BY <1>1, <1>2 DEF StoreInv, Shape, Stages
<1>5. \A q \in Procs \ {p} : /\ pc'[q] = pc[q] /\ cmd'[q] = cmd[q]
                             /\ key'[q] = key[q] /\ secure'[q] = secure[q]
  BY <1>2 DEF StoreInv, Shape
<1>6. pc'[p] = s /\ secure'[p] /\ key'[p] = k
  BY <1>2 DEF StoreInv, Shape
<1>7. ModeKnown(p)' /\ SelfKnown(p)'
  BY <1>1, <1>3, ProceedKeeps
<1>8. \A q \in Procs \ {p} : (ModeKnown(q) /\ SelfKnown(q))'
  BY <1>2, <1>5 DEF StoreInv, ModeKnown, SelfKnown, Editing, Loaded, Committed, HasRing
<1>9. ASSUME Orderly PROVE Orderly'
  <2>1. disk.seal = Absent /\ ~Editing(p) /\ Running(p) /\ HasRing(p)
    BY <1>3, <1>9, RinglessEdits DEF Orderly, KeyKnown, Editing, Switches, Running
  <2>2. KeyKnown(p)'
    BY <1>1, <1>2, <1>3, <1>6 DEF KeyKnown
  <2>3. \A q \in Procs \ {p} : KeyKnown(q)'
    <3> SUFFICES ASSUME NEW q \in Procs \ {p} PROVE KeyKnown(q)'
      OBVIOUS
    <3>1. pc[q] \notin {"mint", "unkey"} /\ (Loaded(q) => ~secure[q])
      BY <1>9, <2>1, SwitchHasRing
    <3> QED BY <1>5, <3>1 DEF KeyKnown, Loaded
  <2>4. SwitchAlone'
    BY <1>2, <1>5, <1>9, <2>1 DEF Orderly, SwitchAlone, Running, Editing, HasRing
  <2> QED BY <1>2, <2>1, <2>2, <2>3, <2>4 DEF Orderly, Fits
<1> QED
  BY <1>2, <1>4, <1>7, <1>8, <1>9 DEF StoreInv

(* A save that is not late leaves the form of the file as it is, and one   *)
(* that seals does it with the key of the keyring.                         *)
LEMMA RenameKeeps ==
    ASSUME StoreInv, NEW p \in Procs, Rename(p)
    PROVE  StoreInv'
<1> DEFINE seal == IF secure[p] THEN key[p] ELSE Absent
<1>1. /\ pc[p] = "rename" /\ disk'.seal = seal /\ UNCHANGED <<master, crossed>>
      /\ late' = IF FormChanges THEN late \cup (Procs \ {p}) ELSE late
      /\ cmd[p].op = "disable"
           => pc' = [pc EXCEPT ![p] = "unkey"] /\ UNCHANGED <<cmd, secure, key>>
      /\ cmd[p].op # "disable" => Exit(p)
  BY DEF Rename, Image
<1>2. Shape'
  <2>1. seal \in Keys \cup {Absent}
    BY DEF StoreInv, Shape
  <2>2. CASE cmd[p].op = "disable"
    BY <1>1, <2>1, <2>2 DEF StoreInv, Shape, Stages
  <2>3. CASE cmd[p].op # "disable"
    BY <1>1, <2>1, <2>3 DEF StoreInv, Shape, Stages, Exit
  <2> QED  BY <2>2, <2>3
<1>3. \A q \in Procs \ {p} : /\ pc'[q] = pc[q] /\ cmd'[q] = cmd[q]
                             /\ key'[q] = key[q] /\ secure'[q] = secure[q]
  BY <1>1 DEF StoreInv, Shape, Exit
<1>4. \/ pc'[p] = "idle"
      \/ /\ pc'[p] = "unkey" /\ cmd'[p] = cmd[p] /\ cmd[p].op = "disable"
         /\ ~secure[p] /\ ~secure'[p]
  BY <1>1 DEF StoreInv, Shape, Exit, SelfKnown, Committed
<1>5. (ModeKnown(p) /\ SelfKnown(p))'
  <2>1. CASE pc'[p] = "idle"
    BY <2>1 DEF ModeKnown, SelfKnown, Loaded, Committed
  <2>2. CASE pc'[p] # "idle"
    <3>1. HasRing(p)
      BY <1>1, <1>4, <2>2 DEF StoreInv, SelfKnown, Committed, Editing, Switches
    <3> QED
      BY <1>4, <2>2, <3>1 DEF ModeKnown, SelfKnown, Editing, Switches, HasRing
  <2> QED BY <2>1, <2>2
<1>6. ASSUME NEW q \in Procs \ {p} PROVE (ModeKnown(q) /\ SelfKnown(q))'
  <2>1. SelfKnown(q)'
    BY <1>3 DEF StoreInv, SelfKnown, Editing, Loaded, Committed, HasRing
  <2>2. CASE FormChanges
    BY <1>1, <2>1, <2>2 DEF ModeKnown
  <2>3. CASE ~FormChanges
    <3>1. late' = late /\ (disk'.seal = Absent <=> disk.seal = Absent)
      BY <1>1, <2>3 DEF FormChanges
    <3> QED
      BY <1>3, <2>1, <3>1 DEF StoreInv, ModeKnown, Editing, Loaded
  <2> QED BY <2>2, <2>3
<1>7. ASSUME Orderly PROVE Orderly'
  <2>1. seal \in {Absent, master} /\ (~secure[p] => seal = Absent)
    BY <1>1, <1>7 DEF Orderly, KeyKnown
  <2>2. SwitchAlone'
    BY <1>1, <1>3, <1>4, <1>7 DEF Orderly, SwitchAlone, Running, Editing, HasRing
  <2>3. KeyKnown(p)'
    BY <1>1, <1>4 DEF KeyKnown, Loaded
  <2>4. ASSUME NEW q \in Procs \ {p} PROVE KeyKnown(q)'
    <3>1. CASE pc[q] \in {"mint", "unkey"}
      <4>1. HasRing(q) /\ Running(q) /\ ~Editing(q)
        BY <1>7, <3>1, RinglessEdits
           DEF Orderly, KeyKnown, StoreInv, SelfKnown, Editing, Switches, Running
      <4>2. ~secure[p]
        BY <1>1, <1>7, <4>1, SwitchHasRing DEF Loaded
      <4> QED
        BY <1>1, <1>3, <1>7, <2>1, <4>2 DEF Orderly, KeyKnown, Loaded
    <3>2. CASE pc[q] \notin {"mint", "unkey"}
      BY <1>1, <1>3, <1>7, <3>2 DEF Orderly, KeyKnown, Loaded
    <3> QED BY <3>1, <3>2
  <2> QED BY <1>1, <2>1, <2>2, <2>3, <2>4 DEF Orderly, Fits
<1> QED
  BY <1>1, <1>2, <1>5, <1>6, <1>7 DEF StoreInv

LEMMA UnkeyKeeps ==
    ASSUME StoreInv, NEW p \in Procs, Unkey(p)
    PROVE  StoreInv'
<1>1. /\ pc[p] = "unkey" /\ Exit(p) /\ UNCHANGED <<disk, late, crossed>>
      /\ master' \in {master, Absent}
  BY DEF Unkey, races
<1>2. HasRing(p) /\ ~Editing(p) /\ Running(p)
  BY <1>1, RinglessEdits DEF StoreInv, SelfKnown, Editing, Switches, Running
<1>3. Shape'
  BY <1>1 DEF StoreInv, Shape, Stages, Exit
<1>4. /\ pc'[p] = "idle"
      /\ \A q \in Procs \ {p} : /\ pc'[q] = pc[q] /\ cmd'[q] = cmd[q]
                                /\ key'[q] = key[q] /\ secure'[q] = secure[q]
  BY <1>1 DEF Exit, StoreInv, Shape
<1>5. \A q \in Procs : (ModeKnown(q) /\ SelfKnown(q))'
  BY <1>1, <1>4 DEF StoreInv, ModeKnown, SelfKnown, Editing, Loaded, Committed, HasRing
<1>6. ASSUME Orderly PROVE Orderly'
  <2>1. disk.seal = Absent
    BY <1>1, <1>6 DEF Orderly, KeyKnown
  <2>2. KeyKnown(p)'
    BY <1>4 DEF KeyKnown, Loaded
  <2>3. ASSUME NEW q \in Procs \ {p} PROVE KeyKnown(q)'
    <3>1. pc[q] \notin {"mint", "unkey"} /\ (Loaded(q) => ~secure[q])
      BY <1>2, <1>6, SwitchHasRing
    <3> QED BY <1>4, <3>1 DEF KeyKnown, Loaded
  <2>4. SwitchAlone'
    BY <1>4, <1>6 DEF Orderly, SwitchAlone, Running, Editing, HasRing
  <2> QED BY <1>1, <2>1, <2>2, <2>3, <2>4 DEF Orderly, Fits
<1> QED
  BY <1>1, <1>3, <1>5, <1>6 DEF StoreInv

LEMMA WriteKeeps ==
    ASSUME StoreInv, NEW p \in Procs, Write(p)
    PROVE  StoreInv'
<1>1. /\ pc[p] = "write" /\ UNCHANGED <<cmd, disk, master, secure, key, late, crossed>>
      /\ pc' = [pc EXCEPT ![p] = "rename"]
  BY DEF Write, races
<1>2. pc'[p] = "rename"
  BY <1>1 DEF StoreInv, Shape
<1>3. ModeKnown(p)' /\ SelfKnown(p)'
  BY <1>1, <1>2 DEF StoreInv, ModeKnown, SelfKnown, Editing, Loaded, Committed, HasRing
<1>4. crossed \/ KeyKnown(p)'
  BY <1>1, <1>2 DEF StoreInv, Orderly, KeyKnown, Loaded
<1> QED
  BY <1>1, <1>3, <1>4, StageKeeps DEF Running, Stages

-----------------------------------------------------------------------------
LEMMA NextKeeps ==
    ASSUME SecureAssumption, StoreInv, [Next]_vars
    PROVE  StoreInv'
<1>1. CASE UNCHANGED vars
  BY <1>1 DEF vars, races, StoreInv, Shape, SwitchAlone, Orderly, Fits, ModeKnown, SelfKnown,
     KeyKnown, Running, Editing, Loaded, Committed, HasRing
<1>2. ASSUME NEW p \in Procs, Step(p) PROVE StoreInv'
  <2>1. CASE Read(p)
    BY <2>1, ReadKeeps
  <2>2. CASE Open(p) \/ Upsert(p) \/ Remove(p) \/ Enable(p) \/ Disable(p)
    BY <2>2, OpenKeeps, EditKeeps, EnableKeeps, DisableKeeps
  <2>3. CASE Migrate(p) \/ MigrateFails(p) \/ Migrated(p)
    BY <2>3, MigrateKeeps, MigratedKeeps
  <2>4. CASE FindKey(p) \/ NoKey(p)
    BY <2>4, FindKeyKeeps, NoKeyKeeps
  <2>5. CASE MintKey(p)
    BY <2>5, MintKeyKeeps DEF SecureAssumption
  <2>6. CASE Write(p) \/ Rename(p) \/ Unkey(p)
    BY <2>6, WriteKeeps, RenameKeeps, UnkeyKeeps
  <2>7. CASE LoadFails(p) \/ Declines(p) \/ SaveFails(p) \/ Crash(p)
    BY <2>7, LeaveKeeps DEF LoadFails, Declines, SaveFails, Crash
  <2> QED
    BY <1>2, <2>1, <2>2, <2>3, <2>4, <2>5, <2>6, <2>7 DEF Step
<1> QED
  BY <1>1, <1>2 DEF Next

THEOREM StoreInvariant ==
    ASSUME SecureAssumption PROVE Spec => []StoreInv
<1>1. Init => StoreInv
  BY InitStoreInv
<1>2. StoreInv /\ [Next]_vars => StoreInv'
  BY NextKeeps
<1> QED
  BY <1>1, <1>2, PTL DEF Spec

(* Readable, for any hosts and keys: however commands overlap, wherever a  *)
(* command or a switch dies or fails, the keyring holds the key of the     *)
(* store on disk, unless a switch ran beside another command of the        *)
(* keyring (Save, EnableSecureStorage, DisableSecureStorage,               *)
(* secureMasterKey).                                                       *)
THEOREM StoreIsReadable ==
    ASSUME SecureAssumption PROVE Spec => []Readable
<1>1. StoreInv => Readable
  BY DEF StoreInv, Orderly, Readable
<1> QED
  BY <1>1, StoreInvariant, PTL

(* ModeStands, however commands and switches overlap: the form of the file *)
(* changes at the rename of a switch, or of a save whose load is older     *)
(* than a switch, and never at another.                                    *)
THEOREM ModeOnlySwitches ==
    ASSUME SecureAssumption PROVE Spec => ModeStands
<1>1. ASSUME StoreInv, [Next]_vars, FormChanges
      PROVE  \E p \in Procs : pc[p] = "rename" /\ (cmd[p].op \in Switches \/ p \in late)
  <2>1. disk' # disk
    BY <1>1 DEF FormChanges
  <2>2. PICK p \in Procs : Rename(p)
    <3>1. PICK p \in Procs : Step(p)
      BY <1>1, <2>1 DEF vars, Next
    <3>2. ~(Read(p) \/ Open(p) \/ LoadFails(p) \/ Crash(p))
      BY <2>1 DEF Read, Open, Hydrate, LoadFails, Crash, GiveUp
    <3>3. ~(Upsert(p) \/ Remove(p) \/ Enable(p) \/ Disable(p) \/ Declines(p))
      BY <2>1 DEF Upsert, Remove, Enable, Disable, Declines, GiveUp
    <3>4. ~(Migrate(p) \/ MigrateFails(p) \/ Migrated(p) \/ FindKey(p) \/ NoKey(p) \/ MintKey(p))
      BY <2>1 DEF Migrate, MigrateFails, Migrated, FindKey, NoKey, MintKey, Settle, Proceed
    <3>5. ~(Write(p) \/ SaveFails(p) \/ Unkey(p))
      BY <2>1 DEF Write, SaveFails, Unkey, GiveUp
    <3> QED BY <3>1, <3>2, <3>3, <3>4, <3>5 DEF Step
  <2>3. pc[p] = "rename" /\ disk'.seal = IF secure[p] THEN key[p] ELSE Absent
    BY <2>2 DEF Rename, Image
  <2>4. ~Editing(p) \/ p \in late
    <3>1. SUFFICES ASSUME Editing(p), p \notin late PROVE FALSE
      OBVIOUS
    <3>2. secure[p] <=> disk.seal # Absent
      BY <1>1, <2>3, <3>1 DEF StoreInv, ModeKnown, Loaded
    <3>3. secure[p] => key[p] # Absent
      BY <1>1, <2>3 DEF StoreInv, SelfKnown
    <3> QED
      BY <1>1, <2>3, <3>2, <3>3 DEF FormChanges
  <2> QED
    BY <2>3, <2>4 DEF Editing
<1> QED
  BY <1>1, StoreInvariant, PTL DEF Spec, ModeStands

-----------------------------------------------------------------------------
(* What was saved reads back.                                              *)

(* What an entry reads as beside what the keyring holds of it.             *)
Shown(x, r) ==
    IF x = Absent THEN Absent
    ELSE IF x.flag /\ x.secret = 0 THEN r.secret ELSE x.secret

(* A token without its secret is that of an entry the keyring keeps.       *)
Whole(x) == x = Absent \/ x.token = 0 \/ x.secret # 0 \/ x.flag
Wholes   == \A e \in Entries : Whole(disk.body[e]) /\ \A p \in Procs : Whole(mem[p][e])

(* What is left to move is there.                                          *)
Movables ==
    \A p \in Procs :
        /\ pc[p] # "migrate" => todo[p] = {}
        /\ \A e \in todo[p] : mem[p][e] # Absent /\ PairOf(mem[p][e]) # Blank

(* A promise is kept by the file and by every store in hand while nobody   *)
(* changes the entry, and by the one process that runs while it does.      *)
InHand(p)     == pc[p] \notin {"idle", "unkey"}
Changes(p, e) == pc[p] \in Begun /\ e \in Touched(cmd[p])
Shows(p, e)   == Shown(mem[p][e], ring[e]) = saved[e]
KeptByAll(e)  ==
    /\ Shown(disk.body[e], ring[e]) = saved[e]
    /\ \A p \in Procs : ~Changes(p, e) /\ (InHand(p) => Shows(p, e))
KeptByOne(e)  ==
    \E p \in Procs : Changes(p, e) /\ Shows(p, e) /\ \A q \in Procs \ {p} : pc[q] = "idle"
Told(e)       == saved[e] = Unknown \/ KeptByAll(e) \/ KeptByOne(e)

KeptInv == Wholes /\ Movables /\ \A e \in Entries : Told(e)

(* What a command touches.                                                 *)
LEMMA TouchesOne ==
    ASSUME NEW c \in Commands \cup {NoCommand}
    PROVE  Touched(c) = IF c.op \in {"upsert", "remove"} THEN Kinds \X {c.name} ELSE {}
<1>1. CASE c \in [op : {"upsert"}, name : Names, cred : Values]
  <2>1. c.op = "upsert" /\ "name" \in DOMAIN c
    BY <1>1
  <2> QED
    BY <2>1 DEF Touched
<1>2. CASE c \in [op : {"remove"}, name : Names]
  <2>1. c.op = "remove" /\ "name" \in DOMAIN c
    BY <1>2
  <2> QED
    BY <2>1 DEF Touched
<1>3. CASE c \in [op : Switches]
  <2>1. c.op \notin {"upsert", "remove"} /\ "name" \notin DOMAIN c
    BY <1>3 DEF Switches
  <2> QED
    BY <2>1 DEF Touched
<1>4. CASE c = NoCommand
  <2>1. c.op = "none" /\ "name" \notin DOMAIN c
    BY <1>4 DEF NoCommand
  <2> QED
    BY <2>1 DEF Touched
<1> QED
  BY <1>1, <1>2, <1>3, <1>4 DEF Commands

(* Filling in from the keyring, in whole or in part, does not change what  *)
(* an entry reads as.                                                      *)
LEMMA HydratedShows ==
    ASSUME SecureAssumption, NEW e \in Entries, NEW x \in Entry, NEW lost,
           ring \in [Entries -> Pair], Whole(x)
    PROVE  /\ Shown(Hydrated(e, x, lost), ring[e]) = Shown(x, ring[e])
           /\ Whole(Hydrated(e, x, lost))
<1>1. CASE ~x.flag \/ x.secret # 0
  BY <1>1 DEF Hydrated
<1>2. CASE ~(~x.flag \/ x.secret # 0)
  <2> DEFINE s == IF <<e, "secret">> \in lost \/ (ring[e].secret = 0 /\ e[1] = "source")
                  THEN x.secret ELSE ring[e].secret
             k == IF <<e, "token">> \in lost \/ (ring[e].token = 0 /\ e[1] = "source")
                  THEN x.token ELSE ring[e].token
  <2>1. x # Absent /\ Hydrated(e, x, lost) \in Entry \cup {Absent}
    BY HydratedTyped, EntryParts
  <2>2. Hydrated(e, x, lost) = [x EXCEPT !.secret = s, !.token = k]
    BY <1>2, <2>1 DEF Hydrated
  <2>3. s \in {0, ring[e].secret} /\ x.secret = 0 /\ x.flag = TRUE
    BY <1>2 DEF Entry
  <2> HIDE DEF s, k
  <2>4. Hydrated(e, x, lost) = [secret |-> s, token |-> k, flag |-> TRUE]
    BY <2>2, <2>3 DEF Entry
  <2>5. s \in Values /\ k \in Values
    BY EntryParts, <2>3 DEF Pair, s, k, Entry
  <2>6. Hydrated(e, x, lost) # Absent
    <3>1. Hydrated(e, x, lost) \in Entry
      BY <2>4, <2>5 DEF Entry
    <3> QED BY <3>1, EntryParts
  <2> DEFINE h == Hydrated(e, x, lost)
  <2>7. h.flag = TRUE /\ h.secret = s /\ h # Absent
    BY <2>4, <2>6
  <2> HIDE DEF h
  <2>8. Shown(h, ring[e]) = ring[e].secret
    BY <2>3, <2>7 DEF Shown
  <2>9. Shown(x, ring[e]) = ring[e].secret
    BY <2>1, <2>3 DEF Shown
  <2>10. Whole(h)
    BY <2>7 DEF Whole
  <2> QED
    BY <2>8, <2>9, <2>10 DEF h
<1> QED
  BY <1>1, <1>2

LEMMA ReadsShown ==
    ASSUME SecureAssumption, TypeInv, NEW e \in Entries
    PROVE  Reads(e) = Shown(disk.body[e], ring[e])
<1> DEFINE x == disk.body[e]
<1>1. CASE x = Absent
  BY <1>1 DEF Reads, Shown
<1>2. CASE x # Absent
  <2>1. x \in Entry
    BY <1>2 DEF TypeInv, TypedDisk, Store
  <2> HIDE DEF x
  <2>2. CASE ~x.flag \/ x.secret # 0
    <3>1. Hydrated(e, x, {}).secret = Shown(x, ring[e])
      BY <1>2, <2>2 DEF Hydrated, Shown
    <3> QED BY <1>2, <3>1 DEF Reads, x
  <2>3. CASE ~(~x.flag \/ x.secret # 0)
    <3> DEFINE s == IF ring[e].secret = 0 /\ e[1] = "source" THEN x.secret ELSE ring[e].secret
               k == IF ring[e].token = 0 /\ e[1] = "source" THEN x.token ELSE ring[e].token
    <3>1. Hydrated(e, x, {}) = [x EXCEPT !.secret = s, !.token = k]
      BY <1>2, <2>3 DEF Hydrated
    <3>2. s = ring[e].secret
      BY <2>3
    <3> HIDE DEF s, k
    <3>3. Hydrated(e, x, {}).secret = s
      BY <2>1, <3>1 DEF Entry
    <3> QED
      BY <1>2, <2>3, <3>2, <3>3 DEF Reads, Shown, x
  <2> QED BY <2>2, <2>3
<1> QED
  BY <1>1, <1>2

LEMMA KeptReadsBack == ASSUME SecureAssumption, TypeInv, KeptInv PROVE ReadsBack
<1> SUFFICES ASSUME NEW e \in Entries
             PROVE  \/ \E p \in Procs : pc[p] \in Begun /\ e \in Touched(cmd[p])
                    \/ saved[e] = Unknown
                    \/ Reads(e) = saved[e]
  BY DEF ReadsBack
<1> QED
  BY ReadsShown DEF KeptInv, Told, KeptByAll, KeptByOne, Changes

-----------------------------------------------------------------------------
(* Leaving.                                                                *)

LEMMA ExitMem ==
    ASSUME TypeInv, NEW p \in Procs, Exit(p)
    PROVE  /\ pc'[p] = "idle" /\ mem'[p] = Empty /\ todo'[p] = {}
           /\ \A q \in Procs \ {p} : /\ pc'[q] = pc[q] /\ cmd'[q] = cmd[q]
                                     /\ mem'[q] = mem[q] /\ todo'[q] = todo[q]
  BY DEF Exit, TypeInv, TypedProcs

(* Nothing is promised of what the one that leaves was changing.           *)
LEMMA ExitTells ==
    ASSUME TypeInv, KeptInv, NEW p \in Procs, pc[p] # "idle", Exit(p), UNCHANGED <<disk, ring>>,
           \A e \in Entries : saved'[e] = Unknown \/ (saved'[e] = saved[e] /\ ~Changes(p, e))
    PROVE  KeptInv'
<1>1. Wholes' /\ Movables'
  BY ExitMem DEF KeptInv, Wholes, Whole, Movables, Empty
<1>2. ASSUME NEW e \in Entries, saved'[e] # Unknown PROVE KeptByAll(e)'
  <2>1. saved'[e] = saved[e] /\ ~Changes(p, e)
    BY <1>2
  <2>2. KeptByAll(e)
    BY <1>2, <2>1 DEF KeptInv, Told, KeptByOne
  <2>3. \A q \in Procs : ~Changes(q, e)' /\ (InHand(q)' => Shows(q, e)')
    BY <2>1, <2>2, ExitMem DEF KeptByAll, Changes, Begun, InHand, Shows
  <2> QED BY <2>1, <2>2, <2>3 DEF KeptByAll
<1> QED BY <1>1, <1>2 DEF KeptInv, Told

LEMMA GiveUpTells ==
    ASSUME TypeInv, KeptInv, NEW p \in Procs, pc[p] # "idle", GiveUp(p)
    PROVE  KeptInv'
<1>1. \A e \in Entries : saved'[e] = IF Changes(p, e) THEN Unknown ELSE saved[e]
  BY DEF GiveUp, Forget, Changes
<1> QED
  BY <1>1, ExitTells DEF GiveUp

LEMMA UnkeyTells ==
    ASSUME TypeInv, KeptInv, NEW p \in Procs, Unkey(p)
    PROVE  KeptInv'
  BY ExitTells DEF Unkey, Changes, Begun

(* The rename puts the store in hand where the promise is read.            *)
LEMMA RenameTells ==
    ASSUME TypeInv, KeptInv, NEW p \in Procs, Rename(p)
    PROVE  KeptInv'
<1>1. pc[p] = "rename" /\ disk'.body = mem[p] /\ UNCHANGED <<ring, saved>>
  BY DEF Rename, Image
<1>2. /\ pc'[p] \in {"idle", "unkey"} /\ todo'[p] = {}
      /\ \A e \in Entries : Whole(mem'[p][e])
      /\ \A q \in Procs \ {p} : /\ pc'[q] = pc[q] /\ cmd'[q] = cmd[q]
                                /\ mem'[q] = mem[q] /\ todo'[q] = todo[q]
  <2>1. CASE Exit(p)
    BY <2>1, ExitMem DEF Empty, Whole
  <2>2. CASE pc' = [pc EXCEPT ![p] = "unkey"] /\ UNCHANGED <<cmd, mem, todo>>
    BY <1>1, <2>2 DEF TypeInv, TypedProcs, KeptInv, Movables, Wholes
  <2> QED BY <2>1, <2>2 DEF Rename
<1>3. Wholes' /\ Movables'
  BY <1>1, <1>2 DEF KeptInv, Wholes, Movables
<1>4. ASSUME NEW e \in Entries, saved[e] # Unknown PROVE KeptByAll(e)'
  <2>1. \A q \in Procs \ {p} : ~Changes(q, e) /\ (InHand(q) => Shows(q, e))
    BY <1>1, <1>4 DEF KeptInv, Told, KeptByAll, KeptByOne, Changes, Begun, InHand
  <2>2. Shows(p, e)
    BY <1>1, <1>4 DEF KeptInv, Told, KeptByAll, KeptByOne, InHand
  <2>3. \A q \in Procs : ~Changes(q, e)' /\ (InHand(q)' => Shows(q, e)')
    BY <1>1, <1>2, <2>1 DEF Changes, Begun, InHand, Shows
  <2> QED BY <1>1, <2>2, <2>3 DEF KeptByAll, Shows
<1> QED BY <1>1, <1>3, <1>4 DEF KeptInv, Told

-----------------------------------------------------------------------------
(* Loading.                                                                *)

LEMMA ReadTells ==
    ASSUME TypeInv, KeptInv, NEW p \in Procs, Read(p)
    PROVE  KeptInv'
<1>1. /\ pc[p] = "idle" /\ UNCHANGED <<disk, ring, todo>>
      /\ pc' = [pc EXCEPT ![p] = "open"] /\ mem' = [mem EXCEPT ![p] = disk.body]
      /\ \A e \in Entries : saved'[e] = IF \E q \in Procs : Changes(q, e)
                                        THEN Unknown ELSE saved[e]
      /\ \E c : cmd' = [cmd EXCEPT ![p] = c]
  BY DEF Read, Changes
<1>2. /\ pc'[p] = "open" /\ mem'[p] = disk.body
      /\ \A q \in Procs \ {p} : /\ pc'[q] = pc[q] /\ cmd'[q] = cmd[q] /\ mem'[q] = mem[q]
  BY <1>1 DEF TypeInv, TypedProcs
<1>3. Wholes' /\ Movables'
  BY <1>1, <1>2 DEF KeptInv, Wholes, Movables
<1>4. ASSUME NEW e \in Entries, saved'[e] # Unknown PROVE KeptByAll(e)'
  <2>1. saved'[e] = saved[e] /\ \A q \in Procs : ~Changes(q, e)
    BY <1>1, <1>4
  <2>2. KeptByAll(e)
    BY <1>4, <2>1 DEF KeptInv, Told, KeptByOne
  <2>3. \A q \in Procs : ~Changes(q, e)' /\ (InHand(q)' => Shows(q, e)')
    BY <1>1, <1>2, <2>1, <2>2 DEF KeptByAll, Changes, Begun, InHand, Shows
  <2> QED BY <1>1, <2>1, <2>2, <2>3 DEF KeptByAll
<1> QED BY <1>3, <1>4 DEF KeptInv, Told

LEMMA OpenTells ==
    ASSUME SecureAssumption, TypeInv, KeptInv, NEW p \in Procs, Open(p)
    PROVE  KeptInv'
<1>1. /\ pc[p] = "open" /\ pc' = [pc EXCEPT ![p] = "apply"]
      /\ UNCHANGED <<disk, ring, todo, saved, cmd>>
  BY DEF Open, Hydrate
<1>2. PICK lost : mem' = [mem EXCEPT ![p] = [e \in Entries |->
                     IF e \in Wanted(p) THEN Hydrated(e, mem[p][e], lost) ELSE mem[p][e]]]
  BY DEF Open, Hydrate
<1>3. /\ pc'[p] = "apply"
      /\ \A q \in Procs \ {p} : pc'[q] = pc[q] /\ mem'[q] = mem[q]
  BY <1>1, <1>2 DEF TypeInv, TypedProcs
<1>4. ASSUME NEW e \in Entries
      PROVE  Shown(mem'[p][e], ring[e]) = Shown(mem[p][e], ring[e]) /\ Whole(mem'[p][e])
  <2>1. mem'[p][e] = IF e \in Wanted(p) THEN Hydrated(e, mem[p][e], lost) ELSE mem[p][e]
    BY <1>2 DEF TypeInv, TypedProcs
  <2>2. CASE e \in Wanted(p)
    <3>1. mem[p][e] \in Entry /\ ring \in [Entries -> Pair] /\ Whole(mem[p][e])
      BY <2>2 DEF Wanted, TypeInv, TypedProcs, TypedDisk, Store, KeptInv, Wholes
    <3> QED BY <2>1, <2>2, <3>1, HydratedShows
  <2>3. CASE e \notin Wanted(p)
    BY <2>1, <2>3 DEF KeptInv, Wholes
  <2> QED BY <2>2, <2>3
<1>5. todo[p] = {}
  BY <1>1 DEF KeptInv, Movables
<1>6. Wholes' /\ Movables'
  BY <1>1, <1>3, <1>4, <1>5 DEF KeptInv, Wholes, Movables
<1>7. ASSUME NEW e \in Entries, saved[e] # Unknown PROVE KeptByAll(e)'
  <2>1. KeptByAll(e)
    BY <1>1, <1>7 DEF KeptInv, Told, KeptByOne, Changes, Begun
  <2>2. \A q \in Procs : ~Changes(q, e)' /\ (InHand(q)' => Shows(q, e)')
    BY <1>1, <1>3, <1>4, <2>1 DEF KeptByAll, Changes, Begun, InHand, Shows
  <2> QED BY <1>1, <2>1, <2>2 DEF KeptByAll
<1> QED BY <1>1, <1>6, <1>7 DEF KeptInv, Told

-----------------------------------------------------------------------------
(* The steps of a save, and of a switch, that leave entries alone.         *)

LEMMA MovableThere ==
    ASSUME NEW p, NEW store, NEW e \in Movable(p, store)
    PROVE  e \in Entries /\ store[e] # Absent /\ PairOf(store[e]) # Blank
  BY DEF Movable

LEMMA StageTells ==
    ASSUME TypeInv, KeptInv, NEW p \in Procs,
           pc[p] \in Begun \/ (pc[p] = "apply" /\ Touched(cmd[p]) = {}),
           NEW s \in Begun, pc' = [pc EXCEPT ![p] = s],
           mem' = mem, UNCHANGED <<disk, ring, saved, cmd>>,
           \/ UNCHANGED todo /\ todo[p] = {}
           \/ s = "migrate" /\ todo' = [todo EXCEPT ![p] = Movable(p, mem[p])]
    PROVE  KeptInv'
<1>1. pc[p] # "idle" /\ pc'[p] = s /\ \A q \in Procs \ {p} : pc'[q] = pc[q]
  BY DEF TypeInv, TypedProcs, Begun
<1>2. Movables'
  <2>1. /\ \A q \in Procs \ {p} : todo'[q] = todo[q]
        /\ \A e \in todo'[p] : mem[p][e] # Absent /\ PairOf(mem[p][e]) # Blank
        /\ s # "migrate" => todo'[p] = {}
    <3>1. CASE UNCHANGED todo /\ todo[p] = {}
      BY <3>1
    <3>2. CASE s = "migrate" /\ todo' = [todo EXCEPT ![p] = Movable(p, mem[p])]
      BY <3>2, MovableThere DEF TypeInv, TypedProcs
    <3> QED BY <3>1, <3>2
  <2> QED BY <1>1, <2>1 DEF KeptInv, Movables
<1>3. Wholes'
  BY DEF KeptInv, Wholes
<1>4. ASSUME NEW e \in Entries PROVE Told(e)'
  <2>1. \A q \in Procs : /\ Changes(q, e)' <=> Changes(q, e)
                         /\ Shows(q, e)' <=> Shows(q, e)
                         /\ InHand(q)' <=> InHand(q)
                         /\ pc'[q] = "idle" <=> pc[q] = "idle"
    BY <1>1 DEF Changes, Shows, InHand, Begun
  <2>2. KeptByAll(e) => KeptByAll(e)'
    BY <2>1 DEF KeptByAll
  <2>3. KeptByOne(e) => KeptByOne(e)'
    BY <2>1 DEF KeptByOne
  <2> QED BY <2>2, <2>3 DEF KeptInv, Told
<1> QED BY <1>2, <1>3, <1>4 DEF KeptInv

LEMMA SwitchesTell ==
    ASSUME TypeInv, KeptInv, NEW p \in Procs,
           \/ Enable(p) \/ Disable(p) \/ Migrated(p) \/ FindKey(p) \/ NoKey(p) \/ MintKey(p)
           \/ Write(p)
    PROVE  KeptInv'
<1>1. cmd[p] \in Commands \cup {NoCommand} /\ (pc[p] # "migrate" => todo[p] = {})
  BY DEF TypeInv, TypedProcs, KeptInv, Movables
<1>2. mem = [mem EXCEPT ![p] = mem[p]]
  BY DEF TypeInv, TypedProcs
<1>3. CASE Enable(p)
  <2>1. Touched(cmd[p]) = {}
    BY <1>1, <1>3, TouchesOne DEF Enable
  <2> QED
    BY <1>1, <1>3, <2>1, StageTells DEF Enable, Begun
<1>4. CASE Disable(p)
  <2>1. Touched(cmd[p]) = {}
    BY <1>1, <1>4, TouchesOne DEF Disable
  <2> QED
    BY <1>2, <1>4, <2>1, StageTells DEF Disable, BeginSave, Begun
<1>5. CASE Migrated(p)
  BY <1>5, StageTells DEF Migrated, Begun
<1>6. CASE NoKey(p) \/ Write(p)
  BY <1>1, <1>6, StageTells DEF NoKey, Write, Begun
<1>7. CASE FindKey(p) \/ MintKey(p)
  <2>1. pc[p] \in {"find", "mint"} /\ \E k : Proceed(p, k)
    BY <1>7 DEF FindKey, MintKey
  <2>2. UNCHANGED <<disk, ring, saved, cmd>>
    BY <2>1 DEF Proceed
  <2>3. CASE secure[p]
    BY <1>1, <2>1, <2>2, <2>3, StageTells DEF Proceed, Begun
  <2>4. CASE ~secure[p]
    BY <1>2, <2>1, <2>2, <2>4, StageTells DEF Proceed, BeginSave, Begun
  <2> QED
    BY <2>3, <2>4
<1> QED
  BY <1>3, <1>4, <1>5, <1>6, <1>7

-----------------------------------------------------------------------------
(* Changing the store, and moving its secrets.                             *)

(* A command begins to change entries: m is then its store.  What it       *)
(* touches reads as promised when it runs alone, and nothing else changes. *)
Alters(p, m) ==
    /\ pc[p] = "apply" /\ pc' = [pc EXCEPT ![p] = "migrate"]
    /\ mem' = [mem EXCEPT ![p] = m] /\ todo' = [todo EXCEPT ![p] = Movable(p, m)]
    /\ disk' = disk /\ cmd' = cmd
    /\ \A e \in Entries : Whole(m[e])
    /\ \A e \in Entries \ Touched(cmd[p]) :
           saved'[e] = saved[e] /\ m[e] = mem[p][e] /\ ring'[e] = ring[e]
    /\ \A e \in Entries : e \in Touched(cmd[p]) =>
           \/ saved'[e] = Unknown
           \/ ~Beside(p) /\ Shown(m[e], ring'[e]) = saved'[e]

LEMMA EditTells ==
    ASSUME TypeInv, KeptInv, NEW p \in Procs, NEW m, Alters(p, m)
    PROVE  KeptInv'
<1> USE DEF Alters
<1>1. /\ pc'[p] = "migrate" /\ mem'[p] = m /\ todo'[p] = Movable(p, m)
      /\ \A q \in Procs \ {p} : pc'[q] = pc[q] /\ mem'[q] = mem[q] /\ todo'[q] = todo[q]
  BY DEF TypeInv, TypedProcs
<1>2. Wholes' /\ Movables'
  BY <1>1, MovableThere DEF KeptInv, Wholes, Movables
<1>3. ASSUME NEW e \in Entries, saved'[e] # Unknown PROVE Told(e)'
  <2>1. CASE e \in Touched(cmd[p])
    <3>1. ~Beside(p) /\ Shown(m[e], ring'[e]) = saved'[e]
      BY <1>3, <2>1
    <3>2. Changes(p, e)' /\ Shows(p, e)' /\ \A q \in Procs \ {p} : pc'[q] = "idle"
      BY <1>1, <2>1, <3>1 DEF Changes, Shows, Begun, Beside
    <3> QED BY <3>2 DEF Told, KeptByOne
  <2>2. CASE e \notin Touched(cmd[p])
    <3>1. /\ saved'[e] = saved[e] /\ m[e] = mem[p][e] /\ ring'[e] = ring[e]
      BY <2>2
    <3>2. \A q \in Procs : /\ Changes(q, e)' <=> Changes(q, e)
                           /\ Shows(q, e)' <=> Shows(q, e)
                           /\ InHand(q)' <=> InHand(q)
      BY <1>1, <2>2, <3>1 DEF Changes, Shows, InHand, Begun
    <3>3. KeptByAll(e)
      BY <1>3, <2>2, <3>1 DEF KeptInv, Told, KeptByOne, Changes, Begun
    <3>4. KeptByAll(e)'
      BY <3>1, <3>2, <3>3 DEF KeptByAll
    <3> QED BY <3>4 DEF Told
  <2> QED BY <2>1, <2>2
<1> QED BY <1>2, <1>3 DEF KeptInv, Told

LEMMA GivenShows ==
    ASSUME SecureAssumption, NEW v \in Values, NEW r
    PROVE  Given(v) \in Entry /\ Whole(Given(v)) /\ Shown(Given(v), r) = v
<1>1. Cred(v).secret = v /\ (v = 0 => Cred(v).token = 0)
  BY DEF Cred, SecureAssumption
<1>2. Given(v) \in Entry /\ Given(v) # Absent
  BY EntryParts
<1>3. Given(v) = [secret |-> v, token |-> Cred(v).token, flag |-> FALSE]
  BY <1>1 DEF Given
<1> QED
  BY <1>1, <1>2, <1>3 DEF Shown, Whole

LEMMA UpsertTells ==
    ASSUME SecureAssumption, TypeInv, KeptInv, NEW p \in Procs, Upsert(p)
    PROVE  KeptInv'
<1> DEFINE c == cmd[p]
           profile == <<"profile", c.name>>
           source == <<"source", c.name>>
           old == mem[p][profile]
           given == Given(c.cred)
           takes == Inherits(old, c.cred)
           m == [mem[p] EXCEPT ![profile] = IF takes THEN old ELSE given, ![source] = given]
<1>1. /\ pc[p] = "apply" /\ c.op = "upsert"
      /\ mem' = [mem EXCEPT ![p] = m]
      /\ todo' = [todo EXCEPT ![p] = Movable(p, m)]
      /\ pc' = [pc EXCEPT ![p] = "migrate"]
      /\ ring' = [ring EXCEPT ![source] = IF mem[p][source] = Absent THEN Blank ELSE ring[source]]
      /\ saved' = [saved EXCEPT
              ![profile] = IF Beside(p) THEN Unknown
                           ELSE IF takes THEN saved[profile] ELSE c.cred,
              ![source]  = IF Beside(p) THEN Unknown ELSE c.cred]
      /\ UNCHANGED <<disk, cmd>>
  BY DEF Upsert, BeginSave
<1>2. c \in Commands /\ c.name \in Names /\ c.cred \in Values
  BY <1>1, NamedCommand DEF TypeInv, TypedProcs, NoCommand
<1>3. /\ profile \in Entries /\ source \in Entries /\ profile # source
      /\ \A e \in Touched(c) : e = profile \/ e = source
      /\ profile \in Touched(c) /\ source \in Touched(c)
  <2>1. Touched(c) = Kinds \X {c.name}
    BY <1>1, <1>2, TouchesOne
  <2> QED
    BY <1>2, <2>1 DEF Entries, Kinds
<1>4. given \in Entry /\ Whole(given) /\ \A r : Shown(given, r) = c.cred
  BY <1>2, GivenShows
<1>5. mem[p] \in Store /\ ring \in [Entries -> Pair] /\ DOMAIN saved = Entries
      /\ \A e \in Entries : Whole(mem[p][e])
  BY DEF TypeInv, TypedDisk, TypedProcs, KeptInv, Wholes
<1> HIDE DEF c, profile, source, given, takes
<1>6. /\ m[source] = given /\ m[profile] = (IF takes THEN old ELSE given)
      /\ \A e \in Entries \ {profile, source} : m[e] = mem[p][e]
  BY <1>3, <1>5 DEF Store
<1> HIDE DEF m
<1>7. \A e \in Entries \ {source} : ring'[e] = ring[e]
  BY <1>1, <1>3, <1>5
<1>8. /\ Beside(p) => saved'[source] = Unknown /\ saved'[profile] = Unknown
      /\ ~Beside(p) => /\ saved'[source] = c.cred
                       /\ saved'[profile] = IF takes THEN saved[profile] ELSE c.cred
      /\ \A e \in Entries \ {profile, source} : saved'[e] = saved[e]
  BY <1>1, <1>3, <1>5
<1>9. ~Beside(p) /\ saved'[profile] # Unknown => Shown(m[profile], ring'[profile]) = saved'[profile]
  <2>1. CASE ~takes
    BY <1>4, <1>6, <1>8, <2>1
  <2>2. CASE takes
    <3> SUFFICES ASSUME ~Beside(p), saved[profile] # Unknown
                 PROVE  Shown(old, ring[profile]) = saved[profile]
      BY <1>3, <1>6, <1>7, <1>8, <2>2
    <3>1. \A q \in Procs : ~Changes(q, profile)
      BY <1>1 DEF Beside, Changes, Begun
    <3>2. KeptByAll(profile)
      BY <1>3, <3>1 DEF KeptInv, Told, KeptByOne
    <3> QED
      BY <1>1, <3>2 DEF KeptByAll, InHand, Shows
  <2> QED
    BY <2>1, <2>2
<1>10. \A e \in Entries : Whole(m[e])
  BY <1>3, <1>4, <1>5, <1>6
<1>11. \A e \in Entries : e \in Touched(cmd[p]) =>
           \/ saved'[e] = Unknown
           \/ ~Beside(p) /\ Shown(m[e], ring'[e]) = saved'[e]
  BY <1>3, <1>4, <1>6, <1>8, <1>9 DEF c
<1>12. \A e \in Entries \ Touched(cmd[p]) :
           saved'[e] = saved[e] /\ m[e] = mem[p][e] /\ ring'[e] = ring[e]
  BY <1>3, <1>6, <1>7, <1>8 DEF c
<1>13. Alters(p, m)
  BY <1>1, <1>10, <1>11, <1>12 DEF Alters
<1> QED
  BY <1>13, EditTells

LEMMA RemoveTells ==
    ASSUME TypeInv, KeptInv, NEW p \in Procs, Remove(p)
    PROVE  KeptInv'
<1> DEFINE gone == Touched(cmd[p])
           m == [e \in Entries |-> IF e \in gone THEN Absent ELSE mem[p][e]]
<1>1. /\ pc[p] = "apply" /\ mem' = [mem EXCEPT ![p] = m]
      /\ todo' = [todo EXCEPT ![p] = Movable(p, m)]
      /\ pc' = [pc EXCEPT ![p] = "migrate"]
      /\ ring' \in {ring, [e \in Entries |-> IF e \in gone THEN Blank ELSE ring[e]]}
      /\ saved' = [e \in Entries |-> IF e \in gone THEN (IF Beside(p) THEN Unknown ELSE Absent)
                                     ELSE saved[e]]
      /\ UNCHANGED <<disk, cmd>>
  BY DEF Remove, BeginSave
<1> HIDE DEF gone
<1>2. \A e \in Entries : m[e] = IF e \in gone THEN Absent ELSE mem[p][e]
  OBVIOUS
<1> HIDE DEF m
<1>3. \A e \in Entries : Whole(m[e])
  BY <1>2 DEF KeptInv, Wholes, Whole
<1>4. \A e \in Entries \ gone : saved'[e] = saved[e] /\ m[e] = mem[p][e] /\ ring'[e] = ring[e]
  BY <1>1, <1>2
<1>5. \A e \in Entries : e \in gone =>
           saved'[e] = Unknown \/ (~Beside(p) /\ Shown(m[e], ring'[e]) = saved'[e])
  BY <1>1, <1>2 DEF Shown
<1>6. Alters(p, m)
  BY <1>1, <1>3, <1>4, <1>5 DEF Alters, gone
<1> QED
  BY <1>6, EditTells

(* A secret that moves to the keyring is read from there from then on, and *)
(* no other reading of the entry changes; what the keyring refuses stays   *)
(* in the store.                                                           *)
LEMMA MigrateTells ==
    ASSUME SecureAssumption, TypeInv, KeptInv, NEW p \in Procs, Migrate(p) \/ MigrateFails(p)
    PROVE  KeptInv'
<1> DEFINE moved == [secret |-> 0, token |-> 0, flag |-> TRUE]
<1>1. PICK d \in Due(p) :
         /\ \A e \in Entries \ {d} : ring'[e] = ring[e]
         /\ ring'[d].secret \in {ring[d].secret, SecretPut(d, mem[p][d])}
         /\ \/ mem' = mem
            \/ /\ mem' = [mem EXCEPT ![p] = [mem[p] EXCEPT ![d] = moved]]
               /\ ring'[d].secret = SecretPut(d, mem[p][d])
         /\ Settle(p, d)
  <2>1. ring \in [Entries -> Pair] /\ todo[p] \in SUBSET Entries
    BY DEF TypeInv, TypedDisk, TypedProcs
  <2>2. CASE Migrate(p)
    <3>1. PICK d \in Due(p) :
            /\ ring' = [ring EXCEPT ![d] =
                  [secret |-> SecretPut(d, mem[p][d]),
                   token  |-> IF mem[p][d].token = 0 THEN ring[d].token ELSE mem[p][d].token]]
            /\ mem' = [mem EXCEPT ![p] = [mem[p] EXCEPT ![d] = moved]]
            /\ Settle(p, d)
      BY <2>2 DEF Migrate
    <3>2. d \in Entries
      BY <2>1 DEF Due
    <3>3. ring'[d].secret = SecretPut(d, mem[p][d]) /\ \A e \in Entries \ {d} : ring'[e] = ring[e]
      BY <2>1, <3>1, <3>2
    <3> QED BY <3>1, <3>3
  <2>3. CASE MigrateFails(p)
    <3>1. PICK d \in Due(p) :
            /\ ring' = ring \/ ring' = [ring EXCEPT ![d].secret = SecretPut(d, mem[p][d])]
            /\ mem' = mem /\ Settle(p, d)
      BY <2>3 DEF MigrateFails
    <3>2. d \in Entries
      BY <2>1 DEF Due
    <3>3. /\ ring'[d].secret \in {ring[d].secret, SecretPut(d, mem[p][d])}
          /\ \A e \in Entries \ {d} : ring'[e] = ring[e]
      BY <2>1, <3>1, <3>2 DEF Pair
    <3> QED BY <3>1, <3>3
  <2> QED BY <2>2, <2>3
<1> DEFINE x == mem[p][d]
<1>2. /\ pc[p] = "migrate" /\ todo' = [todo EXCEPT ![p] = todo[p] \ {d}]
      /\ saved' = [saved EXCEPT ![d] = IF Dropped(d) THEN Unknown ELSE saved[d]]
      /\ UNCHANGED <<disk, cmd, pc>>
  BY <1>1 DEF Migrate, MigrateFails, Settle
<1>3. /\ d \in todo[p] /\ d \in Entries /\ x \in Entry /\ x # Absent
      /\ PairOf(x) # Blank /\ Whole(x)
  <2>1. d \in todo[p] /\ d \in Entries
    BY <1>1 DEF Due, TypeInv, TypedProcs
  <2> QED
    BY <2>1 DEF TypeInv, TypedProcs, Store, KeptInv, Movables, Wholes
<1>4. /\ \A q \in Procs \ {p} : mem'[q] = mem[q] /\ todo'[q] = todo[q]
      /\ todo'[p] = todo[p] \ {d}
      /\ \A e \in Entries \ {d} : mem'[p][e] = mem[p][e]
      /\ mem'[p][d] = x \/ (mem'[p][d] = moved /\ ring'[d].secret = SecretPut(d, x))
  <2>1. mem \in [Procs -> Store] /\ mem[p] \in Store /\ todo \in [Procs -> SUBSET Entries]
    BY DEF TypeInv, TypedProcs
  <2>2. CASE mem' = mem
    BY <1>2, <2>1, <2>2
  <2>3. CASE mem' # mem
    <3> DEFINE m == [mem[p] EXCEPT ![d] = moved]
    <3>1. mem' = [mem EXCEPT ![p] = m] /\ ring'[d].secret = SecretPut(d, x)
      BY <1>1, <2>3
    <3>2. m[d] = moved /\ \A e \in Entries \ {d} : m[e] = mem[p][e]
      BY <1>3, <2>1 DEF Store
    <3> HIDE DEF m, x, moved
    <3>3. mem'[p] = m /\ \A q \in Procs \ {p} : mem'[q] = mem[q]
      BY <2>1, <3>1
    <3>4. todo'[p] = todo[p] \ {d} /\ \A q \in Procs \ {p} : todo'[q] = todo[q]
      BY <1>2, <2>1
    <3> QED BY <3>1, <3>2, <3>3, <3>4
  <2> QED BY <2>2, <2>3
<1>5. moved \in Entry /\ moved # Absent /\ Whole(moved)
  <2>1. moved \in Entry
    BY EntryParts DEF Entry
  <2>2. moved # Absent
    BY <2>1, EntryParts
  <2> QED BY <2>1, <2>2 DEF Whole
<1>6. /\ saved'[d] = IF Dropped(d) THEN Unknown ELSE saved[d]
      /\ \A e \in Entries \ {d} : saved'[e] = saved[e]
  BY <1>2, <1>3 DEF TypeInv, TypedDisk
<1>7. x.secret = 0 => x.flag
  BY <1>3 DEF PairOf, Blank, Whole, Entry
<1> HIDE DEF x, moved
<1>8. Wholes' /\ Movables'
  <2>1. \A e \in Entries : Whole(mem'[p][e])
    BY <1>3, <1>4, <1>5 DEF KeptInv, Wholes
  <2>2. \A e \in todo'[p] : mem'[p][e] # Absent /\ PairOf(mem'[p][e]) # Blank
    BY <1>4 DEF KeptInv, Movables, TypeInv, TypedProcs
  <2> QED BY <1>2, <1>4, <2>1, <2>2 DEF KeptInv, Wholes, Movables
<1>9. ASSUME NEW e \in Entries \ {d} PROVE Told(e)'
  <2>1. \A q \in Procs : /\ Changes(q, e)' <=> Changes(q, e)
                         /\ Shows(q, e)' <=> Shows(q, e)
                         /\ InHand(q)' <=> InHand(q)
    BY <1>1, <1>2, <1>4, <1>6 DEF Changes, Shows, InHand
  <2>2. KeptByAll(e) => KeptByAll(e)'
    BY <1>1, <1>2, <1>6, <2>1 DEF KeptByAll
  <2>3. KeptByOne(e) => KeptByOne(e)'
    BY <1>2, <2>1 DEF KeptByOne
  <2> QED BY <1>6, <2>2, <2>3 DEF KeptInv, Told
<1>10. ASSUME saved'[d] # Unknown PROVE Told(d)'
  <2>1. saved'[d] = saved[d] /\ ~Dropped(d) /\ (KeptByAll(d) \/ KeptByOne(d))
    BY <1>3, <1>6, <1>10 DEF KeptInv, Told
  <2>2. Shown(x, ring[d]) = saved[d]
    BY <1>2, <2>1 DEF KeptByAll, KeptByOne, InHand, Shows, x
  <2>3. \/ ring'[d].secret = ring[d].secret
        \/ x.secret # 0 /\ ring'[d].secret = x.secret /\ saved[d] = x.secret
    BY <1>1, <1>3, <2>1, <2>2 DEF SecretPut, Dropped, Shown, x
  <2>4. ASSUME NEW y, Shown(y, ring[d]) = saved[d] PROVE Shown(y, ring'[d]) = saved[d]
    BY <2>3, <2>4 DEF Shown
  <2>5. Shown(mem'[p][d], ring'[d]) = saved[d]
    <3>1. CASE mem'[p][d] = x
      BY <2>2, <2>4, <3>1
    <3>2. CASE mem'[p][d] = moved /\ ring'[d].secret = SecretPut(d, x)
      <4>1. Shown(moved, ring'[d]) = ring'[d].secret
        BY <1>5 DEF Shown, moved
      <4>2. CASE x.secret = 0
        <5>1. Shown(x, ring[d]) = ring[d].secret /\ ring'[d].secret = ring[d].secret
          BY <1>3, <1>7, <2>3, <4>2 DEF Shown
        <5> QED BY <2>2, <3>2, <4>1, <5>1
      <4>3. CASE x.secret # 0
        <5>1. Shown(x, ring[d]) = x.secret /\ ring'[d].secret = x.secret
          BY <1>3, <3>2, <4>3 DEF Shown, SecretPut
        <5> QED BY <2>2, <3>2, <4>1, <5>1
      <4> QED BY <4>2, <4>3
    <3> QED BY <1>4, <3>1, <3>2
  <2>6. \A q \in Procs : /\ Changes(q, d)' <=> Changes(q, d)
                         /\ InHand(q)' <=> InHand(q)
                         /\ Shows(q, d) => Shows(q, d)'
    BY <1>2, <1>4, <2>1, <2>4, <2>5 DEF Changes, InHand, Shows
  <2>7. KeptByAll(d) => KeptByAll(d)'
    BY <1>2, <2>1, <2>4, <2>6 DEF KeptByAll
  <2>8. KeptByOne(d) => KeptByOne(d)'
    BY <1>2, <2>6 DEF KeptByOne
  <2> QED BY <2>1, <2>7, <2>8 DEF Told
<1> QED
  BY <1>8, <1>9, <1>10 DEF KeptInv, Told

-----------------------------------------------------------------------------
LEMMA InitKept == ASSUME SecureAssumption, Init PROVE KeptInv
  BY DEF Init, KeptInv, Wholes, Whole, Movables, Told, KeptByAll, Changes, InHand, Begun,
     Empty, Shown

LEMMA NextTells ==
    ASSUME SecureAssumption, TypeInv, KeptInv, [Next]_vars
    PROVE  KeptInv'
<1>1. ASSUME NEW p \in Procs, Step(p) PROVE KeptInv'
  <2>1. CASE Read(p) \/ Open(p)
    BY <2>1, ReadTells, OpenTells
  <2>2. CASE LoadFails(p) \/ Declines(p) \/ SaveFails(p) \/ Crash(p)
    <3>1. pc[p] # "idle" /\ GiveUp(p)
      BY <2>2 DEF LoadFails, Declines, SaveFails, Crash
    <3> QED
      BY <3>1, GiveUpTells
  <2>3. CASE Upsert(p) \/ Remove(p)
    BY <2>3, UpsertTells, RemoveTells
  <2>4. CASE \/ Enable(p) \/ Disable(p) \/ Migrated(p) \/ FindKey(p) \/ NoKey(p)
             \/ MintKey(p) \/ Write(p)
    BY <2>4, SwitchesTell
  <2>5. CASE Migrate(p) \/ MigrateFails(p)
    BY <2>5, MigrateTells
  <2>6. CASE Rename(p) \/ Unkey(p)
    BY <2>6, RenameTells, UnkeyTells
  <2> QED
    BY <1>1, <2>1, <2>2, <2>3, <2>4, <2>5, <2>6 DEF Step
<1>2. CASE UNCHANGED vars
  BY <1>2 DEF vars, KeptInv, Wholes, Movables, Told, KeptByAll, KeptByOne, Changes, InHand, Shows
<1> QED
  BY <1>1, <1>2 DEF Next

(* ReadsBack, for any hosts, names and credentials, with session tokens    *)
(* and without, however commands overlap: the secret that a command alone  *)
(* reported as saved reads back through commands for other names, alone or *)
(* side by side, switches of the mode, hosts without a keyring, refused    *)
(* keyring calls, and crashes anywhere.                                    *)
THEOREM SavedReadsBack ==
    ASSUME SecureAssumption, IsFiniteSet(Names) PROVE Spec => []ReadsBack
<1>1. Init => KeptInv
  BY InitKept
<1>2. TypeInv /\ KeptInv /\ [Next]_vars => KeptInv'
  BY NextTells
<1>3. Spec => []TypeInv
  BY TypeInvariant
<1>4. TypeInv /\ KeptInv => ReadsBack
  BY KeptReadsBack
<1> QED
  BY <1>1, <1>2, <1>3, <1>4, PTL DEF Spec
=============================================================================
