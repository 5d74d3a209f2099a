---------------------------- MODULE SecureStore ----------------------------
(***************************************************************************)
(* The profile store of s3b (pkg/core/profile): profiles.json, the secrets *)
(* of its profiles and sources in the OS keyring, and the switch between   *)
(* the plain and the sealed form of the file, whose master key lives in    *)
(* the keyring too.  Every command is a process of its own: it loads the   *)
(* store, changes it in memory, saves it and exits.  Nothing keeps two     *)
(* commands apart.  A process may die, and every keyring call and file     *)
(* write may fail, anywhere.                                               *)
(*                                                                         *)
(* An entry is the profile of a name or the data source that mirrors it.   *)
(* A credential is a secret and, perhaps, a session token, told apart by   *)
(* number; 0 is the empty string.  All else in an entry is left out.       *)
(***************************************************************************)
EXTENDS Naturals, FiniteSets

CONSTANTS
    Procs,        \* processes
    Ringless,     \* those without a keyring (a headless host, S3B_NO_KEYRING=1)
    Names,        \* connection names
    MaxCred,      \* credentials are 1..MaxCred
    TokenCreds,   \* the credentials that come with a session token
    Keys,         \* master keys there are to draw from
    Absent,       \* an entry or a key that is not there
    Unknown,      \* the promise about an entry of which nothing is promised
    MaxCommands,  \* bound: commands started
    MaxFaults     \* bound: calls that fail

Kinds   == {"profile", "source"}
Entries == Kinds \X Names
Values  == 0..MaxCred
Pair    == [secret : Values, token : Values]
Entry   == [secret : Values, token : Values, flag : BOOLEAN]
Store   == [Entries -> Entry \cup {Absent}]

ASSUME SecureAssumption ==
    /\ Ringless \subseteq Procs
    /\ MaxCred \in Nat /\ TokenCreds \subseteq 1..MaxCred
    /\ Absent \notin Keys \cup Entry
    /\ MaxCommands \in Nat /\ MaxFaults \in Nat

VARIABLES
    disk,      \* profiles.json: its entries, and the key it is sealed with
    ring,      \* keyring: the credential in the accounts of every entry
    master,    \* keyring: the master key
    pc,        \* where each process stands
    cmd,       \* its command
    mem,       \* its store: the file as read, then the loaded store
    secure,    \* the mode of that store
    todo,      \* entries whose secrets Save has yet to move to the keyring
    key,       \* the master key it works with
    stray,     \* files left beside profiles.json: whether each is plain
    saved,     \* history: the secret each entry should read back with
    late,      \* history: those who loaded the other form of the file, or may have
    crossed,   \* history: a switch ran beside another command of the keyring
    commands, faults

races == <<late, crossed>>
vars == <<disk, ring, master, pc, cmd, mem, secure, todo, key, stray, saved, races,
          commands, faults>>

Switches == {"enable", "disable"}
Commands == [op : {"upsert"}, name : Names, cred : Values]
            \cup [op : {"remove"}, name : Names]
            \cup [op : Switches]
NoCommand == [op |-> "none"]

Blank     == [secret |-> 0, token |-> 0]
Cred(v)   == [secret |-> v, token |-> IF v \in TokenCreds THEN v ELSE 0]
PairOf(x) == [secret |-> x.secret, token |-> x.token]
Empty     == [e \in Entries |-> Absent]

Touched(c)  == IF "name" \in DOMAIN c THEN Kinds \X {c.name} ELSE {}
HasRing(p)  == p \notin Ringless

(* Whether another process runs.                                           *)
Beside(p) == \E q \in Procs \ {p} : pc[q] # "idle"

-----------------------------------------------------------------------------
(* Loading.                                                                *)

Init ==
    /\ disk = [body |-> Empty, seal |-> Absent]
    /\ ring = [e \in Entries |-> Blank]
    /\ master = Absent
    /\ pc = [p \in Procs |-> "idle"]
    /\ cmd = [p \in Procs |-> NoCommand]
    /\ mem = [p \in Procs |-> Empty]
    /\ secure = [p \in Procs |-> FALSE]
    /\ todo = [p \in Procs |-> {}]
    /\ key = [p \in Procs |-> Absent]
    /\ stray = {}
    /\ saved = [e \in Entries |-> Absent] /\ late = {} /\ crossed = FALSE
    /\ commands = 0 /\ faults = 0

(* An exit, by any way out: nothing of the process stays.                  *)
Exit(p) ==
    /\ pc' = [pc EXCEPT ![p] = "idle"]
    /\ cmd' = [cmd EXCEPT ![p] = NoCommand]
    /\ mem' = [mem EXCEPT ![p] = Empty]
    /\ secure' = [secure EXCEPT ![p] = FALSE]
    /\ todo' = [todo EXCEPT ![p] = {}]
    /\ key' = [key EXCEPT ![p] = Absent]

Fault == faults < MaxFaults /\ faults' = faults + 1

(* A command that gave up or died after it began to change an entry leaves *)
(* nothing promised about that entry.                                      *)
Begun == {"migrate", "find", "mint", "write", "rename"}
Forget(p) == saved' = [e \in Entries |->
    IF pc[p] \in Begun /\ e \in Touched(cmd[p]) THEN Unknown ELSE saved[e]]

GiveUp(p) ==
    /\ Forget(p) /\ Exit(p)
    /\ UNCHANGED <<disk, ring, master, commands, races>>

(* The store on disk can be opened.                                        *)
Fits == disk.seal \in {Absent, master}

(* A switch beside a command of another process, both with a keyring: from *)
(* then on, until all have ended and the store can be opened.              *)
Crosses(p, c) ==
    IF ~Beside(p) THEN ~Fits
    ELSE crossed \/ \E q \in Procs \ {p} :
             /\ pc[q] # "idle" /\ HasRing(p) /\ HasRing(q)
             /\ c.op \in Switches \/ cmd[q].op \in Switches

(* LoadFrom reads the file.  What other commands are about to save may be  *)
(* lost to this one, or to them.                                           *)
Read(p) ==
    /\ pc[p] = "idle" /\ commands < MaxCommands
    /\ commands' = commands + 1
    /\ \E c \in Commands :
         /\ cmd' = [cmd EXCEPT ![p] = c]
         /\ crossed' = Crosses(p, c)
    /\ late' = late \ {p}
    /\ saved' = [e \in Entries |->
           IF \E q \in Procs : pc[q] \in Begun /\ e \in Touched(cmd[q])
           THEN Unknown ELSE saved[e]]
    /\ mem' = [mem EXCEPT ![p] = disk.body]
    /\ key' = [key EXCEPT ![p] = disk.seal]
    /\ pc' = [pc EXCEPT ![p] = "open"]
    /\ UNCHANGED <<disk, ring, master, secure, todo, stray, faults>>

(* What the entry of a store reads as once the keyring filled it in.  A    *)
(* read in lost fails, and leaves its field as it is; so does an account   *)
(* that is not there, for a source, and for a profile it reads as "".      *)
Hydrated(e, x, lost) ==
    LET Filled(field, v, old) ==
            IF <<e, field>> \in lost \/ (v = 0 /\ e[1] = "source") THEN old ELSE v
    IN  IF x = Absent \/ ~x.flag \/ x.secret # 0 THEN x
        ELSE [x EXCEPT !.secret = Filled("secret", ring[e].secret, @),
                       !.token  = Filled("token", ring[e].token, @)]

(* The keyring reads of a load, and what they are for.                     *)
Wanted(p) == {e \in Entries : /\ HasRing(p) /\ mem[p][e] # Absent
                              /\ mem[p][e].flag /\ mem[p][e].secret = 0}

(* A sealed file opens with the key that sealed it, and with a keyring.    *)
Opens(p) == key[p] = Absent \/ (HasRing(p) /\ key[p] = master)

Hydrate(p) ==
    /\ pc[p] = "open" /\ Opens(p)
    /\ \E lost \in SUBSET (Wanted(p) \X {"secret", "token"}) :
         /\ faults + Cardinality(lost) <= MaxFaults
         /\ faults' = faults + Cardinality(lost)
         /\ mem' = [mem EXCEPT ![p] = [e \in Entries |->
                IF e \in Wanted(p) THEN Hydrated(e, @[e], lost) ELSE @[e]]]
    /\ pc' = [pc EXCEPT ![p] = "apply"]
    /\ UNCHANGED <<disk, ring, master, cmd, todo, key, stray, saved, races, commands>>

Open_ForgetsMode(p) ==   \* mutant: the loaded store does not know it was sealed
    /\ Hydrate(p) /\ UNCHANGED secure

Open(p) ==
    /\ Hydrate(p)
    /\ secure' = [secure EXCEPT ![p] = key[p] # Absent]

(* No keyring, no key or another key; a file or a keyring that cannot be    *)
(* read.                                                                   *)
LoadFails(p) ==
    /\ pc[p] = "open"
    /\ \/ ~Opens(p) /\ UNCHANGED faults
       \/ Fault
    /\ GiveUp(p) /\ UNCHANGED stray

-----------------------------------------------------------------------------
(* Changing the loaded store.                                              *)

(* The secrets Save has to move: there is a keyring, and they are here.    *)
Movable(p, store) == {e \in Entries : /\ HasRing(p) /\ store[e] # Absent
                                      /\ PairOf(store[e]) # Blank}

(* Save begins: the store in memory is final but for its secrets.          *)
BeginSave(p, store) ==
    /\ mem' = [mem EXCEPT ![p] = store]
    /\ todo' = [todo EXCEPT ![p] = Movable(p, store)]
    /\ pc' = [pc EXCEPT ![p] = "migrate"]

(* An update without a secret takes over the one in the keyring.           *)
Inherits(x, v) == v = 0 /\ x # Absent /\ x.flag

Given(v) == [secret |-> Cred(v).secret, token |-> Cred(v).token, flag |-> FALSE]

(* UpsertS3Profile: the profile, and the source that mirrors it as given.  *)
(* A source that was not there gets an ID, so keyring accounts, of its own.*)
Upsert(p) ==
    LET c == cmd[p]
        profile == <<"profile", c.name>>
        source  == <<"source", c.name>>
        old == mem[p][profile]
    IN  /\ pc[p] = "apply" /\ c.op = "upsert"
        /\ BeginSave(p, [mem[p] EXCEPT
               ![profile] = IF Inherits(old, c.cred) THEN old ELSE Given(c.cred),
               ![source]  = Given(c.cred)])
        /\ ring' = [ring EXCEPT
               ![source] = IF mem[p][source] = Absent THEN Blank ELSE @]
        /\ saved' = [saved EXCEPT
               ![profile] = IF Beside(p) THEN Unknown
                            ELSE IF Inherits(old, c.cred) THEN @ ELSE c.cred,
               ![source]  = IF Beside(p) THEN Unknown ELSE c.cred]
        /\ UNCHANGED <<disk, master, cmd, secure, key, stray, races, commands, faults>>

(* RemoveS3Profile deletes the keyring accounts before the file is saved.  *)
Remove(p) ==
    LET gone == Touched(cmd[p])
        without(f, none) == [e \in Entries |-> IF e \in gone THEN none ELSE f[e]]
    IN  /\ pc[p] = "apply" /\ cmd[p].op = "remove"
        /\ mem[p][<<"profile", cmd[p].name>>] # Absent
        /\ BeginSave(p, without(mem[p], Absent))
        /\ ring' = IF HasRing(p) THEN without(ring, Blank) ELSE ring
        /\ saved' = without(saved, IF Beside(p) THEN Unknown ELSE Absent)
        /\ UNCHANGED <<disk, master, cmd, secure, key, stray, races, commands, faults>>

(* EnableSecureStorage makes sure of the key first.                        *)
Enable(p) ==
    /\ pc[p] = "apply" /\ cmd[p].op = "enable" /\ ~secure[p] /\ HasRing(p)
    /\ pc' = [pc EXCEPT ![p] = "find"]
    /\ UNCHANGED <<disk, ring, master, cmd, mem, secure, todo, key, stray, saved,
                   races, commands, faults>>

Disable_KeyFirst(p) ==   \* mutant: the key goes before the plain form is saved
    /\ pc[p] = "apply" /\ cmd[p].op = "disable" /\ secure[p]
    /\ secure' = [secure EXCEPT ![p] = FALSE]
    /\ master' = Absent
    /\ BeginSave(p, mem[p])
    /\ UNCHANGED <<disk, ring, cmd, key, stray, saved, races, commands, faults>>

(* DisableSecureStorage saves the plain form first.                        *)
Disable(p) ==
    /\ pc[p] = "apply" /\ cmd[p].op = "disable" /\ secure[p]
    /\ secure' = [secure EXCEPT ![p] = FALSE]
    /\ BeginSave(p, mem[p])
    /\ UNCHANGED <<disk, ring, master, cmd, key, stray, saved, races, commands, faults>>

(* Nothing to do, nothing to remove, or no keyring to seal with.           *)
Declines(p) ==
    /\ pc[p] = "apply"
    /\ \/ cmd[p].op = "remove" /\ mem[p][<<"profile", cmd[p].name>>] = Absent
       \/ cmd[p].op = "enable" /\ (secure[p] \/ ~HasRing(p))
       \/ cmd[p].op = "disable" /\ ~secure[p]
    /\ GiveUp(p) /\ UNCHANGED <<stray, faults>>

-----------------------------------------------------------------------------
(* Saving.  Secrets move to the keyring, profiles before sources; what is  *)
(* moved is blanked and flagged, what the keyring refuses stays.           *)

Due(p) == {e \in todo[p] :
              e[1] = "source" => \A d \in todo[p] : d[1] = "source"}

(* An empty secret of a profile deletes its account, which fails when      *)
(* there is none; an empty secret of a source is passed over.              *)
Takes(e, x)     == x.secret # 0 \/ e[1] = "source" \/ ring[e].secret # 0
SecretPut(e, x) == IF x.secret = 0 /\ e[1] = "source" THEN ring[e].secret
                                                      ELSE x.secret

(* A profile whose token was read and whose secret was not: its secret is  *)
(* dropped from the keyring.                                               *)
Dropped(e) == ring[e].secret # 0 /\ ring'[e].secret = 0

Settle(p, e) ==
    /\ todo' = [todo EXCEPT ![p] = @ \ {e}]
    /\ saved' = [saved EXCEPT ![e] = IF Dropped(e) THEN Unknown ELSE @]
    /\ UNCHANGED <<disk, master, pc, cmd, secure, key, stray, races, commands>>

Migrate(p) ==
    /\ pc[p] = "migrate"
    /\ \E e \in Due(p) :
         LET x == mem[p][e] IN
         /\ Takes(e, x)
         /\ ring' = [ring EXCEPT ![e] =
                [secret |-> SecretPut(e, x),
                 token  |-> IF x.token = 0 THEN @.token ELSE x.token]]
         /\ mem' = [mem EXCEPT ![p][e] =
                [secret |-> 0, token |-> 0, flag |-> TRUE]]
         /\ Settle(p, e)
    /\ UNCHANGED faults

MigrateFails_Blanks(p) ==   \* mutant: what the keyring refused is blanked too
    /\ pc[p] = "migrate" /\ UNCHANGED ring
    /\ \E e \in Due(p) :
         /\ Fault /\ Settle(p, e)
         /\ mem' = [mem EXCEPT ![p][e] =
                [secret |-> 0, token |-> 0, flag |-> TRUE]]

(* The keyring refuses the secret, or the token after it.                  *)
MigrateFails(p) ==
    /\ pc[p] = "migrate"
    /\ \E e \in Due(p) :
         LET x == mem[p][e] IN
         /\ \/ ~Takes(e, x) /\ UNCHANGED <<ring, faults>>
            \/ Takes(e, x) /\ Fault /\ UNCHANGED ring
            \/ /\ Takes(e, x) /\ x.token # 0 /\ Fault
               /\ ring' = [ring EXCEPT ![e].secret = SecretPut(e, x)]
         /\ Settle(p, e)
    /\ UNCHANGED mem

(* Save seals only what is in secure mode.                                 *)
Migrated(p) ==
    /\ pc[p] = "migrate" /\ todo[p] = {}
    /\ pc' = [pc EXCEPT ![p] = IF secure[p] THEN "find" ELSE "write"]
    /\ UNCHANGED <<disk, ring, master, cmd, mem, secure, todo, key, stray, saved,
                   races, commands, faults>>

(* With a key in hand, Enable goes on to save and Save to write.           *)
Proceed(p, k) ==
    /\ key' = [key EXCEPT ![p] = k]
    /\ secure' = [secure EXCEPT ![p] = TRUE]
    /\ IF secure[p] THEN pc' = [pc EXCEPT ![p] = "write"] /\ UNCHANGED <<mem, todo>>
                    ELSE BeginSave(p, mem[p])
    /\ UNCHANGED <<disk, ring, cmd, stray, saved, races, commands, faults>>

(* secureMasterKey: the key of the keyring, or else a new one.             *)
FindKey(p) == pc[p] = "find" /\ master # Absent /\ Proceed(p, master)
              /\ UNCHANGED master

NoKey(p) ==
    /\ pc[p] = "find" /\ master = Absent
    /\ pc' = [pc EXCEPT ![p] = "mint"]
    /\ UNCHANGED <<disk, ring, master, cmd, mem, secure, todo, key, stray, saved,
                   races, commands, faults>>

(* A random key is one nobody has.                                         *)
Fresh == {k \in Keys : k # master /\ k # disk.seal /\ \A q \in Procs : key[q] # k}

MintKey(p) ==
    /\ pc[p] = "mint"
    /\ \E k \in Fresh : master' = k /\ Proceed(p, k)

(* atomicfile.Write: a file beside the store, then the rename.             *)
Write(p) ==
    /\ pc[p] = "write"
    /\ pc' = [pc EXCEPT ![p] = "rename"]
    /\ UNCHANGED <<disk, ring, master, cmd, mem, secure, todo, key, stray, saved,
                   races, commands, faults>>

Image(p) == [body |-> mem[p], seal |-> IF secure[p] THEN key[p] ELSE Absent]

(* The file changes between its plain and its sealed form.                 *)
FormChanges == (disk.seal = Absent) # (disk'.seal = Absent)

Rename(p) ==
    /\ pc[p] = "rename"
    /\ disk' = Image(p)
    /\ late' = IF FormChanges THEN late \cup (Procs \ {p}) ELSE late
    /\ IF cmd[p].op = "disable"
       THEN pc' = [pc EXCEPT ![p] = "unkey"]
            /\ UNCHANGED <<cmd, mem, secure, todo, key>>
       ELSE Exit(p)
    /\ UNCHANGED <<ring, master, stray, saved, crossed, commands, faults>>

(* The keyring does not answer, the disk is full, the rename is refused:   *)
(* what lies beside the store is removed and the command fails.            *)
SaveFails(p) ==
    /\ pc[p] \in {"find", "mint", "write", "rename"}
    /\ Fault /\ GiveUp(p) /\ UNCHANGED stray

(* deleteMasterKey, whose failure nobody looks at.                         *)
Unkey(p) ==
    /\ pc[p] = "unkey"
    /\ \/ master' = Absent /\ UNCHANGED faults
       \/ Fault /\ UNCHANGED master
    /\ Exit(p)
    /\ UNCHANGED <<disk, ring, stray, saved, races, commands>>

(* The process dies; a file it had not renamed yet stays where it is.      *)
Crash(p) ==
    /\ pc[p] # "idle"
    /\ stray' = IF pc[p] = "rename" THEN stray \cup {~secure[p]} ELSE stray
    /\ GiveUp(p) /\ UNCHANGED faults

-----------------------------------------------------------------------------
Step(p) ==
    \/ Read(p) \/ Open(p) \/ LoadFails(p)
    \/ Upsert(p) \/ Remove(p) \/ Enable(p) \/ Disable(p) \/ Declines(p)
    \/ Migrate(p) \/ MigrateFails(p) \/ Migrated(p)
    \/ FindKey(p) \/ NoKey(p) \/ MintKey(p)
    \/ Write(p) \/ Rename(p) \/ SaveFails(p) \/ Unkey(p) \/ Crash(p)

Next == \E p \in Procs : Step(p)

Spec == Init /\ [][Next]_vars

-----------------------------------------------------------------------------
(* Types of the state.                                                     *)
TypeOK ==
    /\ disk \in [body : Store, seal : Keys \cup {Absent}]
    /\ ring \in [Entries -> Pair]
    /\ master \in Keys \cup {Absent}
    /\ pc \in [Procs -> {"idle", "open", "apply", "migrate", "find", "mint",
                         "write", "rename", "unkey"}]
    /\ cmd \in [Procs -> Commands \cup {NoCommand}]
    /\ mem \in [Procs -> Store]
    /\ secure \in [Procs -> BOOLEAN]
    /\ todo \in [Procs -> SUBSET Entries]
    /\ key \in [Procs -> Keys \cup {Absent}]
    /\ stray \subseteq BOOLEAN
    /\ saved \in [Entries -> Values \cup {Absent, Unknown}]
    /\ late \subseteq Procs /\ crossed \in BOOLEAN
    /\ commands \in 0..MaxCommands /\ faults \in 0..MaxFaults

(* Wherever a command dies or fails, and whatever mode it was switching,   *)
(* the keyring holds the key of the store on disk, unless a switch ran     *)
(* beside another command that reaches the keyring.                        *)
Readable == Fits \/ crossed

Reads(e) == IF disk.body[e] = Absent THEN Absent
            ELSE Hydrated(e, disk.body[e], {}).secret

(* The secret a command that ran alone reported as saved reads back until  *)
(* another command changes the same name: commands for other names, alone  *)
(* or side by side, mode switches, hosts without a keyring, refused        *)
(* keyring calls and crashes do not disturb it.  Not told is an entry that *)
(* a command changed while others ran, that a failed command changed, or   *)
(* whose secret a save dropped.                                            *)
ReadsBack ==
    \A e \in Entries :
        \/ \E p \in Procs : pc[p] \in Begun /\ e \in Touched(cmd[p])
        \/ saved[e] = Unknown
        \/ Reads(e) = saved[e]

(* The file changes between plain and sealed only when a user switches: no *)
(* save falls back to the other form, but one that had loaded the store    *)
(* before it was switched.                                                 *)
ModeStands ==
    [][FormChanges => \E p \in Procs :
           pc[p] = "rename" /\ (cmd[p].op \in Switches \/ p \in late)]_vars

(* Once the store is sealed no plain copy of it lies on the disk.          *)
NoPlainCopy == disk.seal # Absent => TRUE \notin stray
=============================================================================
