----------------------------- MODULE ConfigStore -----------------------------
(***************************************************************************)
(* The configuration library, config/lib/jsonconfig.c: registered items,   *)
(* the one way to change them (a commit under the writer lock), the worker *)
(* that tells the program about changes and takes refused ones back, and   *)
(* the files the items are loaded from and saved to, across power losses.  *)
(*                                                                         *)
(* A step is a section under the lock or a system call.  Only what a       *)
(* reader of the lock can overlap with is split: a commit (the value is in *)
(* place before it is validated) and a save.                               *)
(***************************************************************************)
EXTENDS Integers, Sequences, FiniteSets, SequencesExt

CONSTANTS
    Keys,        \* the keys of the declared items
    Foreign,     \* keys that files hold and no item is declared for
    Item,        \* [Keys -> [type, size, range, valid, flags, on_change, default, default_file]]
    Files,       \* the paths
    LoadOrder,   \* the files main() loads, in this order
    Initial,     \* [Files -> Content]: what the disk holds before the first start
    Clients,     \* the threads that commit, read and save
    Savers,      \* those of them that save
    Inputs,      \* the numbers that are entered
    Word,        \* a text that is not a number
    Absent,      \* a member that a JSON object does not have
    Broken,      \* a file that no JSON object can be read from
    None,
    MaxCommits, MaxLosses,  \* bounds: changed values, power losses
    MaxAudit     \* the length of the audit log: 1000

ASSUME FileAssumption ==
    /\ IsFiniteSet(Files) /\ LoadOrder \in Seq(Files)
    /\ Initial = [f \in Files |-> Initial[f]]
    /\ \A f \in Files : Initial[f] # Broken =>
          Initial[f] = [k \in Keys \cup Foreign |-> Initial[f][k]]

INT_TYPES == {"int8", "int16", "int32", "int64"}

\* The sizes of TYPE_SIZE_MAP_ARRAY.
SizeOf(type) ==
    CASE type = "int8" -> 1 [] type = "int16" -> 2
      [] type \in {"int32", "bool", "float"} -> 4
      [] type \in {"int64", "double", "string"} -> 8

\* The type after normalisation: by size for CFG_INT_AUTO and CFG_DOUBLE.
NormalType(item) ==
    LET same == {t \in INT_TYPES : SizeOf(t) = item.size}
    IN  IF item.type = "int_auto" /\ same # {} THEN CHOOSE t \in same : TRUE
        ELSE IF item.type = "double" /\ item.size = 4 THEN "float"
        ELSE item.type

\* cfg_register takes an item whose storage has the size of its type.
TypeChecks(item) ==
    /\ NormalType(item) # "int_auto"
    /\ item.size = SizeOf(NormalType(item))
Registered == {k \in Keys : TypeChecks(Item[k])}

\* The type of a JSON value, cfg_type_to_gtype.
GType == [k \in Keys |->
    LET t == NormalType(Item[k])
    IN  CASE t \in INT_TYPES -> "int"
          [] t \in {"float", "double"} -> "double"
          [] OTHER -> t]

Persistent == {k \in Registered : "TEMPORARY" \notin Item[k].flags}

ValidValues == UNION {Item[k].valid : k \in Registered}

\* A change that the worker has told on_change of, and what that said.
Tasks == [key : Registered, old : ValidValues, new : ValidValues, ok : BOOLEAN]

\* What JSON objects have for a key: the files at first, and the items.
FirstMembers(f) == IF Initial[f] = Broken THEN {} ELSE {Initial[f][k] : k \in Keys \cup Foreign}
Nodes == [type : {GType[k] : k \in Registered}, v : ValidValues]
Members == {Absent} \cup (UNION {FirstMembers(f) : f \in Files}) \cup Nodes

ASSUME NoneAssumption ==
    /\ None \notin Clients \cup Tasks \cup Files
    /\ Absent \notin Nodes /\ Broken \notin [Keys \cup Foreign -> Members]
ASSUME AuditAssumption == MaxAudit \in Nat \ {0}

-----------------------------------------------------------------------------
VARIABLES
    up,          \* the process runs
    storage,     \* storage[k] is the value of item k
    dirty, source, restart,   \* CFG_FLAG_DIRTY, source_file, restart_reasons
    audit,       \* cfg_audit_log
    queue,       \* cfg_change_queue
    task,        \* the task of the worker, and what on_change said
    writer,      \* the client that holds the writer lock, in a commit
    change,      \* that commit: key, old value
    save,        \* save[c] is the save of client c
    dir, tmp,    \* the inodes of each path and of its .tmp
    ino,         \* [data, synced] of each inode
    durable,     \* the inode of each path after a power loss
    stored,      \* history: the data of the last write that returned 0, or what
                 \* the last power loss has left
    late,        \* history: items a refused change was taken back from after
                 \* another commit of them or a save
    lost,        \* history: items the last entry of which the audit log has lost
    commits, losses

mem == <<up, storage, dirty, source, restart, audit, queue, task, writer, change>>
disk == <<dir, tmp, ino, durable, stored>>
history == <<late, lost>>
vars == <<mem, save, disk, history, commits, losses>>

Inodes == 1..4
NoSave == [pc |-> "idle", out |-> <<>>, todo |-> <<>>, fd |-> 0, all |-> FALSE]

Unused == [data |-> Broken, synced |-> TRUE]

\* What a reader finds at path f.
Visible(f) == IF dir[f] = 0 THEN Broken ELSE ino[f][dir[f]].data

-----------------------------------------------------------------------------
(* Starting: cfg_system_init, cfg_register for each item, cfg_load_file.    *)

Member(data, k) == IF data = Broken THEN Absent ELSE data[k]
Fits(k, node) == node.v \in Item[k].range

\* The loads of the start that find item k with its type.  Another type is skipped.
Holders(k) ==
    {i \in DOMAIN LoadOrder : /\ k \in Persistent
                              /\ Member(Visible(LoadOrder[i]), k) # Absent
                              /\ Member(Visible(LoadOrder[i]), k).type = GType[k]}
Held(k, i) == Visible(LoadOrder[i])[k]
Fitting(k) == {i \in Holders(k) : Fits(k, Held(k, i))}

FirstOf(loads) == {i \in loads : \A j \in loads : i <= j}
LastOf(loads)  == {i \in loads : \A j \in loads : j <= i}

Coded == [storage |-> [k \in Registered |-> Item[k].default],
          dirty   |-> {},
          source  |-> [k \in Registered |-> None]]

\* from_json applies what fits, so the last file that does wins; one that does
\* not marks the item dirty, so that the next save overwrites it.  The first
\* file that holds an item is its source.
Loaded ==
    [storage |-> [k \in Registered |->
                    IF LastOf(Fitting(k)) = {} THEN Coded.storage[k]
                    ELSE Held(k, CHOOSE i \in LastOf(Fitting(k)) : TRUE).v],
     dirty   |-> {k \in Persistent : Fitting(k) # Holders(k)},
     source  |-> [k \in Registered |->
                    IF FirstOf(Holders(k)) = {} THEN None
                    ELSE LoadOrder[CHOOSE i \in FirstOf(Holders(k)) : TRUE]]]

Init ==
    /\ up = FALSE
    /\ storage = Coded.storage /\ dirty = {} /\ source = Coded.source
    /\ restart = {} /\ audit = <<>> /\ queue = <<>> /\ task = None
    /\ writer = None /\ change = None
    /\ save = [c \in Clients |-> NoSave]
    /\ dir = [f \in Files |-> IF Initial[f] = Broken THEN 0 ELSE 1]
    /\ durable = dir
    /\ tmp = [f \in Files |-> 0]
    /\ ino = [f \in Files |-> [i \in Inodes |->
              IF i = dir[f] THEN [data |-> Initial[f], synced |-> TRUE] ELSE Unused]]
    /\ stored = Initial
    /\ late = {} /\ lost = {} /\ commits = 0 /\ losses = 0

Start ==
    /\ ~up
    /\ up' = TRUE
    /\ storage' = Loaded.storage /\ dirty' = Loaded.dirty /\ source' = Loaded.source
    /\ UNCHANGED <<restart, audit, queue, task, writer, change, save, disk, history, commits, losses>>

\* The validators are asked about values that the storage can hold, and accept
\* the defaults, and what the files hold at first, which is loaded without
\* asking them.
ASSUME ValidAssumption ==
    \A k \in Registered :
        /\ Item[k].valid \subseteq Item[k].range
        /\ Item[k].default \in Item[k].valid
        /\ \A f \in Files :
              LET node == Member(Initial[f], k)
              IN  node # Absent /\ node.type = GType[k] /\ Fits(k, node)
                      => node.v \in Item[k].valid

-----------------------------------------------------------------------------
(* Commits.                                                                 *)

Idle(c) == up /\ save[c].pc = "idle" /\ writer # c
NoReader == \A c \in Clients : save[c].pc = "idle" \/ ~save[c].all

\* cfg_parse_string_to_node: what the command line makes of a text; anything
\* but true, yes and 1 is FALSE, and a text without digits is no number.
Parsed(k, text) ==
    CASE GType[k] = "bool" -> [type |-> "bool", v |-> IF text = 1 THEN 1 ELSE 0]
      [] GType[k] \in {"int", "double"} /\ text = Word -> None
      [] OTHER -> [type |-> GType[k], v |-> text]

\* The value is in place, not yet validated; what does not fit, or changes
\* nothing, is rolled back at once.
Apply(c, k, node) ==
    /\ Idle(c) /\ writer = None /\ NoReader
    /\ k \in Registered /\ "RUNTIME" \in Item[k].flags
    /\ node # None /\ node.type = GType[k]
    /\ Fits(k, node) /\ node.v # storage[k]
    /\ commits < MaxCommits
    /\ commits' = commits + 1
    /\ writer' = c
    /\ change' = [key |-> k, old |-> storage[k]]
    /\ storage' = [storage EXCEPT ![k] = node.v]
    /\ UNCHANGED <<up, dirty, source, restart, audit, queue, task, save, disk, history, losses>>

CommitTyped(c) ==
    \E k \in Keys, n \in Inputs, t \in {"int", "bool", "double", "string"} :
        Apply(c, k, [type |-> t, v |-> n])
CommitText(c) ==
    \E k \in Keys, text \in Inputs \cup {Word} : Apply(c, k, Parsed(k, text))

\* The audit log forgets its oldest entry at its length.
Recorded(entry) == Append(IF Len(audit) = MaxAudit THEN Tail(audit) ELSE audit, entry)
Record(entry) == audit' = Recorded(entry) /\ lost' = lost \ {entry.key}

\* The worker records without the lock, so that of two entries that are
\* recorded at the same time one may be lost.
Lose(k) == lost' = lost \cup {k} /\ UNCHANGED audit
Recording == task # None /\ task.ok = TRUE

Release(c) == writer = c /\ writer' = None /\ change' = None

\* mutant: the validator is not asked
RefuseNothing(c) == Release(c) /\ UNCHANGED <<up, storage, dirty, source, restart, audit,
    queue, task, save, disk, history, commits, losses>>

Refuse(c) ==
    /\ Release(c)
    /\ storage[change.key] \notin Item[change.key].valid
    /\ storage' = [storage EXCEPT ![change.key] = change.old]
    /\ UNCHANGED <<up, dirty, source, restart, audit, queue, task, save, disk, history, commits, losses>>

Accept(c) ==
    /\ Release(c)
    /\ storage[change.key] \in Item[change.key].valid
    /\ LET k == change.key
           entry == [key |-> k, old |-> change.old, new |-> storage[k]]
       IN  /\ \/ /\ Item[k].on_change
                 /\ queue' = Append(queue, entry) /\ UNCHANGED <<audit, lost>>
              \/ ~Item[k].on_change /\ Record(entry) /\ UNCHANGED queue
              \/ ~Item[k].on_change /\ Recording /\ Lose(k) /\ UNCHANGED queue
           /\ restart' = IF "RESTART" \in Item[k].flags THEN restart \cup {k} ELSE restart
           /\ dirty' = dirty \cup ({k} \cap Persistent)
    /\ UNCHANGED <<up, storage, source, task, save, disk, late, commits, losses>>

\* What a read returns, typed or by the command line: it waits for the lock.
CanRead == up /\ writer = None
Value(k) == storage[k]

-----------------------------------------------------------------------------
(* cfg_change_worker: on_change is called without the lock.                 *)

\* The next task, and what on_change says of it.
OnChange ==
    /\ up /\ task = None /\ queue # <<>>
    /\ LET e == Head(queue)
       IN  \E ok \in BOOLEAN :
              task' = [key |-> e.key, old |-> e.old, new |-> e.new, ok |-> ok]
    /\ queue' = Tail(queue)
    /\ UNCHANGED <<up, storage, dirty, source, restart, audit, writer, change, save, disk, history, commits, losses>>

\* Refused: the old value again, whatever has been committed since, and
\* without the flags of a change.
RollBackAlone ==
    /\ task # None /\ task.ok = FALSE
    /\ writer = None /\ NoReader
    /\ storage' = [storage EXCEPT ![task.key] = task.old]
    /\ late' = IF task.key \in {queue[i].key : i \in DOMAIN queue} \cup (Persistent \ dirty)
               THEN late \cup {task.key} ELSE late
    /\ task' = None
    /\ UNCHANGED <<up, dirty, source, restart, queue, writer, change, save, disk, lost, commits, losses>>

\* mutant: and recorded as if it had been accepted
RollBackRecorded ==
    /\ RollBackAlone
    /\ audit' = Recorded([key |-> task.key, old |-> task.old, new |-> task.new])

RollBack == RollBackAlone /\ UNCHANGED audit

\* Accepted: recorded, unless a commit records at the same time.
AuditDone ==
    /\ Recording
    /\ task' = None
    /\ \/ Record([key |-> task.key, old |-> task.old, new |-> task.new])
       \/ writer # None /\ ~Item[change.key].on_change /\ Lose(task.key)
    /\ UNCHANGED <<up, storage, dirty, source, restart, queue, writer, change, save, disk, late, commits, losses>>

Worker == OnChange \/ RollBack \/ AuditDone

-----------------------------------------------------------------------------
(* Saving.                                                                  *)

Node(k) == [type |-> GType[k], v |-> storage[k]]
NoMembers == [k \in Keys \cup Foreign |-> Absent]

\* The data of a file with the values of the items ks put into base.
Put(base, ks) == [k \in Keys \cup Foreign |-> IF k \in ks THEN Node(k) ELSE base[k]]

Sourced(k) == IF source[k] = None THEN Item[k].default_file ELSE source[k]

\* cfg_save_all: every file with a changed item (or any item, by force), on
\* top of the members the file already has.  The reader lock is kept to the end.
SaveAll(c) ==
    /\ c \in Savers /\ Idle(c) /\ writer = None
    /\ \E force \in BOOLEAN :
          LET items(f) == {k \in Persistent : Sourced(k) = f /\ (force \/ k \in dirty)}
              fs == {f \in Files : items(f) # {}}
              base(f) == IF Visible(f) = Broken THEN NoMembers ELSE Visible(f)
          IN  /\ fs # {}
              /\ save' = [save EXCEPT ![c] =
                    [pc |-> "open", all |-> TRUE, fd |-> 0, todo |-> SetToSeq(fs),
                     out |-> [f \in fs |-> Put(base(f), items(f))]]]
    /\ source' = [k \in Registered |-> IF k \in Persistent THEN Sourced(k) ELSE source[k]]
    /\ UNCHANGED <<up, storage, dirty, restart, audit, queue, task, writer, change, disk, history, commits, losses>>

\* cfg_save_file, the command save_as: all items into one file; the lock is
\* only kept while they are collected.
SaveAs(c, f) ==
    /\ c \in Savers /\ Idle(c) /\ writer = None
    /\ f \notin ToSet(LoadOrder)
    /\ stored[f] = Broken           \* bound: once for each path
    /\ save' = [save EXCEPT ![c] =
          [pc |-> "open", all |-> FALSE, fd |-> 0, todo |-> <<f>>,
           out |-> [g \in {f} |-> Put(NoMembers, Persistent)]]]
    /\ UNCHANGED <<mem, disk, history, commits, losses>>

\* atomic_write_file, call by call, on the first file still to do.
At(c, pc) == save[c].pc = pc
Doing(c) == Head(save[c].todo)
Goto(c, pc) == save' = [save EXCEPT ![c].pc = pc]

\* The files that are left, or the end of the save.
NextFile(c) ==
    save' = [save EXCEPT ![c] =
        IF Len(save[c].todo) = 1 THEN NoSave
        ELSE [save[c] EXCEPT !.pc = "open", !.todo = Tail(save[c].todo), !.fd = 0]]

Descriptors(f, cs) == {save[c].fd : c \in {d \in cs : ~At(d, "idle") /\ Doing(d) = f}}
Fresh(f) == Min(Inodes \ ({dir[f], tmp[f], durable[f]} \cup Descriptors(f, Clients)))

\* An inode without a name is gone when the last descriptor of it is closed.
Reclaim(c, names) ==
    ino' = [ino EXCEPT ![Doing(c)] = [i \in Inodes |->
              IF i \in names \cup Descriptors(Doing(c), Clients \ {c}) THEN @[i] ELSE Unused]]

OpenTmp(c) ==
    /\ At(c, "open")
    /\ LET f == Doing(c)
           i == IF tmp[f] = 0 THEN Fresh(f) ELSE tmp[f]
       IN  /\ tmp' = [tmp EXCEPT ![f] = i]
           /\ ino' = [ino EXCEPT ![f][i] = [data |-> Broken, synced |-> FALSE]]
           /\ save' = [save EXCEPT ![c].pc = "write", ![c].fd = i]
    /\ UNCHANGED <<mem, dir, durable, stored, history, commits, losses>>

WriteTmp(c) ==
    /\ At(c, "write")
    /\ ino' = [ino EXCEPT ![Doing(c)][save[c].fd] = [data |-> save[c].out[Doing(c)], synced |-> FALSE]]
    /\ Goto(c, "sync")
    /\ UNCHANGED <<mem, dir, tmp, durable, stored, history, commits, losses>>

\* mutant: not flushed before the rename
SyncTmpNot(c) == At(c, "sync") /\ Goto(c, "rename") /\ UNCHANGED <<mem, disk, history, commits, losses>>

SyncTmp(c) ==
    /\ At(c, "sync")
    /\ ino' = [ino EXCEPT ![Doing(c)][save[c].fd].synced = TRUE]
    /\ Goto(c, "rename")
    /\ UNCHANGED <<mem, dir, tmp, durable, stored, history, commits, losses>>

RenameTmp(c) ==
    /\ At(c, "rename") /\ tmp[Doing(c)] # 0
    /\ dir' = [dir EXCEPT ![Doing(c)] = tmp[Doing(c)]]
    /\ tmp' = [tmp EXCEPT ![Doing(c)] = 0]
    /\ Goto(c, "syncdir")
    /\ UNCHANGED <<mem, ino, durable, stored, history, commits, losses>>

\* The directory is flushed and the call returns 0: cfg_save_all takes the
\* mark from every item of the file.
SyncDir(c) ==
    /\ At(c, "syncdir")
    /\ LET f == Doing(c)
       IN  /\ durable' = [durable EXCEPT ![f] = dir[f]]
           /\ stored' = [stored EXCEPT ![f] = save[c].out[f]]
           /\ dirty' = IF save[c].all THEN {k \in dirty : source[k] # f} ELSE dirty
    /\ Reclaim(c, {dir[Doing(c)], tmp[Doing(c)]})
    /\ NextFile(c)
    /\ UNCHANGED <<up, storage, source, restart, audit, queue, task, writer, change,
                   dir, tmp, history, commits, losses>>

\* mutant: a file that could not be written counts as saved
WriteFailsClean(c) ==
    /\ save[c].pc \in {"open", "write", "sync", "rename"}
    /\ tmp' = [tmp EXCEPT ![Doing(c)] = 0]
    /\ dirty' = {k \in dirty : source[k] # Doing(c)}
    /\ Reclaim(c, {dir[Doing(c)], durable[Doing(c)]})
    /\ NextFile(c)
    /\ UNCHANGED <<up, storage, source, restart, audit, queue, task, writer, change,
                   dir, durable, stored, history, commits, losses>>

\* mutant: tried again and again, with the lock
WriteFailsRetries(c) ==
    /\ save[c].pc \in {"open", "write", "sync", "rename"}
    /\ tmp' = [tmp EXCEPT ![Doing(c)] = 0]
    /\ Reclaim(c, {dir[Doing(c)], durable[Doing(c)]})
    /\ Goto(c, "open")
    /\ UNCHANGED <<mem, dir, durable, stored, history, commits, losses>>

\* Any call before may fail, the rename also because the temporary file is
\* gone: what is left of it is removed, and the items stay marked.
WriteFails(c) ==
    /\ save[c].pc \in {"open", "write", "sync", "rename"}
    /\ tmp' = [tmp EXCEPT ![Doing(c)] = 0]
    /\ Reclaim(c, {dir[Doing(c)], durable[Doing(c)]})
    /\ NextFile(c)
    /\ UNCHANGED <<mem, dir, durable, stored, history, commits, losses>>

Save(c) == OpenTmp(c) \/ WriteTmp(c) \/ SyncTmp(c) \/ RenameTmp(c) \/ SyncDir(c) \/ WriteFails(c)

\* The power fails: of a renamed file the old or the new name is on the disk,
\* of data that was not flushed all or not.
PowerLoss ==
    /\ up /\ losses < MaxLosses
    /\ losses' = losses + 1
    /\ up' = FALSE
    /\ storage' = Coded.storage /\ dirty' = {} /\ source' = Coded.source
    /\ restart' = {} /\ audit' = <<>> /\ queue' = <<>> /\ task' = None
    /\ writer' = None /\ change' = None
    /\ \E undone \in SUBSET {f \in Files : dir[f] # durable[f]} :
          dir' = [f \in Files |-> IF f \in undone THEN durable[f] ELSE dir[f]]
    /\ \E torn \in SUBSET {f \in Files : dir'[f] # 0 /\ ~ino[f][dir'[f]].synced} :
          ino' = [f \in Files |-> [i \in Inodes |->
                    IF i = dir'[f] /\ f \notin torn THEN [ino[f][i] EXCEPT !.synced = TRUE]
                    ELSE Unused]]
    /\ durable' = dir'
    /\ stored' = [f \in Files |-> Visible(f)']
    /\ tmp' = [f \in Files |-> 0]
    /\ save' = [c \in Clients |-> NoSave]
    /\ late' = {} /\ lost' = {}
    /\ UNCHANGED commits

Next ==
    \/ Start \/ PowerLoss \/ Worker
    \/ \E c \in Clients : \/ CommitTyped(c) \/ CommitText(c) \/ Refuse(c) \/ Accept(c)
                          \/ SaveAll(c) \/ (\E f \in Files : SaveAs(c, f)) \/ Save(c)

\* The worker and a save or commit under way go on; a writer that waits while
\* readers come and go gets the lock in the end.
Fairness ==
    /\ WF_vars(OnChange) /\ WF_vars(AuditDone) /\ SF_vars(RollBack)
    /\ \A c \in Clients : WF_vars(Refuse(c) \/ Accept(c)) /\ WF_vars(Save(c))

Spec == Init /\ [][Next]_vars /\ Fairness

-----------------------------------------------------------------------------
\* An item that is not marked has on the disk what it has in memory: a restart
\* would load its value again, whatever was changed, saved, refused or failed
\* to be saved.  The exception is what RollBack takes back without the mark.
CleanMeansSaved ==
    CanRead => LET after == Loaded.storage
               IN  \A k \in Persistent \ (dirty \cup late) : after[k] = storage[k]

\* Nobody reads a value that its validator refuses, though a commit has it in
\* place before it asks the validator (and no file holds one).
OnlyValidValues ==
    CanRead => \A k \in Registered : Value(k) \in Item[k].valid

\* When no change of an item is under way, what the audit log says of it last
\* is its value: what on_change refused is gone, what it accepted is there,
\* if the entry is not lost, and nothing was committed before the refusal.
AuditIsEffective ==
    \A i \in 1..Len(audit) :
        LET k == audit[i].key
        IN  \/ k \in late \cup lost
            \/ \E j \in i + 1..Len(audit) : audit[j].key = k
            \/ \E j \in 1..Len(queue) : queue[j].key = k
            \/ task # None /\ task.key = k
            \/ writer # None /\ change.key = k
            \/ audit[i].new = storage[k]

\* What is visible at a path only changes to the whole of what a save writes,
\* or, when the power fails, back to what the last save, or the last power
\* loss, has left.
AtomicWrite ==
    [][\A f \in Files : Visible(f)' = Visible(f)
          \/ Visible(f)' \in {stored[f]} \cup {save[c].out[f] : c \in {d \in Clients :
                                                ~At(d, "idle") /\ f \in DOMAIN save[d].out}}]_vars

\* Every change that was accepted reaches on_change, saves or not, unless the
\* process ends.
ChangesAreHandled == queue # <<>> ~> (queue = <<>> /\ task = None) \/ ~up
=============================================================================
