-------------------------- MODULE ConfigStoreProofs --------------------------
(***************************************************************************)
(* Values, files and audit log of the configuration library, for any       *)
(* items, files, clients and power losses, if one client saves: nobody     *)
(* reads a value that its validator refuses, a path always names the whole *)
(* of what a save writes or of what was there, and the audit log says what *)
(* the values are.                                                         *)
(***************************************************************************)
EXTENDS ConfigStore, FiniteSetTheorems, SequenceTheorems, TLAPS

\* What is loaded from the data is valid.
Sound(data) ==
    \A k \in Registered :
        data[k] # Absent /\ data[k].type = GType[k] /\ Fits(k, data[k])
            => data[k].v \in Item[k].valid

Objects  == {data \in [Keys \cup Foreign -> Members] : Sound(data)}
Contents == {Broken} \cup Objects

\* The changes that on_change is told.
Changes == {e \in [key : Registered, old : ValidValues, new : ValidValues] :
               e.old \in Item[e.key].valid}

Outputs == UNION {[fs -> Objects] : fs \in SUBSET Files}
Saves == [pc : {"idle", "open", "write", "sync", "rename", "syncdir"}, out : Outputs,
          todo : Seq(Files), fd : 0 .. 4, all : BOOLEAN]

DiskTypes ==
    /\ dir \in [Files -> 0 .. 4] /\ tmp \in [Files -> 0 .. 4] /\ durable \in [Files -> 0 .. 4]
    /\ ino \in [Files -> [Inodes -> [data : Contents, synced : BOOLEAN]]]
    /\ stored \in [Files -> Contents]
    /\ save \in [Clients -> Saves]

MemTypes ==
    /\ writer \in Clients \cup {None}
    /\ queue \in Seq(Changes)
    /\ task # None => task \in Tasks /\ task.old \in Item[task.key].valid

\* Only the value of a commit that is under way may be one to be refused, and
\* the value it replaced is not.
ValuesInv ==
    /\ DOMAIN storage = Registered
    /\ \A k \in Registered :
          storage[k] \in Item[k].valid \/ (writer # None /\ change.key = k)
    /\ writer # None => change.key \in Registered /\ change.old \in Item[change.key].valid

-----------------------------------------------------------------------------
(* Data that is loaded and saved.                                           *)

LEMMA VisibleContents == DiskTypes => \A f \in Files : Visible(f) \in Contents
<1> SUFFICES ASSUME DiskTypes, NEW f \in Files PROVE Visible(f) \in Contents
  OBVIOUS
<1>1. CASE dir[f] = 0
  BY <1>1 DEF Visible, Contents
<1>2. CASE dir[f] # 0
  <2>1. dir[f] \in Inodes
    BY <1>2 DEF DiskTypes, Inodes
  <2>2. ino[f][dir[f]].data \in Contents
    BY <2>1 DEF DiskTypes
  <2> QED BY <1>2, <2>2 DEF Visible
<1> QED BY <1>1, <1>2

\* The load that decides on an item holds a value of it that is valid.
LEMMA HeldIsValid ==
  ASSUME DiskTypes, NEW k \in Registered, NEW i \in Fitting(k)
  PROVE  Held(k, i).v \in Item[k].valid
<1> DEFINE data == Visible(LoadOrder[i])
<1>1. i \in DOMAIN LoadOrder /\ Member(data, k) # Absent
      /\ Member(data, k).type = GType[k] /\ Fits(k, Held(k, i))
  BY DEF Fitting, Holders
<1>2. data \in Contents
  BY <1>1, FileAssumption, VisibleContents
<1>3. data # Broken /\ Member(data, k) = data[k]
  BY <1>1 DEF Member
<1>4. Sound(data)
  BY <1>2, <1>3 DEF Contents, Objects
<1> QED BY <1>1, <1>3, <1>4 DEF Sound, Held

LEMMA CodedIsValid ==
  /\ DOMAIN Coded.storage = Registered
  /\ \A k \in Registered : Coded.storage[k] \in Item[k].valid
BY ValidAssumption DEF Coded

LEMMA LoadedIsValid ==
  ASSUME DiskTypes
  PROVE  /\ DOMAIN Loaded.storage = Registered
         /\ \A k \in Registered : Loaded.storage[k] \in Item[k].valid
<1>1. DOMAIN Loaded.storage = Registered
  BY DEF Loaded
<1>2. ASSUME NEW k \in Registered PROVE Loaded.storage[k] \in Item[k].valid
  <2> DEFINE last == CHOOSE i \in LastOf(Fitting(k)) : TRUE
  <2>1. CASE LastOf(Fitting(k)) = {}
    <3>1. Loaded.storage[k] = Coded.storage[k]
      BY <2>1 DEF Loaded
    <3> QED BY <3>1, CodedIsValid
  <2>2. CASE LastOf(Fitting(k)) # {}
    <3>1. Loaded.storage[k] = Held(k, last).v
      BY <2>2 DEF Loaded
    <3>2. last \in LastOf(Fitting(k))
      BY <2>2
    <3>3. last \in Fitting(k)
      BY <3>2 DEF LastOf
    <3>4. Held(k, last).v \in Item[k].valid
      BY <3>3, HeldIsValid
    <3> QED BY <3>1, <3>4
  <2> QED BY <2>1, <2>2
<1> QED BY <1>1, <1>2

-----------------------------------------------------------------------------
(* Values.                                                                  *)

Values == MemTypes /\ ValuesInv

LEMMA InitValues == Init => Values
<1> SUFFICES ASSUME Init PROVE Values
  OBVIOUS
<1>1. MemTypes
  BY EmptySeq DEF Init, MemTypes
<1>2. ValuesInv
  BY CodedIsValid DEF Init, ValuesInv
<1> QED BY <1>1, <1>2 DEF Values

\* The process starts with valid values, and with nothing under way.
LEMMA StartValues ==
  ASSUME DiskTypes, Values, Start
  PROVE  Values'
<1>1. /\ DOMAIN storage' = Registered
      /\ \A k \in Registered : storage'[k] \in Item[k].valid
  BY LoadedIsValid DEF Start
<1>2. UNCHANGED <<queue, task, writer, change>>
  BY DEF Start
<1> QED BY <1>1, <1>2 DEF Values, MemTypes, ValuesInv

LEMMA PowerLossValues ==
  ASSUME Values, PowerLoss
  PROVE  Values'
<1>1. /\ storage' = Coded.storage /\ queue' = <<>>
      /\ task' = None /\ writer' = None
  BY DEF PowerLoss
<1>2. MemTypes'
  BY <1>1, EmptySeq DEF MemTypes
<1>3. ValuesInv'
  BY <1>1, CodedIsValid DEF ValuesInv
<1> QED BY <1>2, <1>3 DEF Values

\* A commit puts a value in place of a valid one, which it remembers.
LEMMA ApplyValues ==
  ASSUME Values, NEW c \in Clients, NEW k, NEW node, Apply(c, k, node)
  PROVE  Values'
<1>1. /\ writer = None /\ writer' = c /\ k \in Registered
      /\ change' = [key |-> k, old |-> storage[k]]
      /\ storage' = [storage EXCEPT ![k] = node.v]
      /\ UNCHANGED <<queue, task>>
  BY DEF Apply
<1>2. MemTypes'
  BY <1>1 DEF Values, MemTypes
<1>3. change'.key = k /\ change'.old = storage[k]
  BY <1>1
<1>4. writer' # None
  BY <1>1, NoneAssumption
<1>5. DOMAIN storage = Registered /\ \A j \in Registered : storage[j] \in Item[j].valid
  BY <1>1 DEF Values, ValuesInv
<1>6. DOMAIN storage' = Registered
  BY <1>1, <1>5
<1>7. \A j \in Registered : j # k => storage'[j] = storage[j]
  BY <1>1, <1>5
<1>8. ValuesInv'
  BY <1>1, <1>3, <1>4, <1>5, <1>6, <1>7 DEF ValuesInv
<1> QED BY <1>2, <1>8 DEF Values

\* A refused value is replaced by the one before it.
LEMMA RefuseValues ==
  ASSUME Values, NEW c \in Clients, Refuse(c)
  PROVE  Values'
<1>1. /\ writer = c /\ writer' = None
      /\ storage' = [storage EXCEPT ![change.key] = change.old]
      /\ UNCHANGED <<queue, task>>
  BY DEF Refuse, Release
<1>2. writer # None
  BY <1>1, NoneAssumption
<1>3. MemTypes'
  BY <1>1 DEF Values, MemTypes
<1>4. /\ change.key \in Registered /\ change.old \in Item[change.key].valid
      /\ DOMAIN storage = Registered
      /\ \A k \in Registered : storage[k] \in Item[k].valid \/ change.key = k
  BY <1>2 DEF Values, ValuesInv
<1>5. /\ DOMAIN storage' = Registered
      /\ \A k \in Registered : storage'[k] \in Item[k].valid
  BY <1>1, <1>4
<1> QED BY <1>1, <1>3, <1>5 DEF Values, ValuesInv

\* An accepted value is valid, and so is the one that on_change can bring back.
LEMMA AcceptValues ==
  ASSUME Values, NEW c \in Clients, Accept(c)
  PROVE  Values'
<1> DEFINE key == change.key
           entry == [key |-> key, old |-> change.old, new |-> storage[key]]
<1>1. /\ writer = c /\ writer' = None
      /\ storage[key] \in Item[key].valid
      /\ UNCHANGED <<storage, task>>
      /\ queue' = Append(queue, entry) \/ queue' = queue
  BY DEF Accept, Release
<1>2. writer # None
  BY <1>1, NoneAssumption
<1>3. /\ key \in Registered /\ change.old \in Item[key].valid
      /\ DOMAIN storage = Registered
      /\ \A k \in Registered : storage[k] \in Item[k].valid \/ key = k
  BY <1>2 DEF Values, ValuesInv
<1>4. change.old \in ValidValues /\ storage[key] \in ValidValues
  BY <1>1, <1>3 DEF ValidValues
<1>5. entry \in Changes
  BY <1>3, <1>4 DEF Changes
<1>6. queue \in Seq(Changes)
  BY DEF Values, MemTypes
<1>7. queue' \in Seq(Changes)
  <2> HIDE DEF entry
  <2> QED BY <1>1, <1>5, <1>6, AppendProperties
<1>8. MemTypes'
  BY <1>1, <1>7 DEF Values, MemTypes
<1>9. \A k \in Registered : storage'[k] \in Item[k].valid
  BY <1>1, <1>3
<1> QED BY <1>1, <1>3, <1>8, <1>9 DEF Values, ValuesInv

LEMMA OnChangeValues ==
  ASSUME Values, OnChange
  PROVE  Values'
<1>1. queue \in Seq(Changes) /\ queue # <<>>
  BY DEF Values, MemTypes, OnChange
<1>2. Head(queue) \in Changes /\ Tail(queue) \in Seq(Changes)
  BY <1>1, HeadTailProperties
<1>3. PICK head \in Changes : head = Head(queue)
  BY <1>2
<1>4. PICK ok \in BOOLEAN : task' = [key |-> head.key, old |-> head.old, new |-> head.new, ok |-> ok]
  BY <1>3 DEF OnChange
<1>5. task' \in Tasks /\ task'.old \in Item[task'.key].valid
  BY <1>4 DEF Changes, Tasks
<1>6. UNCHANGED <<storage, writer, change>> /\ queue' = Tail(queue)
  BY DEF OnChange
<1>7. MemTypes'
  BY <1>2, <1>5, <1>6 DEF Values, MemTypes
<1> QED BY <1>6, <1>7 DEF Values, ValuesInv

\* What on_change refuses is replaced by a value that was valid.
LEMMA RollBackValues ==
  ASSUME Values, RollBack
  PROVE  Values'
<1>1. /\ task # None /\ task' = None /\ writer = None
      /\ storage' = [storage EXCEPT ![task.key] = task.old]
      /\ UNCHANGED <<queue, writer, change>>
  BY DEF RollBack, RollBackAlone
<1>2. task.key \in Registered /\ task.old \in Item[task.key].valid
  BY <1>1 DEF Values, MemTypes, Tasks
<1>3. /\ DOMAIN storage = Registered
      /\ \A k \in Registered : storage[k] \in Item[k].valid
  BY <1>1 DEF Values, ValuesInv
<1>4. /\ DOMAIN storage' = Registered
      /\ \A k \in Registered : storage'[k] \in Item[k].valid
  BY <1>1, <1>2, <1>3
<1>5. MemTypes'
  BY <1>1 DEF Values, MemTypes
<1> QED BY <1>1, <1>4, <1>5 DEF Values, ValuesInv

LEMMA NextValues == DiskTypes /\ Values /\ [Next]_vars => Values'
<1> SUFFICES ASSUME DiskTypes, Values, [Next]_vars PROVE Values'
  OBVIOUS
<1>1. ASSUME UNCHANGED <<storage, queue, task, writer, change>> PROVE Values'
  BY <1>1 DEF Values, MemTypes, ValuesInv
<1>2. CASE UNCHANGED vars
  BY <1>1, <1>2 DEF vars, mem
<1>3. CASE Start
  BY <1>3, StartValues
<1>4. CASE PowerLoss
  BY <1>4, PowerLossValues
<1>5. CASE OnChange
  BY <1>5, OnChangeValues
<1>6. CASE RollBack
  BY <1>6, RollBackValues
<1>7. CASE AuditDone
  <2>1. UNCHANGED <<storage, queue, writer, change>> /\ task' = None
    BY <1>7 DEF AuditDone
  <2> QED BY <2>1 DEF Values, MemTypes, ValuesInv
<1>8. ASSUME NEW c \in Clients, CommitTyped(c) \/ CommitText(c) PROVE Values'
  BY <1>8, ApplyValues DEF CommitTyped, CommitText
<1>9. ASSUME NEW c \in Clients, Refuse(c) PROVE Values'
  BY <1>9, RefuseValues
<1>10. ASSUME NEW c \in Clients, Accept(c) PROVE Values'
  BY <1>10, AcceptValues
<1>11. ASSUME NEW c \in Clients, SaveAll(c) PROVE Values'
  BY <1>1, <1>11 DEF SaveAll
<1>12. ASSUME NEW c \in Clients, NEW f \in Files, SaveAs(c, f) PROVE Values'
  BY <1>1, <1>12 DEF SaveAs, mem
<1>13. ASSUME NEW c \in Clients, Save(c) PROVE Values'
  <2>1. UNCHANGED <<storage, queue, task, writer, change>>
    <3>1. CASE OpenTmp(c)
      BY <3>1 DEF OpenTmp, mem
    <3>2. CASE WriteTmp(c)
      BY <3>2 DEF WriteTmp, mem
    <3>3. CASE SyncTmp(c)
      BY <3>3 DEF SyncTmp, mem
    <3>4. CASE RenameTmp(c)
      BY <3>4 DEF RenameTmp, mem
    <3>5. CASE SyncDir(c)
      BY <3>5 DEF SyncDir
    <3>6. CASE WriteFails(c)
      BY <3>6 DEF WriteFails, mem
    <3> QED BY <1>13, <3>1, <3>2, <3>3, <3>4, <3>5, <3>6 DEF Save
  <2> QED BY <1>1, <2>1
<1> QED BY <1>2, <1>3, <1>4, <1>5, <1>6, <1>7, <1>8, <1>9, <1>10, <1>11, <1>12, <1>13
      DEF Next, Worker

-----------------------------------------------------------------------------
(* Files.                                                                   *)

OneSaver == \A c, d \in Savers : c = d

Data(f, i) == IF i = 0 THEN Broken ELSE ino[f][i].data
Synced(f, i) == i # 0 => ino[f][i].synced
Writing(c) == save[c].pc \in {"write", "sync", "rename"}

\* A save writes files that it has collected the data of.
Todo(c) ==
    ~At(c, "idle") =>
        /\ c \in Savers
        /\ save[c].todo # <<>>
        /\ \A i \in 1 .. Len(save[c].todo) : save[c].todo[i] \in DOMAIN save[c].out

\* The descriptor of a save is that of the temporary file, until the rename.
Descriptor(c) ==
    LET f == Doing(c)  fd == save[c].fd
    IN  /\ At(c, "open") => fd = 0
        /\ Writing(c) => tmp[f] = fd /\ fd # 0 /\ fd \notin {dir[f], durable[f]}
        /\ At(c, "syncdir") => dir[f] = fd /\ fd # 0 /\ tmp[f] = 0
        /\ save[c].pc \in {"sync", "rename", "syncdir"} => ino[f][fd].data = save[c].out[f]
        /\ save[c].pc \in {"rename", "syncdir"} => ino[f][fd].synced

\* What a path names is flushed, and so is what it would name after a power
\* loss, which is what is stored.
Stored(f) ==
    /\ Synced(f, dir[f]) /\ Synced(f, durable[f])
    /\ stored[f] = Data(f, durable[f])

\* A temporary file, or a rename that is not flushed, is that of a save under way.
Settled(f) ==
    /\ tmp[f] # 0 => \E c \in Clients : Writing(c) /\ Doing(c) = f
    /\ dir[f] # durable[f] => \E c \in Clients : At(c, "syncdir") /\ Doing(c) = f

Disk ==
    /\ DiskTypes
    /\ \A c \in Clients : Todo(c) /\ Descriptor(c)
    /\ \A f \in Files : Stored(f) /\ Settled(f)

LEMMA LeastOfFour ==
  ASSUME NEW S \in SUBSET (1 .. 4), S # {}
  PROVE  Min(S) \in S
<1>1. S \subseteq {1, 2, 3, 4}
  OBVIOUS
<1>2. ASSUME NEW x \in S, \A y \in S : x <= y PROVE Min(S) \in S
  BY <1>2 DEF Min
<1>3. CASE 1 \in S
  BY <1>2, <1>3
<1>4. CASE 1 \notin S /\ 2 \in S
  <2>1. \A y \in S : 2 <= y
    BY <1>1, <1>4
  <2> QED BY <1>2, <1>4, <2>1
<1>5. CASE 1 \notin S /\ 2 \notin S /\ 3 \in S
  <2>1. \A y \in S : 3 <= y
    BY <1>1, <1>5
  <2> QED BY <1>2, <1>5, <2>1
<1>6. CASE S = {4}
  BY <1>2, <1>6
<1> QED BY <1>1, <1>3, <1>4, <1>5, <1>6

\* Valid values put into an object give an object.
LEMMA PutObject ==
  ASSUME NEW base \in Objects, NEW ks \in SUBSET Registered,
         \A k \in ks : storage[k] \in Item[k].valid
  PROVE  Put(base, ks) \in Objects
<1>1. ASSUME NEW k \in ks PROVE Node(k) \in Members
  <2>1. storage[k] \in ValidValues
    BY DEF ValidValues
  <2> QED BY <2>1 DEF Node, Nodes, Members
<1>2. Put(base, ks) \in [Keys \cup Foreign -> Members]
  BY <1>1 DEF Put, Objects
<1>3. Sound(Put(base, ks))
  <2> SUFFICES ASSUME NEW k \in Registered, Put(base, ks)[k] # Absent,
                      Put(base, ks)[k].type = GType[k], Fits(k, Put(base, ks)[k])
               PROVE  Put(base, ks)[k].v \in Item[k].valid
    BY DEF Sound
  <2>0. k \in Keys \cup Foreign
    BY DEF Registered
  <2>1. CASE k \in ks
    <3>1. Put(base, ks)[k] = Node(k)
      BY <2>0, <2>1 DEF Put
    <3> QED BY <2>1, <3>1 DEF Node
  <2>2. CASE k \notin ks
    <3>1. Put(base, ks)[k] = base[k]
      BY <2>0, <2>2 DEF Put
    <3>2. Sound(base)
      BY DEF Objects
    <3> QED BY <3>1, <3>2 DEF Sound
  <2> QED BY <2>1, <2>2
<1> QED BY <1>2, <1>3 DEF Objects

LEMMA NoMembersObject == NoMembers \in Objects
<1>1. NoMembers \in [Keys \cup Foreign -> Members]
  BY DEF NoMembers, Members
<1>2. Sound(NoMembers)
  BY DEF NoMembers, Sound, Registered
<1> QED BY <1>1, <1>2 DEF Objects

\* The files to write, in some order.
LEMMA TodoOfSet ==
  ASSUME NEW fs \in SUBSET Files, fs # {}
  PROVE  SetToSeq(fs) \in Seq(fs) /\ SetToSeq(fs) # <<>>
<1>1. IsFiniteSet(fs)
  BY FileAssumption, FS_Subset
<1>2. Cardinality(fs) \in Nat /\ Cardinality(fs) # 0
  BY <1>1, FS_CardinalityType, FS_EmptySet
<1>3. \E f \in [1 .. Cardinality(fs) -> fs] : IsInjective(f)
  <2>1. PICK f : f \in Bijection(1 .. Cardinality(fs), fs)
    BY <1>1, FS_CardinalityType, FS_Bijection DEF ExistsBijection
  <2> QED BY <2>1 DEF Bijection, Injection, IsInjective
<1>4. SetToSeq(fs) \in [1 .. Cardinality(fs) -> fs]
  BY <1>3 DEF SetToSeq
<1> QED BY <1>2, <1>4

LEMMA EmptyOutput == NoSave \in Saves
<1>1. <<>> \in [{} -> Objects]
  OBVIOUS
<1>2. [{} -> Objects] \in {[fs -> Objects] : fs \in SUBSET Files}
  OBVIOUS
<1>3. <<>> \in Outputs
  BY <1>1, <1>2 DEF Outputs
<1>4. <<>> \in Seq(Files)
  BY EmptySeq
<1> QED BY <1>3, <1>4 DEF NoSave, Saves

LEMMA InitDisk == Init => Disk
<1> SUFFICES ASSUME Init PROVE Disk
  OBVIOUS
<1>1. \A f \in Files : Initial[f] \in Contents
  <2> SUFFICES ASSUME NEW f \in Files, Initial[f] # Broken PROVE Initial[f] \in Objects
    BY DEF Contents
  <2>1. \A k \in Keys \cup Foreign : Initial[f][k] \in FirstMembers(f)
    BY DEF FirstMembers
  <2>2. \A k \in Keys \cup Foreign : Initial[f][k] \in Members
    BY <2>1 DEF Members
  <2>3. Initial[f] = [k \in Keys \cup Foreign |-> Initial[f][k]]
    BY FileAssumption
  <2>4. Initial[f] \in [Keys \cup Foreign -> Members]
    BY <2>2, <2>3
  <2>5. Sound(Initial[f])
    BY ValidAssumption DEF Sound, Member
  <2> QED BY <2>4, <2>5 DEF Objects
<1>2. \A f \in Files : dir[f] = IF Initial[f] = Broken THEN 0 ELSE 1
  BY DEF Init
<1>3. /\ dir \in [Files -> 0 .. 4] /\ tmp \in [Files -> 0 .. 4]
      /\ durable \in [Files -> 0 .. 4]
  BY DEF Init
<1>4. Unused \in [data : Contents, synced : BOOLEAN] /\ Unused.synced
  BY DEF Unused, Contents
<1>5. \A f \in Files, i \in Inodes :
         ino[f][i] = IF i = dir[f] THEN [data |-> Initial[f], synced |-> TRUE] ELSE Unused
  BY DEF Init
<1>6. ino \in [Files -> [Inodes -> [data : Contents, synced : BOOLEAN]]]
  BY <1>1, <1>4 DEF Init
<1>7. save \in [Clients -> Saves] /\ stored \in [Files -> Contents]
  <2>1. stored = [f \in Files |-> Initial[f]]
    BY FileAssumption DEF Init
  <2> QED BY <1>1, <2>1, EmptyOutput DEF Init
<1>8. DiskTypes
  BY <1>3, <1>6, <1>7 DEF DiskTypes
<1>9. \A c \in Clients : At(c, "idle")
  BY DEF Init, NoSave, At
<1>10. \A c \in Clients : Todo(c) /\ Descriptor(c)
  BY <1>9 DEF Todo, Descriptor, At, Writing
<1>11. ASSUME NEW f \in Files PROVE Stored(f)
  <2>1. durable[f] = dir[f] /\ stored[f] = Initial[f]
    BY DEF Init
  <2>2. CASE dir[f] = 0
    <3>1. Initial[f] = Broken
      BY <1>2, <2>2
    <3> QED BY <2>1, <2>2, <3>1 DEF Stored, Synced, Data
  <2>3. CASE dir[f] # 0
    <3>1. dir[f] \in Inodes
      BY <1>2, <2>3 DEF Inodes
    <3>2. ino[f][dir[f]] = [data |-> Initial[f], synced |-> TRUE]
      BY <1>5, <3>1
    <3> QED BY <2>1, <2>3, <3>2 DEF Stored, Synced, Data
  <2> QED BY <2>2, <2>3
<1>12. \A f \in Files : Settled(f)
  BY DEF Init, Settled
<1> QED BY <1>8, <1>10, <1>11, <1>12 DEF Disk

\* What the one save under way works on; all other files are settled.
LEMMA Active ==
  ASSUME OneSaver, Disk, NEW c \in Clients, ~At(c, "idle")
  PROVE  /\ c \in Savers /\ save[c] \in Saves
         /\ Doing(c) \in Files /\ Doing(c) \in DOMAIN save[c].out
         /\ save[c].out[Doing(c)] \in Objects
         /\ \A d \in Clients \ {c} : At(d, "idle")
         /\ \A f \in Files \ {Doing(c)} : tmp[f] = 0 /\ dir[f] = durable[f]
<1>1. Todo(c) /\ save[c] \in Saves
  BY DEF Disk, DiskTypes
<1>2. c \in Savers /\ save[c].todo \in Seq(Files) /\ save[c].todo # <<>>
  BY <1>1 DEF Todo, Saves
<1>3. 1 \in 1 .. Len(save[c].todo) /\ Doing(c) = save[c].todo[1]
  BY <1>2 DEF Doing
<1>4. Doing(c) \in Files /\ Doing(c) \in DOMAIN save[c].out
  BY <1>1, <1>2, <1>3 DEF Todo
<1>5. PICK fs \in SUBSET Files : save[c].out \in [fs -> Objects]
  BY <1>1 DEF Saves, Outputs
<1>6. save[c].out[Doing(c)] \in Objects
  BY <1>4, <1>5
<1>7. \A d \in Clients \ {c} : At(d, "idle")
  BY <1>2 DEF Disk, Todo, OneSaver
<1>8. \A f \in Files \ {Doing(c)} : tmp[f] = 0 /\ dir[f] = durable[f]
  BY <1>7 DEF Disk, Settled, Writing, At
<1> QED BY <1>1, <1>2, <1>4, <1>6, <1>7, <1>8

\* A step of that save leaves the other files alone.
LEMMA ActiveStep ==
  ASSUME OneSaver, Disk, NEW c \in Clients, ~At(c, "idle"),
         NEW f \in Files, f = Doing(c),
         \A d \in Clients \ {c} : save'[d] = save[d],
         \A g \in Files \ {f} :
            /\ dir'[g] = dir[g] /\ tmp'[g] = tmp[g] /\ durable'[g] = durable[g]
            /\ stored'[g] = stored[g] /\ ino'[g] = ino[g],
         DiskTypes', Todo(c)', Descriptor(c)', Stored(f)', Settled(f)'
  PROVE  Disk'
<1>1. ASSUME NEW d \in Clients \ {c} PROVE Todo(d)' /\ Descriptor(d)'
  <2>1. save'[d].pc = "idle"
    BY Active DEF At
  <2> QED BY <2>1 DEF Todo, Descriptor, At, Writing
<1>2. ASSUME NEW g \in Files \ {f} PROVE Stored(g)' /\ Settled(g)'
  <2>1. Stored(g) /\ tmp[g] = 0 /\ dir[g] = durable[g]
    BY Active DEF Disk
  <2>2. Stored(g)'
    BY <2>1 DEF Stored, Synced, Data
  <2>3. Settled(g)'
    BY <2>1 DEF Settled
  <2> QED BY <2>2, <2>3
<1> QED BY <1>1, <1>2 DEF Disk

\* A new temporary file is another one than those the paths name.
LEMMA FreshIsFree ==
  ASSUME OneSaver, Disk, NEW c \in Clients, At(c, "open")
  PROVE  LET f == Doing(c)
         IN  /\ tmp[f] = 0 /\ dir[f] = durable[f]
             /\ Fresh(f) \in Inodes /\ Fresh(f) # dir[f]
<1> DEFINE f == Doing(c)
           free == Inodes \ ({dir[f], tmp[f], durable[f]} \cup Descriptors(f, Clients))
<1>1. ~At(c, "idle")
  BY DEF At
<1>2. f \in Files /\ \A d \in Clients \ {c} : At(d, "idle")
  BY <1>1, Active
<1>3. save[c].fd = 0
  BY DEF Disk, Descriptor
<1>4. Descriptors(f, Clients) \subseteq {0}
  BY <1>2, <1>3 DEF Descriptors
<1>5. tmp[f] = 0 /\ dir[f] = durable[f]
  BY <1>2 DEF Disk, Settled, Writing, At
<1>6. dir[f] \in 0 .. 4
  BY <1>2 DEF Disk, DiskTypes
<1>7. free \in SUBSET (1 .. 4)
  BY DEF Inodes
<1>8. free # {}
  <2>1. \A i \in {1, 2} : i # dir[f] => i \in free
    BY <1>4, <1>5 DEF Inodes
  <2>2. 1 # dir[f] \/ 2 # dir[f]
    OBVIOUS
  <2> QED BY <2>1, <2>2
<1>9. Min(free) \in free
  <2> HIDE DEF free
  <2> QED BY <1>7, <1>8, LeastOfFour
<1>10. Fresh(f) = Min(free)
  BY DEF Fresh
<1> QED BY <1>5, <1>9, <1>10

LEMMA OpenTmpDisk ==
  ASSUME OneSaver, Disk, NEW c \in Clients, OpenTmp(c), NEW f \in Files, f = Doing(c)
  PROVE  Disk'
<1>1. At(c, "open") /\ ~At(c, "idle")
  BY DEF OpenTmp, At
<1>2. save[c] \in Saves
  BY <1>1, Active
<1>3. tmp[f] = 0 /\ dir[f] = durable[f] /\ Fresh(f) \in Inodes /\ Fresh(f) # dir[f]
  BY <1>1, FreshIsFree
<1>4. PICK new \in Inodes : new = Fresh(f)
  BY <1>3
<1>5. /\ tmp' = [tmp EXCEPT ![f] = new]
      /\ ino' = [ino EXCEPT ![f][new] = [data |-> Broken, synced |-> FALSE]]
      /\ save' = [save EXCEPT ![c].pc = "write", ![c].fd = new]
      /\ UNCHANGED <<dir, durable, stored>>
  BY <1>3, <1>4 DEF OpenTmp
<1>6. DiskTypes
  BY DEF Disk
<1>7. new \in 0 .. 4 /\ new # 0 /\ new # dir[f]
  BY <1>3, <1>4 DEF Inodes
<1>8. /\ save'[c].pc = "write" /\ save'[c].fd = new
      /\ save'[c].todo = save[c].todo /\ save'[c].out = save[c].out
      /\ save' \in [Clients -> Saves]
      /\ \A d \in Clients \ {c} : save'[d] = save[d]
  BY <1>2, <1>5, <1>6, <1>7 DEF DiskTypes, Saves
<1>9. /\ tmp' \in [Files -> 0 .. 4] /\ tmp'[f] = new
      /\ \A g \in Files \ {f} : tmp'[g] = tmp[g]
  BY <1>5, <1>6, <1>7 DEF DiskTypes
<1>10. /\ ino' \in [Files -> [Inodes -> [data : Contents, synced : BOOLEAN]]]
       /\ \A g \in Files \ {f} : ino'[g] = ino[g]
       /\ \A j \in Inodes \ {new} : ino'[f][j] = ino[f][j]
  BY <1>4, <1>5, <1>6 DEF DiskTypes, Contents
<1>11. DiskTypes'
  BY <1>5, <1>6, <1>8, <1>9, <1>10 DEF DiskTypes
<1>12. Doing(c)' = f
  BY <1>8 DEF Doing
<1>13. Todo(c)'
  BY <1>1, <1>8 DEF Disk, Todo, At
<1>14. Descriptor(c)'
  BY <1>3, <1>5, <1>7, <1>8, <1>9, <1>12 DEF Descriptor, Writing, At
<1>15. Stored(f)'
  <2>1. Stored(f) /\ dir[f] \in 0 .. 4
    BY <1>6 DEF Disk, DiskTypes
  <2>2. dir[f] # 0 => ino'[f][dir[f]] = ino[f][dir[f]]
    BY <1>7, <1>10, <2>1 DEF Inodes
  <2> QED BY <1>3, <1>5, <2>1, <2>2 DEF Stored, Synced, Data
<1>16. Settled(f)'
  BY <1>3, <1>5, <1>8, <1>12 DEF Settled, Writing
<1> QED BY <1>1, <1>5, <1>8, <1>9, <1>10, <1>11, <1>13, <1>14, <1>15, <1>16, ActiveStep

\* Steps that only go on with the same file.
LEMMA GotoSave ==
  ASSUME OneSaver, Disk, NEW c \in Clients, ~At(c, "idle"),
         NEW pc \in {"sync", "rename", "syncdir"}, Goto(c, pc)
  PROVE  /\ save' \in [Clients -> Saves]
         /\ save'[c].pc = pc /\ save'[c].fd = save[c].fd /\ save'[c].out = save[c].out
         /\ Doing(c)' = Doing(c)
         /\ Todo(c)'
         /\ \A d \in Clients \ {c} : save'[d] = save[d]
<1>1. save' = [save EXCEPT ![c].pc = pc] /\ save[c] \in Saves
  BY Active DEF Goto
<1>2. save \in [Clients -> Saves]
  BY DEF Disk, DiskTypes
<1>3. /\ save' \in [Clients -> Saves]
      /\ save'[c].pc = pc /\ save'[c].fd = save[c].fd /\ save'[c].out = save[c].out
      /\ save'[c].todo = save[c].todo
      /\ \A d \in Clients \ {c} : save'[d] = save[d]
  BY <1>1, <1>2 DEF Saves
<1>4. Doing(c)' = Doing(c)
  BY <1>3 DEF Doing
<1>5. Todo(c)'
  BY <1>3 DEF Disk, Todo
<1> QED BY <1>3, <1>4, <1>5

\* What the descriptor of a save names, in the steps before the rename.
LEMMA WritingFile ==
  ASSUME OneSaver, Disk, NEW c \in Clients, Writing(c), NEW f \in Files, f = Doing(c)
  PROVE  /\ ~At(c, "idle")
         /\ save[c].fd \in Inodes /\ tmp[f] = save[c].fd
         /\ save[c].fd # dir[f] /\ dir[f] = durable[f]
<1>1. ~At(c, "idle")
  BY DEF Writing, At
<1>2. \A d \in Clients \ {c} : At(d, "idle")
  BY <1>1, Active
<1>3. save[c].fd \in 0 .. 4
  BY <1>1, Active DEF Saves
<1>4. tmp[f] = save[c].fd /\ save[c].fd # 0 /\ save[c].fd \notin {dir[f], durable[f]}
  BY DEF Disk, Descriptor
<1>5. dir[f] = durable[f]
  BY <1>2 DEF Disk, Settled, Writing, At
<1> QED BY <1>1, <1>3, <1>4, <1>5 DEF Inodes

\* A step before the rename that only changes the temporary file.
LEMMA WritingStep ==
  ASSUME OneSaver, Disk, NEW c \in Clients, Writing(c), NEW f \in Files, f = Doing(c),
         NEW pc \in {"sync", "rename"}, Goto(c, pc),
         NEW new \in [data : Contents, synced : BOOLEAN],
         ino' = [ino EXCEPT ![f][save[c].fd] = new],
         new.data = save[c].out[f], pc = "rename" => new.synced,
         UNCHANGED <<dir, tmp, durable, stored>>
  PROVE  Disk'
<1>1. PICK fd \in Inodes : fd = save[c].fd
  BY WritingFile
<1>2. ~At(c, "idle") /\ tmp[f] = fd /\ fd # dir[f] /\ dir[f] = durable[f]
  BY <1>1, WritingFile
<1>3. /\ save' \in [Clients -> Saves]
      /\ save'[c].pc = pc /\ save'[c].fd = fd /\ save'[c].out = save[c].out
      /\ Doing(c)' = f /\ Todo(c)'
      /\ \A d \in Clients \ {c} : save'[d] = save[d]
  BY <1>1, <1>2, GotoSave
<1>4. DiskTypes
  BY DEF Disk
<1>5. ino' = [ino EXCEPT ![f][fd] = new]
  BY <1>1
<1>6. /\ ino' \in [Files -> [Inodes -> [data : Contents, synced : BOOLEAN]]]
      /\ \A g \in Files \ {f} : ino'[g] = ino[g]
      /\ \A j \in Inodes \ {fd} : ino'[f][j] = ino[f][j]
      /\ ino'[f][fd] = new
  BY <1>1, <1>4, <1>5 DEF DiskTypes
<1>7. DiskTypes'
  BY <1>3, <1>4, <1>6 DEF DiskTypes
<1>8. Descriptor(c)'
  <2>1. fd # 0
    BY DEF Inodes
  <2> QED BY <1>2, <1>3, <1>6, <2>1 DEF Descriptor, Writing, At
<1>9. Stored(f)'
  <2>1. Stored(f) /\ dir[f] \in 0 .. 4
    BY <1>4 DEF Disk, DiskTypes
  <2>2. dir[f] # 0 => ino'[f][dir[f]] = ino[f][dir[f]]
    BY <1>2, <1>6, <2>1 DEF Inodes
  <2> QED BY <1>2, <2>1, <2>2 DEF Stored, Synced, Data
<1>10. Settled(f)'
  BY <1>2, <1>3 DEF Settled, Writing
<1> QED BY <1>2, <1>3, <1>6, <1>7, <1>8, <1>9, <1>10, ActiveStep

LEMMA WriteTmpDisk ==
  ASSUME OneSaver, Disk, NEW c \in Clients, WriteTmp(c), NEW f \in Files, f = Doing(c)
  PROVE  Disk'
<1> DEFINE new == [data |-> save[c].out[f], synced |-> FALSE]
<1>1. Writing(c) /\ ~At(c, "idle")
  BY DEF WriteTmp, Writing, At
<1>2. save[c].out[f] \in Contents
  BY <1>1, Active DEF Contents
<1>3. new \in [data : Contents, synced : BOOLEAN]
  BY <1>2
<1>4. /\ ino' = [ino EXCEPT ![f][save[c].fd] = new] /\ Goto(c, "sync")
      /\ UNCHANGED <<dir, tmp, durable, stored>>
  BY DEF WriteTmp
<1> QED BY <1>1, <1>3, <1>4, WritingStep

LEMMA SyncTmpDisk ==
  ASSUME OneSaver, Disk, NEW c \in Clients, SyncTmp(c), NEW f \in Files, f = Doing(c)
  PROVE  Disk'
<1>1. Writing(c)
  BY DEF SyncTmp, Writing, At
<1>2. PICK fd \in Inodes : fd = save[c].fd
  BY <1>1, WritingFile
<1>3. ino[f][fd].data = save[c].out[f]
  BY <1>2 DEF SyncTmp, At, Disk, Descriptor
<1>4. PICK old \in [data : Contents, synced : BOOLEAN] : old = ino[f][fd]
  BY DEF Disk, DiskTypes
<1>5. PICK new : new = [old EXCEPT !.synced = TRUE]
  OBVIOUS
<1>6. /\ new \in [data : Contents, synced : BOOLEAN]
      /\ new.data = save[c].out[f] /\ new.synced
  BY <1>3, <1>4, <1>5
<1>7. ino' = [ino EXCEPT ![f][fd].synced = TRUE]
  BY <1>2 DEF SyncTmp
<1>8. ino' = [ino EXCEPT ![f][fd] = new]
  <2>1. ino \in [Files -> [Inodes -> [data : Contents, synced : BOOLEAN]]]
    BY DEF Disk, DiskTypes
  <2> QED BY <1>4, <1>5, <1>7, <2>1
<1>9. Goto(c, "rename") /\ UNCHANGED <<dir, tmp, durable, stored>>
  BY DEF SyncTmp
<1> QED BY <1>1, <1>2, <1>6, <1>8, <1>9, WritingStep

LEMMA RenameTmpDisk ==
  ASSUME OneSaver, Disk, NEW c \in Clients, RenameTmp(c), NEW f \in Files, f = Doing(c)
  PROVE  Disk'
<1>1. At(c, "rename") /\ Writing(c)
  BY DEF RenameTmp, Writing, At
<1>2. PICK fd \in Inodes : fd = save[c].fd
  BY <1>1, WritingFile
<1>3. ~At(c, "idle") /\ tmp[f] = fd /\ dir[f] = durable[f]
  BY <1>1, <1>2, WritingFile
<1>4. /\ dir' = [dir EXCEPT ![f] = fd] /\ tmp' = [tmp EXCEPT ![f] = 0]
      /\ Goto(c, "syncdir") /\ UNCHANGED <<ino, durable, stored>>
  BY <1>3 DEF RenameTmp
<1>5. /\ save' \in [Clients -> Saves]
      /\ save'[c].pc = "syncdir" /\ save'[c].fd = fd /\ save'[c].out = save[c].out
      /\ Doing(c)' = f /\ Todo(c)'
      /\ \A d \in Clients \ {c} : save'[d] = save[d]
  BY <1>2, <1>3, <1>4, GotoSave
<1>6. DiskTypes /\ fd \in 0 .. 4 /\ fd # 0
  BY DEF Disk, Inodes
<1>7. /\ dir' \in [Files -> 0 .. 4] /\ tmp' \in [Files -> 0 .. 4]
      /\ dir'[f] = fd /\ tmp'[f] = 0
      /\ \A g \in Files \ {f} : dir'[g] = dir[g] /\ tmp'[g] = tmp[g]
  BY <1>4, <1>6 DEF DiskTypes
<1>8. DiskTypes'
  BY <1>4, <1>5, <1>6, <1>7 DEF DiskTypes
<1>9. ino[f][fd].data = save[c].out[f] /\ ino[f][fd].synced
  BY <1>1, <1>2 DEF Disk, Descriptor, At
<1>10. Descriptor(c)'
  BY <1>4, <1>5, <1>6, <1>7, <1>9 DEF Descriptor, Writing, At
<1>11. Stored(f)'
  <2>1. Stored(f)
    BY DEF Disk
  <2> QED BY <1>4, <1>7, <1>9, <2>1 DEF Stored, Synced, Data
<1>12. Settled(f)'
  BY <1>5, <1>7 DEF Settled, At
<1> QED BY <1>3, <1>4, <1>5, <1>7, <1>8, <1>10, <1>11, <1>12, ActiveStep

\* The save goes on with its next file, or is over.
LEMMA NextFileSave ==
  ASSUME OneSaver, Disk, NEW c \in Clients, ~At(c, "idle"), NextFile(c)
  PROVE  /\ save' \in [Clients -> Saves]
         /\ Todo(c)'
         /\ At(c, "idle")' \/ (At(c, "open")' /\ save'[c].fd = 0)
         /\ \A d \in Clients \ {c} : save'[d] = save[d]
<1>1. save \in [Clients -> Saves] /\ save[c] \in Saves
  BY DEF Disk, DiskTypes
<1>2. PICK todo \in Seq(Files) : todo = save[c].todo
  BY <1>1 DEF Saves
<1>3. /\ c \in Savers /\ todo # <<>>
      /\ \A i \in 1 .. Len(todo) : todo[i] \in DOMAIN save[c].out
  BY <1>2 DEF Disk, Todo
<1>4. CASE Len(todo) = 1
  <2>1. save' = [save EXCEPT ![c] = NoSave]
    BY <1>2, <1>4 DEF NextFile
  <2>2. save'[c] = NoSave /\ \A d \in Clients \ {c} : save'[d] = save[d]
    BY <1>1, <2>1
  <2>3. save' \in [Clients -> Saves]
    BY <1>1, <2>1, EmptyOutput
  <2>4. At(c, "idle")'
    BY <2>2 DEF At, NoSave
  <2> QED BY <2>2, <2>3, <2>4 DEF Todo
<1>5. CASE Len(todo) # 1
  <2>1. PICK rest \in Seq(Files) : rest = Tail(todo)
    BY <1>3, HeadTailProperties
  <2>2. Len(rest) = Len(todo) - 1 /\ \A i \in 1 .. Len(rest) : rest[i] = todo[i + 1]
    BY <1>3, <2>1, HeadTailProperties
  <2>3. Len(todo) \in Nat \ {0, 1}
    BY <1>3, <1>5, EmptySeq
  <2>4. Len(rest) # 0
    BY <2>2, <2>3
  <2>5. rest # <<>>
    BY <2>4
  <2>6. ASSUME NEW i \in 1 .. Len(rest) PROVE rest[i] \in DOMAIN save[c].out
    <3>1. i + 1 \in 1 .. Len(todo)
      BY <2>2, <2>3
    <3> QED BY <1>3, <2>2, <3>1
  <2>7. PICK new : new = [save[c] EXCEPT !.pc = "open", !.todo = rest, !.fd = 0]
    OBVIOUS
  <2>8. save' = [save EXCEPT ![c] = new]
    BY <1>2, <1>5, <2>1, <2>7 DEF NextFile
  <2>9. new \in Saves /\ new.pc = "open" /\ new.todo = rest /\ new.fd = 0 /\ new.out = save[c].out
    <3>1. PICK out \in Outputs : out = save[c].out
      BY <1>1 DEF Saves
    <3>2. PICK all \in BOOLEAN : all = save[c].all
      BY <1>1 DEF Saves
    <3>3. new = [pc |-> "open", out |-> out, todo |-> rest, fd |-> 0, all |-> all]
      BY <1>1, <2>7, <3>1, <3>2 DEF Saves
    <3> QED BY <3>1, <3>3 DEF Saves
  <2>10. /\ save'[c].pc = "open" /\ save'[c].todo = rest /\ save'[c].fd = 0
        /\ save'[c].out = save[c].out
        /\ save' \in [Clients -> Saves]
        /\ \A d \in Clients \ {c} : save'[d] = save[d]
    BY <1>1, <2>8, <2>9
  <2>11. Todo(c)'
    BY <1>3, <2>5, <2>6, <2>10 DEF Todo
  <2> QED BY <2>10, <2>11 DEF At
<1> QED BY <1>4, <1>5

\* The end of the work on a file: only the inodes that it names are left.
LEMMA LastStep ==
  ASSUME OneSaver, Disk, NEW c \in Clients, ~At(c, "idle"), NEW f \in Files, f = Doing(c),
         NextFile(c), NEW names, Reclaim(c, names), dir[f] # 0 => dir[f] \in names,
         NEW text \in Contents, stored' = [stored EXCEPT ![f] = text],
         Synced(f, dir[f]), text = Data(f, dir[f]),
         durable' = [durable EXCEPT ![f] = dir[f]], UNCHANGED dir,
         tmp' = [tmp EXCEPT ![f] = 0]
  PROVE  Disk'
<1>1. /\ save' \in [Clients -> Saves] /\ Todo(c)'
      /\ At(c, "idle")' \/ (At(c, "open")' /\ save'[c].fd = 0)
      /\ \A d \in Clients \ {c} : save'[d] = save[d]
  BY NextFileSave
<1>2. DiskTypes /\ dir[f] \in 0 .. 4
  BY DEF Disk, DiskTypes
<1>3. /\ durable' \in [Files -> 0 .. 4] /\ tmp' \in [Files -> 0 .. 4]
      /\ durable'[f] = dir[f] /\ tmp'[f] = 0
      /\ stored' \in [Files -> Contents] /\ stored'[f] = text
      /\ \A g \in Files \ {f} : /\ durable'[g] = durable[g] /\ tmp'[g] = tmp[g]
                                /\ stored'[g] = stored[g]
  BY <1>2 DEF DiskTypes
<1>4. PICK kept : kept = names \cup Descriptors(f, Clients \ {c})
  OBVIOUS
<1>5. ino' = [ino EXCEPT ![f] = [i \in Inodes |-> IF i \in kept THEN ino[f][i] ELSE Unused]]
  BY <1>2, <1>4 DEF Reclaim, DiskTypes
<1>6. Unused \in [data : Contents, synced : BOOLEAN]
  BY DEF Unused, Contents
<1>7. /\ ino' \in [Files -> [Inodes -> [data : Contents, synced : BOOLEAN]]]
      /\ \A g \in Files \ {f} : ino'[g] = ino[g]
      /\ \A i \in Inodes : i \in kept => ino'[f][i] = ino[f][i]
  BY <1>2, <1>5, <1>6 DEF DiskTypes
<1>8. dir[f] # 0 => ino'[f][dir[f]] = ino[f][dir[f]]
  BY <1>2, <1>4, <1>7 DEF Inodes
<1>9. DiskTypes'
  BY <1>1, <1>2, <1>3, <1>7 DEF DiskTypes
<1>10. Descriptor(c)'
  BY <1>1 DEF Descriptor, Writing, At
<1>11. Stored(f)'
  BY <1>3, <1>8 DEF Stored, Synced, Data
<1>12. Settled(f)'
  BY <1>3 DEF Settled
<1> QED BY <1>1, <1>3, <1>7, <1>9, <1>10, <1>11, <1>12, ActiveStep

LEMMA SyncDirDisk ==
  ASSUME OneSaver, Disk, NEW c \in Clients, SyncDir(c), NEW f \in Files, f = Doing(c)
  PROVE  Disk'
<1>1. At(c, "syncdir") /\ ~At(c, "idle")
  BY DEF SyncDir, At
<1>2. PICK text \in Objects : text = save[c].out[f]
  BY <1>1, Active
<1>3. text \in Contents
  BY DEF Contents
<1>4. /\ NextFile(c) /\ Reclaim(c, {dir[f], tmp[f]})
      /\ stored' = [stored EXCEPT ![f] = text]
      /\ durable' = [durable EXCEPT ![f] = dir[f]] /\ UNCHANGED <<dir, tmp>>
  BY <1>2 DEF SyncDir
<1>5. /\ dir[f] = save[c].fd /\ save[c].fd # 0 /\ tmp[f] = 0
      /\ ino[f][dir[f]].data = text /\ ino[f][dir[f]].synced
  BY <1>1, <1>2 DEF Disk, Descriptor, At
<1>6. Synced(f, dir[f]) /\ text = Data(f, dir[f])
  BY <1>5 DEF Synced, Data
<1>7. tmp' = [tmp EXCEPT ![f] = 0]
  BY <1>4, <1>5 DEF Disk, DiskTypes
<1> QED BY <1>1, <1>3, <1>4, <1>6, <1>7, LastStep

LEMMA WriteFailsDisk ==
  ASSUME OneSaver, Disk, NEW c \in Clients, WriteFails(c), NEW f \in Files, f = Doing(c)
  PROVE  Disk'
<1>1. ~At(c, "idle") /\ ~At(c, "syncdir")
  BY DEF WriteFails, At
<1>2. \A d \in Clients \ {c} : At(d, "idle")
  BY <1>1, Active
<1>3. dir[f] = durable[f]
  BY <1>1, <1>2 DEF Disk, Settled, At
<1>4. /\ NextFile(c) /\ Reclaim(c, {dir[f], durable[f]})
      /\ tmp' = [tmp EXCEPT ![f] = 0] /\ UNCHANGED <<dir, durable, stored>>
  BY DEF WriteFails
<1>5. Synced(f, dir[f]) /\ stored[f] = Data(f, dir[f])
  BY <1>3 DEF Disk, Stored
<1>6. stored[f] \in Contents
  BY DEF Disk, DiskTypes
<1>7. PICK text \in Contents : text = stored[f]
  BY <1>6
<1>8. stored' = [stored EXCEPT ![f] = text] /\ durable' = [durable EXCEPT ![f] = dir[f]]
  BY <1>3, <1>4, <1>7 DEF Disk, DiskTypes
<1> QED BY <1>1, <1>4, <1>5, <1>7, <1>8, LastStep

\* A save begins: nothing is under way on any file.
LEMMA BeginSave ==
  ASSUME OneSaver, Disk, NEW c \in Clients, c \in Savers, At(c, "idle"),
         NEW fs \in SUBSET Files, NEW todo \in Seq(fs), todo # <<>>,
         NEW out \in [fs -> Objects], NEW all \in BOOLEAN,
         save' = [save EXCEPT ![c] = [pc |-> "open", all |-> all, fd |-> 0,
                                      todo |-> todo, out |-> out]],
         UNCHANGED disk
  PROVE  Disk'
<1>1. \A d \in Clients : At(d, "idle")
  BY DEF Disk, Todo, OneSaver
<1>2. \A f \in Files : Stored(f) /\ tmp[f] = 0 /\ dir[f] = durable[f]
  BY <1>1 DEF Disk, Settled, Writing, At
<1>3. PICK new : new = [pc |-> "open", all |-> all, fd |-> 0, todo |-> todo, out |-> out]
  OBVIOUS
<1>4. new \in Saves
  <2>1. out \in Outputs
    BY DEF Outputs
  <2>2. todo \in Seq(Files)
    BY SeqMonotonic
  <2> QED BY <1>3, <2>1, <2>2 DEF Saves
<1>5. save' = [save EXCEPT ![c] = new] /\ DiskTypes
  BY <1>3 DEF Disk
<1>6. /\ save' \in [Clients -> Saves] /\ save'[c] = new
      /\ \A d \in Clients \ {c} : save'[d] = save[d]
  BY <1>4, <1>5 DEF DiskTypes
<1>7. DiskTypes'
  BY <1>5, <1>6 DEF DiskTypes, disk
<1>8. \A i \in 1 .. Len(todo) : todo[i] \in fs
  BY LenProperties
<1>9. Todo(c)' /\ Descriptor(c)'
  <2>1. new.pc = "open" /\ new.todo = todo /\ new.out = out /\ new.fd = 0 /\ DOMAIN out = fs
    BY <1>3
  <2>2. Todo(c)'
    BY <1>6, <1>8, <2>1 DEF Todo
  <2>3. Descriptor(c)'
    BY <1>6, <2>1 DEF Descriptor, Writing, At
  <2> QED BY <2>2, <2>3
<1>10. \A d \in Clients \ {c} : Todo(d)' /\ Descriptor(d)'
  BY <1>1, <1>6 DEF Todo, Descriptor, Writing, At
<1>11. \A f \in Files : Stored(f)' /\ Settled(f)'
  BY <1>2 DEF Stored, Synced, Data, Settled, disk
<1> QED BY <1>7, <1>9, <1>10, <1>11 DEF Disk

\* No commit is under way, so every value is valid.
LEMMA SavedIsValid == Values /\ writer = None => \A k \in Registered : storage[k] \in Item[k].valid
BY DEF Values, ValuesInv

LEMMA SaveAllDisk ==
  ASSUME OneSaver, Disk, Values, NEW c \in Clients, SaveAll(c)
  PROVE  Disk'
<1>1. c \in Savers /\ At(c, "idle") /\ writer = None /\ UNCHANGED disk
  BY DEF SaveAll, Idle, At
<1>2. PICK force \in BOOLEAN :
         LET items(f) == {k \in Persistent : Sourced(k) = f /\ (force \/ k \in dirty)}
             fs == {f \in Files : items(f) # {}}
             base(f) == IF Visible(f) = Broken THEN NoMembers ELSE Visible(f)
         IN  /\ fs # {}
             /\ save' = [save EXCEPT ![c] =
                   [pc |-> "open", all |-> TRUE, fd |-> 0, todo |-> SetToSeq(fs),
                    out |-> [f \in fs |-> Put(base(f), items(f))]]]
  BY DEF SaveAll
<1> DEFINE items(f) == {k \in Persistent : Sourced(k) = f /\ (force \/ k \in dirty)}
           base(f) == IF Visible(f) = Broken THEN NoMembers ELSE Visible(f)
<1>3. PICK fs : fs = {f \in Files : items(f) # {}}
  OBVIOUS
<1>4. fs \in SUBSET Files /\ fs # {}
  BY <1>2, <1>3
<1>5. ASSUME NEW f \in fs PROVE Put(base(f), items(f)) \in Objects
  <2>1. items(f) \in SUBSET Registered
    BY DEF Persistent
  <2>2. \A k \in items(f) : storage[k] \in Item[k].valid
    BY <1>1, <2>1, SavedIsValid
  <2>3. base(f) \in Objects
    BY <1>4, VisibleContents, NoMembersObject DEF Contents, Disk
  <2> QED BY <2>1, <2>2, <2>3, PutObject
<1>6. PICK out : out = [f \in fs |-> Put(base(f), items(f))]
  OBVIOUS
<1>7. out \in [fs -> Objects]
  BY <1>5, <1>6
<1>8. PICK todo : todo = SetToSeq(fs)
  OBVIOUS
<1>9. todo \in Seq(fs) /\ todo # <<>>
  BY <1>4, <1>8, TodoOfSet
<1>10. save' = [save EXCEPT ![c] = [pc |-> "open", all |-> TRUE, fd |-> 0,
                                    todo |-> todo, out |-> out]]
  BY <1>2, <1>3, <1>6, <1>8
<1> QED BY <1>1, <1>4, <1>7, <1>9, <1>10, BeginSave

LEMMA SaveAsDisk ==
  ASSUME OneSaver, Disk, Values, NEW c \in Clients, NEW f \in Files, SaveAs(c, f)
  PROVE  Disk'
<1>1. c \in Savers /\ At(c, "idle") /\ writer = None /\ UNCHANGED disk
  BY DEF SaveAs, Idle, At
<1>2. PICK data : data = Put(NoMembers, Persistent)
  OBVIOUS
<1>3. data \in Objects
  <2>1. Persistent \in SUBSET Registered
    BY DEF Persistent
  <2>2. \A k \in Persistent : storage[k] \in Item[k].valid
    BY <1>1, <2>1, SavedIsValid
  <2> QED BY <1>2, <2>1, <2>2, NoMembersObject, PutObject
<1>4. PICK out : out = [g \in {f} |-> data]
  OBVIOUS
<1>5. out \in [{f} -> Objects] /\ {f} \in SUBSET Files
  BY <1>3, <1>4
<1>6. PICK todo : todo = <<f>>
  OBVIOUS
<1>7. todo \in Seq({f}) /\ todo # <<>>
  BY <1>6
<1>8. save' = [save EXCEPT ![c] = [pc |-> "open", all |-> FALSE, fd |-> 0,
                                   todo |-> todo, out |-> out]]
  BY <1>2, <1>4, <1>6 DEF SaveAs
<1> QED BY <1>1, <1>5, <1>7, <1>8, BeginSave

\* A power loss tears nothing that a path names.
LEMMA PowerLossFiles ==
  ASSUME Disk, PowerLoss, NEW f \in Files
  PROVE  /\ dir'[f] \in {dir[f], durable[f]}
         /\ \A i \in Inodes : ino'[f][i] \in [data : Contents, synced : BOOLEAN]
         /\ dir'[f] # 0 => /\ ino'[f][dir'[f]].data = ino[f][dir'[f]].data
                          /\ ino'[f][dir'[f]].synced
<1>1. dir'[f] \in {dir[f], durable[f]}
  BY DEF PowerLoss
<1>2. Stored(f) /\ dir[f] \in 0 .. 4 /\ durable[f] \in 0 .. 4
  BY DEF Disk, DiskTypes
<1>3. dir'[f] # 0 => dir'[f] \in Inodes /\ ino[f][dir'[f]].synced
  BY <1>1, <1>2 DEF Stored, Synced, Inodes
<1>4. PICK torn \in SUBSET {g \in Files : dir'[g] # 0 /\ ~ino[g][dir'[g]].synced} :
        ino' = [g \in Files |-> [i \in Inodes |->
                  IF i = dir'[g] /\ g \notin torn THEN [ino[g][i] EXCEPT !.synced = TRUE]
                  ELSE Unused]]
  BY DEF PowerLoss
<1>5. f \notin torn
  BY <1>3
<1>6. \A i \in Inodes : ino'[f][i] = IF i = dir'[f] THEN [ino[f][i] EXCEPT !.synced = TRUE]
                                     ELSE Unused
  BY <1>4, <1>5
<1>7. \A i \in Inodes : /\ [ino[f][i] EXCEPT !.synced = TRUE] \in [data : Contents, synced : BOOLEAN]
                        /\ [ino[f][i] EXCEPT !.synced = TRUE].data = ino[f][i].data
                        /\ [ino[f][i] EXCEPT !.synced = TRUE].synced
  <2> SUFFICES ASSUME NEW i \in Inodes, NEW old, old = ino[f][i]
               PROVE  /\ [old EXCEPT !.synced = TRUE] \in [data : Contents, synced : BOOLEAN]
                      /\ [old EXCEPT !.synced = TRUE].data = old.data
                      /\ [old EXCEPT !.synced = TRUE].synced
    OBVIOUS
  <2>1. old \in [data : Contents, synced : BOOLEAN]
    BY DEF Disk, DiskTypes
  <2> QED BY <2>1
<1>8. Unused \in [data : Contents, synced : BOOLEAN]
  BY DEF Unused, Contents
<1> QED BY <1>1, <1>3, <1>6, <1>7, <1>8

LEMMA PowerLossDisk ==
  ASSUME Disk, PowerLoss
  PROVE  Disk'
<1>1. /\ \E undone \in SUBSET {f \in Files : dir[f] # durable[f]} :
             dir' = [f \in Files |-> IF f \in undone THEN durable[f] ELSE dir[f]]
      /\ \E torn \in SUBSET {f \in Files : dir'[f] # 0 /\ ~ino[f][dir'[f]].synced} :
             ino' = [f \in Files |-> [i \in Inodes |->
                       IF i = dir'[f] /\ f \notin torn THEN [ino[f][i] EXCEPT !.synced = TRUE]
                       ELSE Unused]]
      /\ durable' = dir' /\ stored' = [f \in Files |-> Visible(f)']
      /\ tmp' = [f \in Files |-> 0] /\ save' = [c \in Clients |-> NoSave]
  BY DEF PowerLoss
<1>2. dir' \in [Files -> 0 .. 4]
  BY <1>1 DEF Disk, DiskTypes
<1>3. ino' \in [Files -> [Inodes -> [data : Contents, synced : BOOLEAN]]]
  <2>1. DOMAIN ino' = Files /\ \A f \in Files : DOMAIN ino'[f] = Inodes
    BY <1>1
  <2>2. ino' = [f \in Files |-> [i \in Inodes |-> ino'[f][i]]]
    BY <1>1
  <2>3. \A f \in Files, i \in Inodes : ino'[f][i] \in [data : Contents, synced : BOOLEAN]
    BY PowerLossFiles
  <2> QED BY <2>2, <2>3
<1>4. \A f \in Files : /\ stored'[f] = Visible(f)'
                       /\ Visible(f)' = IF dir'[f] = 0 THEN Broken ELSE ino'[f][dir'[f]].data
  BY <1>1 DEF Visible
<1>5. \A f \in Files : stored'[f] \in Contents
  <2> SUFFICES ASSUME NEW f \in Files PROVE stored'[f] \in Contents
    OBVIOUS
  <2>1. dir'[f] # 0 => dir'[f] \in Inodes
    BY <1>2 DEF Inodes
  <2> QED BY <1>3, <1>4, <2>1 DEF Contents
<1>6. DiskTypes'
  <2>1. stored' = [f \in Files |-> stored'[f]]
    BY <1>1
  <2>2. stored' \in [Files -> Contents]
    BY <1>5, <2>1
  <2> QED BY <1>1, <1>2, <1>3, <2>2, EmptyOutput DEF DiskTypes
<1>7. \A c \in Clients : save'[c].pc = "idle"
  BY <1>1 DEF NoSave
<1>8. \A c \in Clients : Todo(c)' /\ Descriptor(c)'
  BY <1>7 DEF Todo, Descriptor, Writing, At
<1>9. \A f \in Files : Stored(f)'
  <2> SUFFICES ASSUME NEW f \in Files PROVE Stored(f)'
    OBVIOUS
  <2>1. dir'[f] # 0 => ino'[f][dir'[f]].synced
    BY PowerLossFiles
  <2> QED BY <1>1, <1>4, <2>1 DEF Stored, Synced, Data
<1>10. \A f \in Files : Settled(f)'
  BY <1>1 DEF Settled
<1> QED BY <1>6, <1>8, <1>9, <1>10 DEF Disk

LEMMA NextDisk == OneSaver /\ Disk /\ Values /\ [Next]_vars => Disk'
<1> SUFFICES ASSUME OneSaver, Disk, Values, [Next]_vars PROVE Disk'
  OBVIOUS
<1>1. ASSUME UNCHANGED <<save, disk>> PROVE Disk'
  <2>1. UNCHANGED <<save, dir, tmp, ino, durable, stored>>
    BY <1>1 DEF disk
  <2>2. DiskTypes'
    BY <2>1 DEF Disk, DiskTypes
  <2>3. \A c \in Clients : Todo(c)' /\ Descriptor(c)'
    BY <2>1 DEF Disk, Todo, Descriptor, Writing, At, Doing
  <2>4. \A f \in Files : Stored(f)' /\ Settled(f)'
    BY <2>1 DEF Disk, Stored, Synced, Data, Settled, Writing, At, Doing
  <2> QED BY <2>2, <2>3, <2>4 DEF Disk
<1>2. CASE UNCHANGED vars
  BY <1>1, <1>2 DEF vars
<1>3. CASE Start
  BY <1>1, <1>3 DEF Start
<1>4. CASE PowerLoss
  BY <1>4, PowerLossDisk
<1>5. CASE Worker
  <2>1. UNCHANGED <<save, disk>>
    BY <1>5 DEF Worker, OnChange, RollBack, RollBackAlone, AuditDone
  <2> QED BY <1>1, <2>1
<1>6. ASSUME NEW c \in Clients, CommitTyped(c) \/ CommitText(c) PROVE Disk'
  <2>1. UNCHANGED <<save, disk>>
    BY <1>6 DEF CommitTyped, CommitText, Apply
  <2> QED BY <1>1, <2>1
<1>7. ASSUME NEW c \in Clients, Refuse(c) \/ Accept(c) PROVE Disk'
  <2>1. UNCHANGED <<save, disk>>
    BY <1>7 DEF Refuse, Accept
  <2> QED BY <1>1, <2>1
<1>8. ASSUME NEW c \in Clients, SaveAll(c) PROVE Disk'
  BY <1>8, SaveAllDisk
<1>9. ASSUME NEW c \in Clients, NEW f \in Files, SaveAs(c, f) PROVE Disk'
  BY <1>9, SaveAsDisk
<1>10. ASSUME NEW c \in Clients, Save(c) PROVE Disk'
  <2>1. ~At(c, "idle")
    BY <1>10 DEF Save, OpenTmp, WriteTmp, SyncTmp, RenameTmp, SyncDir, WriteFails, At
  <2>2. PICK f \in Files : f = Doing(c)
    BY <2>1, Active
  <2> QED BY <1>10, <2>2, OpenTmpDisk, WriteTmpDisk, SyncTmpDisk, RenameTmpDisk, SyncDirDisk,
             WriteFailsDisk DEF Save
<1> QED BY <1>2, <1>3, <1>4, <1>5, <1>6, <1>7, <1>8, <1>9, <1>10 DEF Next

LEMMA Inductive == OneSaver => (Spec => [](Disk /\ Values))
<1>1. Init => Disk /\ Values
  BY InitDisk, InitValues
<1>2. OneSaver /\ Disk /\ Values /\ [Next]_vars => (Disk /\ Values)'
  <2>1. Disk => DiskTypes
    BY DEF Disk
  <2> QED BY <2>1, NextDisk, NextValues
<1> SUFFICES ASSUME OneSaver PROVE Spec => [](Disk /\ Values)
  OBVIOUS
<1>3. Disk /\ Values /\ [Next]_vars => (Disk /\ Values)'
  BY <1>2
<1> QED BY <1>1, <1>3, PTL DEF Spec

\* OnlyValidValues of the runs: no reader of the lock, and no restart, sees a
\* value that its validator refuses, though a commit has it in place before it
\* asks the validator and the worker brings old values back (cfg_commit_value,
\* cfg_change_worker, atomic_write_file).
THEOREM ValuesCorrect ==
  ASSUME OneSaver
  PROVE  Spec => []OnlyValidValues
<1>1. Values => OnlyValidValues
  BY DEF Values, ValuesInv, OnlyValidValues, CanRead, Value
<1>2. Spec => [](Disk /\ Values)
  BY Inductive
<1> QED BY <1>1, <1>2, PTL

-----------------------------------------------------------------------------
(* What is visible.                                                         *)

Written(f) == {save[c].out[f] : c \in {d \in Clients : ~At(d, "idle") /\ f \in DOMAIN save[d].out}}
Whole(f) == Visible(f)' = Visible(f) \/ Visible(f)' \in {stored[f]} \cup Written(f)

\* Where no rename waits for its flush, what is stored is what is visible.
LEMMA SettledIsVisible == \A f \in Files : Stored(f) /\ dir[f] = durable[f] => Visible(f) = stored[f]
BY DEF Stored, Data, Visible

LEMMA SettledIsVisibleNext ==
  (\A f \in Files : Stored(f) /\ dir[f] = durable[f] => Visible(f) = stored[f])'
BY SettledIsVisible, PTL

LEMMA OutputIsWhole ==
  ASSUME OneSaver, Disk, NEW c \in Clients, ~At(c, "idle"), NEW f \in Files, f = Doing(c),
         Visible(f)' = save[c].out[f]
  PROVE  Whole(f)
<1>1. f \in DOMAIN save[c].out
  BY Active
<1> QED BY <1>1 DEF Whole, Written

LEMMA KeptVisible ==
  ASSUME Disk, Disk', NEW f \in Files, dir[f] = durable[f],
         dir'[f] = durable'[f], stored'[f] = stored[f]
  PROVE  Visible(f)' = Visible(f)
<1>1. Stored(f) /\ Stored(f)'
  BY DEF Disk
<1>2. Visible(f) = stored[f]
  BY <1>1, SettledIsVisible
<1>3. Visible(f)' = stored'[f]
  BY <1>1, SettledIsVisibleNext
<1> QED BY <1>2, <1>3

\* A save only replaces the file it works on, by what it has collected for it.
LEMMA SaveVisible ==
  ASSUME OneSaver, Disk, Disk', NEW c \in Clients, Save(c), NEW f \in Files
  PROVE  /\ \/ Visible(f)' = Visible(f)
            \/ f = Doing(c) /\ Visible(f)' = save[c].out[f]
         /\ SyncDir(c) /\ f = Doing(c) => Visible(f)' = save[c].out[f]
<1>1. ~At(c, "idle")
  BY DEF Save, OpenTmp, WriteTmp, SyncTmp, RenameTmp, SyncDir, WriteFails, At
<1>2. PICK g \in Files : g = Doing(c)
  BY <1>1, Active
<1>3. ~At(c, "syncdir") \/ f # g => dir[f] = durable[f]
  BY <1>1, <1>2, Active DEF Disk, Settled, At
<1>4. DiskTypes
  BY DEF Disk
<1>5. CASE OpenTmp(c) \/ WriteTmp(c) \/ SyncTmp(c) \/ WriteFails(c)
  <2>1. UNCHANGED <<dir, durable, stored>> /\ ~At(c, "syncdir") /\ ~SyncDir(c)
    BY <1>5 DEF OpenTmp, WriteTmp, SyncTmp, WriteFails, SyncDir, At
  <2> QED BY <1>3, <2>1, KeptVisible
<1>6. CASE RenameTmp(c)
  <2>1. /\ dir' = [dir EXCEPT ![g] = tmp[g]] /\ UNCHANGED <<ino, durable, stored>>
        /\ At(c, "rename") /\ tmp[g] # 0 /\ ~SyncDir(c)
    BY <1>2, <1>6 DEF RenameTmp, SyncDir, At
  <2>2. CASE f # g
    <3>1. dir'[f] = durable'[f] /\ stored'[f] = stored[f]
      BY <1>3, <1>4, <2>1, <2>2 DEF DiskTypes
    <3> QED BY <1>3, <2>1, <2>2, <3>1, KeptVisible
  <2>3. CASE f = g
    <3>1. Visible(f)' = ino[f][tmp[f]].data
      BY <1>4, <2>1, <2>3 DEF Visible, DiskTypes
    <3>2. ino[f][tmp[f]].data = save[c].out[f]
      BY <1>2, <2>1, <2>3 DEF Disk, Descriptor, Writing, At
    <3> QED BY <1>2, <2>1, <2>3, <3>1, <3>2
  <2> QED BY <2>2, <2>3
<1>7. CASE SyncDir(c)
  <2>1. /\ durable' = [durable EXCEPT ![g] = dir[g]] /\ UNCHANGED dir
        /\ stored' = [stored EXCEPT ![g] = save[c].out[g]]
    BY <1>2, <1>7 DEF SyncDir
  <2>2. dir'[f] = durable'[f]
    BY <1>3, <1>4, <2>1 DEF DiskTypes
  <2>3. CASE f # g
    <3>1. stored'[f] = stored[f]
      BY <1>4, <2>1, <2>3 DEF DiskTypes
    <3> QED BY <1>2, <1>3, <2>2, <2>3, <3>1, KeptVisible
  <2>4. CASE f = g
    <3>1. Stored(f)' /\ stored'[f] = save[c].out[f]
      BY <1>4, <2>1, <2>4 DEF Disk, DiskTypes
    <3>2. Visible(f)' = save[c].out[f]
      BY <2>2, <3>1, SettledIsVisibleNext
    <3> QED BY <1>2, <2>4, <3>2
  <2> QED BY <2>3, <2>4
<1> QED BY <1>5, <1>6, <1>7 DEF Save

LEMMA SaveIsWhole ==
  ASSUME OneSaver, Disk, Disk', NEW c \in Clients, Save(c), NEW f \in Files
  PROVE  Whole(f)
<1>1. ~At(c, "idle")
  BY DEF Save, OpenTmp, WriteTmp, SyncTmp, RenameTmp, SyncDir, WriteFails, At
<1>2. CASE Visible(f)' = Visible(f)
  BY <1>2 DEF Whole
<1>3. CASE f = Doing(c) /\ Visible(f)' = save[c].out[f]
  BY <1>1, <1>3, OutputIsWhole
<1> QED BY <1>2, <1>3, SaveVisible

LEMMA PowerLossIsWhole ==
  ASSUME Disk, PowerLoss, NEW f \in Files
  PROVE  Whole(f)
<1>1. /\ dir'[f] \in {dir[f], durable[f]}
      /\ dir'[f] # 0 => ino'[f][dir'[f]].data = ino[f][dir'[f]].data
  BY PowerLossFiles
<1>2. stored[f] = Data(f, durable[f])
  BY DEF Disk, Stored
<1>3. CASE dir'[f] = dir[f]
  BY <1>1, <1>3 DEF Whole, Visible
<1>4. CASE dir'[f] = durable[f]
  <2>1. Visible(f)' = stored[f]
    BY <1>1, <1>2, <1>4 DEF Data, Visible
  <2> QED BY <2>1 DEF Whole
<1> QED BY <1>1, <1>3, <1>4

LEMMA NextIsWhole ==
  ASSUME OneSaver, Disk, Disk', [Next]_vars, NEW f \in Files
  PROVE  Whole(f)
<1>1. ASSUME UNCHANGED disk PROVE Whole(f)
  BY <1>1 DEF disk, Whole, Visible
<1>2. CASE UNCHANGED vars
  BY <1>1, <1>2 DEF vars
<1>3. CASE Start \/ Worker
  BY <1>1, <1>3 DEF Start, Worker, OnChange, RollBack, RollBackAlone, AuditDone
<1>4. CASE PowerLoss
  BY <1>4, PowerLossIsWhole
<1>5. ASSUME NEW c \in Clients, CommitTyped(c) \/ CommitText(c) PROVE Whole(f)
  <2>1. UNCHANGED disk
    BY <1>5 DEF CommitTyped, CommitText, Apply
  <2> QED BY <1>1, <2>1
<1>6. ASSUME NEW c \in Clients, Refuse(c) \/ Accept(c) PROVE Whole(f)
  <2>1. UNCHANGED disk
    BY <1>6 DEF Refuse, Accept
  <2> QED BY <1>1, <2>1
<1>7. ASSUME NEW c \in Clients, SaveAll(c) \/ \E g \in Files : SaveAs(c, g) PROVE Whole(f)
  <2>1. UNCHANGED disk
    BY <1>7 DEF SaveAll, SaveAs
  <2> QED BY <1>1, <2>1
<1>8. ASSUME NEW c \in Clients, Save(c) PROVE Whole(f)
  BY <1>8, SaveIsWhole
<1> QED BY <1>2, <1>3, <1>4, <1>5, <1>6, <1>7, <1>8 DEF Next

\* AtomicWrite of the runs: whatever call of atomic_write_file fails, and
\* whenever the power does, a path names the old or the new file, whole.
THEOREM WritesAreAtomic ==
  ASSUME OneSaver
  PROVE  Spec => AtomicWrite
<1>1. Disk /\ Disk' /\ [Next]_vars
        => [\A f \in Files : Visible(f)' = Visible(f)
              \/ Visible(f)' \in {stored[f]} \cup {save[c].out[f] : c \in {d \in Clients :
                                      ~At(d, "idle") /\ f \in DOMAIN save[d].out}}]_vars
  BY NextIsWhole DEF Whole, Written
<1>2. Spec => [](Disk /\ Values)
  BY Inductive
<1> QED BY <1>1, <1>2, PTL DEF Spec, AtomicWrite

-----------------------------------------------------------------------------
(* The audit log.                                                           *)

\* The changes that on_change is still to be told, or was told last.
Pending == {i \in 0 .. Len(queue) : i = 0 => task # None}
Entry(i) == IF i = 0 THEN task ELSE queue[i]
Of(k) == {i \in Pending : Entry(i).key = k}

\* The value of an item but for the commit that is under way.
Current(k) == IF writer # None /\ change.key = k THEN change.old ELSE storage[k]

LastEntry(k, a) == audit[a].key = k /\ \A b \in 1 .. Len(audit) : b > a => audit[b].key # k

\* The changes of an item start from one another.
Linked(k) ==
    /\ \A i, j \in Of(k) :
          i < j /\ (\A m \in Of(k) : m <= i \/ m >= j) => Entry(i).new = Entry(j).old
    /\ \A i \in Of(k) : (\A m \in Of(k) : m <= i) => Entry(i).new = Current(k)

\* The last one that is recorded leads to the first one that is pending.
Followed(k) ==
    \A a \in 1 .. Len(audit) : LastEntry(k, a) =>
        /\ \A i \in Of(k) : (\A m \in Of(k) : i <= m) => audit[a].new = Entry(i).old
        /\ Of(k) = {} => audit[a].new = Current(k)

Entries == [key : Registered, old : ValidValues, new : ValidValues]

Down == ~up => audit = <<>> /\ queue = <<>> /\ task = None /\ writer = None
AuditInv ==
    /\ Down
    /\ audit \in Seq(Entries)
    /\ \A i \in Pending : Item[Entry(i).key].on_change
    /\ \A k \in Registered : /\ k \in late \/ Linked(k)
                             /\ k \in late \cup lost \/ Followed(k)

\* With a new entry, the last one of its item is that one; the last ones of the
\* others stay, but for the one that is forgotten.
LEMMA RecordedLast ==
  ASSUME audit \in Seq(Entries), NEW entry \in Entries, audit' = Recorded(entry)
  PROVE  /\ audit' \in Seq(Entries)
         /\ \A k, a : a \in 1 .. Len(audit') /\ LastEntry(k, a)' =>
               \/ entry.key = k /\ audit'[a] = entry
               \/ /\ entry.key # k
                  /\ \E b \in 1 .. Len(audit) : LastEntry(k, b) /\ audit'[a] = audit[b]
<1>1. PICK base \in Seq(Entries), cut \in {0, 1} :
         /\ audit' = Append(base, entry)
         /\ Len(base) = Len(audit) - cut
         /\ \A i \in 1 .. Len(base) : base[i] = audit[i + cut]
  <2>1. CASE Len(audit) = MaxAudit
    <3>1. audit # <<>>
      BY <2>1, AuditAssumption
    <3>2. /\ Tail(audit) \in Seq(Entries) /\ Len(Tail(audit)) = Len(audit) - 1
          /\ \A i \in 1 .. Len(Tail(audit)) : Tail(audit)[i] = audit[i + 1]
      BY <3>1, HeadTailProperties
    <3>3. audit' = Append(Tail(audit), entry)
      BY <2>1 DEF Recorded
    <3>4. PICK base : base = Tail(audit)
      OBVIOUS
    <3> QED BY <3>2, <3>3, <3>4
  <2>2. CASE Len(audit) # MaxAudit
    <3>1. audit' = Append(audit, entry)
      BY <2>2 DEF Recorded
    <3>2. Len(audit) = Len(audit) - 0 /\ \A i \in 1 .. Len(audit) : audit[i] = audit[i + 0]
      BY LenProperties
    <3> QED BY <3>1, <3>2
  <2> QED BY <2>1, <2>2
<1>2. PICK n \in Nat : n = Len(base)
  BY LenProperties
<1>3. /\ audit' \in Seq(Entries) /\ Len(audit') = n + 1
      /\ \A i \in 1 .. n : audit'[i] = base[i]
      /\ audit'[n + 1] = entry
  BY <1>1, <1>2, AppendProperties
<1>4. Len(audit) = n + cut
  <2>1. Len(audit) \in Nat
    BY LenProperties
  <2> QED BY <1>1, <1>2, <2>1
<1>5. ASSUME NEW k, NEW a \in 1 .. Len(audit'), LastEntry(k, a)'
      PROVE  \/ entry.key = k /\ audit'[a] = entry
             \/ /\ entry.key # k
                /\ \E b \in 1 .. Len(audit) : LastEntry(k, b) /\ audit'[a] = audit[b]
  <2>1. audit'[a].key = k /\ \A b \in 1 .. n + 1 : b > a => audit'[b].key # k
    BY <1>3, <1>5 DEF LastEntry
  <2>2. CASE a = n + 1
    BY <1>3, <2>1, <2>2
  <2>3. CASE a # n + 1
    <3>1. a \in 1 .. n
      BY <1>2, <1>3, <2>3
    <3>2. n + 1 \in 1 .. n + 1 /\ n + 1 > a
      BY <1>2, <3>1
    <3>3. entry.key # k
      BY <1>3, <2>1, <3>2
    <3>4. PICK b \in 1 .. Len(audit) : b = a + cut
      BY <1>2, <1>4, <3>1
    <3>5. audit'[a] = audit[b]
      BY <1>1, <1>2, <1>3, <3>1, <3>4
    <3>6. ASSUME NEW d \in 1 .. Len(audit), d > b PROVE audit[d].key # k
      <4>1. PICK e \in 1 .. n : d = e + cut /\ e > a
        <5>1. d - cut \in 1 .. n /\ d = (d - cut) + cut /\ d - cut > a
          BY <1>2, <1>4, <3>1, <3>4, <3>6
        <5> QED BY <5>1
      <4>2. audit'[e] = audit[d]
        BY <1>1, <1>2, <1>3, <4>1
      <4>3. e \in 1 .. n + 1
        BY <1>2
      <4> QED BY <2>1, <4>1, <4>2, <4>3
    <3>7. LastEntry(k, b)
      BY <2>1, <3>5, <3>6 DEF LastEntry
    <3> QED BY <3>3, <3>5, <3>7
  <2> QED BY <2>2, <2>3
<1> QED BY <1>3, <1>5

\* Steps that neither record nor handle a change, nor let go of one.
LEMMA LinkedKept ==
  ASSUME NEW k, Linked(k), Of(k)' = Of(k), Current(k)' = Current(k),
         \A i \in Of(k) : Entry(i)'.old = Entry(i).old /\ Entry(i)'.new = Entry(i).new
  PROVE  Linked(k)'
BY DEF Linked

LEMMA FollowedKept ==
  ASSUME NEW k, Followed(k), UNCHANGED audit, Of(k)' = Of(k), Current(k)' = Current(k),
         \A i \in Of(k) : Entry(i)'.old = Entry(i).old
  PROVE  Followed(k)'
BY DEF Followed, LastEntry

LEMMA KeptAudit ==
  ASSUME AuditInv, UNCHANGED <<queue, task, audit, late, lost>>, Down',
         \A k \in Registered : Current(k)' = Current(k)
  PROVE  AuditInv'
<1>1. Pending' = Pending /\ \A i \in Pending : Entry(i)' = Entry(i)
  BY DEF Pending, Entry
<1>2. ASSUME NEW k \in Registered PROVE Of(k)' = Of(k) /\ \A i \in Of(k) : Entry(i)' = Entry(i)
  BY <1>1 DEF Of
<1>3. ASSUME NEW k \in Registered
      PROVE  /\ k \in late' \/ Linked(k)'
             /\ k \in late' \cup lost' \/ Followed(k)'
  <2>1. Linked(k) => Linked(k)'
    BY <1>2, LinkedKept
  <2>2. Followed(k) => Followed(k)'
    BY <1>2, FollowedKept
  <2> QED BY <2>1, <2>2 DEF AuditInv
<1> QED BY <1>1, <1>3 DEF AuditInv

LEMMA ApplyAudit ==
  ASSUME Values, AuditInv, NEW c \in Clients, NEW key, NEW node, Apply(c, key, node)
  PROVE  AuditInv'
<1>1. /\ up /\ up' = up /\ writer = None /\ writer' = c /\ key \in Registered
      /\ change' = [key |-> key, old |-> storage[key]]
      /\ storage' = [storage EXCEPT ![key] = node.v]
      /\ UNCHANGED <<queue, task, audit, late, lost>>
  BY DEF Apply, Idle, history
<1>2. writer' # None /\ change'.key = key /\ change'.old = storage[key]
  BY <1>1, NoneAssumption
<1>3. DOMAIN storage = Registered
  BY DEF Values, ValuesInv
<1>4. \A k \in Registered : Current(k)' = Current(k)
  BY <1>1, <1>2, <1>3 DEF Current
<1>5. Down'
  BY <1>1 DEF Down
<1> QED BY <1>1, <1>4, <1>5, KeptAudit

LEMMA RefuseAudit ==
  ASSUME Values, AuditInv, NEW c \in Clients, Refuse(c)
  PROVE  AuditInv'
<1>1. /\ up' = up /\ writer = c /\ writer' = None
      /\ storage' = [storage EXCEPT ![change.key] = change.old]
      /\ UNCHANGED <<queue, task, audit, late, lost>>
  BY DEF Refuse, Release, history
<1>2. writer # None
  BY <1>1, NoneAssumption
<1>3. DOMAIN storage = Registered
  BY DEF Values, ValuesInv
<1>4. \A k \in Registered : Current(k)' = Current(k)
  BY <1>1, <1>2, <1>3 DEF Current
<1>5. Down'
  BY <1>1, <1>2 DEF AuditInv, Down
<1> QED BY <1>1, <1>4, <1>5, KeptAudit

\* The worker takes a task: the changes that are pending keep their order.
LEMMA OnChangeAudit ==
  ASSUME Values, AuditInv, OnChange
  PROVE  AuditInv'
<1>1. PICK n \in Nat : n = Len(queue)
  BY LenProperties DEF Values, MemTypes
<1>2. /\ queue \in Seq(Changes) /\ queue # <<>> /\ task = None /\ queue' = Tail(queue) /\ up
      /\ UNCHANGED <<up, storage, audit, writer, change, late, lost>>
  BY DEF Values, MemTypes, OnChange, history
<1>3. PICK head \in Changes : head = Head(queue)
  BY <1>2, HeadTailProperties
<1>4. PICK ok \in BOOLEAN : task' = [key |-> head.key, old |-> head.old, new |-> head.new, ok |-> ok]
  BY <1>3 DEF OnChange
<1>5. task' # None
  BY <1>4, NoneAssumption DEF Changes, Tasks
<1>6. head = queue[1] /\ n # 0
  BY <1>1, <1>2, <1>3, EmptySeq
<1>7. Len(queue') = n - 1 /\ \A i \in 1 .. n - 1 : queue'[i] = queue[i + 1]
  BY <1>1, <1>2, HeadTailProperties
<1>8. Pending = 1 .. n
  BY <1>1, <1>2 DEF Pending
<1>9. Pending' = 0 .. n - 1
  BY <1>5, <1>7 DEF Pending
<1>10. ASSUME NEW i \in 0 .. n - 1
       PROVE  /\ Entry(i)'.key = Entry(i + 1).key
              /\ Entry(i)'.old = Entry(i + 1).old /\ Entry(i)'.new = Entry(i + 1).new
  <2>1. i + 1 # 0 /\ Entry(i + 1) = queue[i + 1]
    BY DEF Entry
  <2>2. CASE i = 0
    BY <1>4, <1>6, <2>1, <2>2 DEF Entry
  <2>3. CASE i # 0
    BY <1>7, <2>1, <2>3 DEF Entry
  <2> QED BY <2>2, <2>3
<1>11. ASSUME NEW k
       PROVE  /\ \A i \in Of(k)' : i + 1 \in Of(k) /\ i \in 0 .. n - 1
              /\ \A m \in Of(k) : \E i \in Of(k)' : m = i + 1
  <2>1. \A i \in Of(k)' : i \in 0 .. n - 1 /\ Entry(i)'.key = k
    BY <1>9 DEF Of
  <2>2. \A m \in Of(k) : m \in 1 .. n /\ Entry(m).key = k
    BY <1>8 DEF Of
  <2>3. ASSUME NEW i \in Of(k)' PROVE i + 1 \in Of(k)
    <3>1. i + 1 \in Pending
      BY <1>8, <2>1
    <3>2. Entry(i + 1).key = k
      BY <1>10, <2>1
    <3> QED BY <3>1, <3>2 DEF Of
  <2>4. ASSUME NEW m \in Of(k) PROVE \E i \in Of(k)' : m = i + 1
    <3>1. PICK i \in 0 .. n - 1 : m = i + 1
      <4>1. m - 1 \in 0 .. n - 1 /\ m = (m - 1) + 1
        BY <2>2
      <4> QED BY <4>1
    <3>2. Entry(i)'.key = k
      BY <1>10, <2>2, <3>1
    <3>3. i \in Of(k)'
      BY <1>9, <3>2 DEF Of
    <3> QED BY <3>1, <3>3
  <2> QED BY <2>1, <2>3, <2>4
<1>12. \A k \in Registered : Current(k)' = Current(k)
  BY <1>2 DEF Current
<1>13. ASSUME NEW k \in Registered, Linked(k) PROVE Linked(k)'
  <2>1. ASSUME NEW i \in Of(k)', NEW j \in Of(k)', i < j, \A m \in Of(k)' : m <= i \/ m >= j
        PROVE  Entry(i)'.new = Entry(j)'.old
    <3>1. i + 1 \in Of(k) /\ j + 1 \in Of(k) /\ i \in 0 .. n - 1 /\ j \in 0 .. n - 1
      BY <1>11
    <3>2. \A m \in Of(k) : m <= i + 1 \/ m >= j + 1
      BY <1>11, <2>1, <3>1
    <3>3. i + 1 < j + 1
      BY <2>1, <3>1
    <3>4. Entry(i + 1).new = Entry(j + 1).old
      BY <1>13, <3>1, <3>2, <3>3 DEF Linked
    <3> QED BY <1>10, <3>1, <3>4
  <2>2. ASSUME NEW i \in Of(k)', \A m \in Of(k)' : m <= i
        PROVE  Entry(i)'.new = Current(k)'
    <3>1. i + 1 \in Of(k) /\ i \in 0 .. n - 1
      BY <1>11
    <3>2. \A m \in Of(k) : m <= i + 1
      BY <1>11, <2>2, <3>1
    <3>3. Entry(i + 1).new = Current(k)
      BY <1>13, <3>1, <3>2 DEF Linked
    <3> QED BY <1>10, <1>12, <3>1, <3>3
  <2> QED BY <2>1, <2>2 DEF Linked
<1>14. ASSUME NEW k \in Registered, Followed(k) PROVE Followed(k)'
  <2> SUFFICES ASSUME NEW a \in 1 .. Len(audit), LastEntry(k, a)
               PROVE  /\ \A i \in Of(k)' : (\A m \in Of(k)' : i <= m) => audit[a].new = Entry(i)'.old
                      /\ Of(k)' = {} => audit[a].new = Current(k)'
    BY <1>2 DEF Followed, LastEntry
  <2>1. ASSUME NEW i \in Of(k)', \A m \in Of(k)' : i <= m PROVE audit[a].new = Entry(i)'.old
    <3>1. i + 1 \in Of(k) /\ i \in 0 .. n - 1
      BY <1>11
    <3>2. \A m \in Of(k) : i + 1 <= m
      BY <1>11, <2>1, <3>1
    <3>3. audit[a].new = Entry(i + 1).old
      BY <1>14, <3>1, <3>2 DEF Followed
    <3> QED BY <1>10, <3>1, <3>3
  <2>2. ASSUME Of(k)' = {} PROVE audit[a].new = Current(k)'
    <3>1. Of(k) = {}
      BY <1>11, <2>2
    <3> QED BY <1>12, <1>14, <3>1 DEF Followed
  <2> QED BY <2>1, <2>2
<1>15. Down' /\ audit' \in Seq(Entries)
  BY <1>2 DEF AuditInv, Down
<1>16. \A i \in Pending' : Item[Entry(i)'.key].on_change
  <2> SUFFICES ASSUME NEW i \in 0 .. n - 1 PROVE Item[Entry(i)'.key].on_change
    BY <1>9
  <2>1. i + 1 \in Pending
    BY <1>8
  <2> QED BY <1>10, <2>1 DEF AuditInv
<1> QED BY <1>2, <1>13, <1>14, <1>15, <1>16 DEF AuditInv

\* What is left when the worker is done with its task.
LEMMA HandledOf ==
  ASSUME queue \in Seq(Changes), task # None, task' = None, UNCHANGED queue, NEW k
  PROVE  /\ Of(k)' = Of(k) \ {0}
         /\ \A i \in Of(k) \ {0} : Entry(i)' = Entry(i)
         /\ 0 \in Of(k) <=> task.key = k
         /\ \A i \in Of(k) : i \in 0 .. Len(queue)
<1>1. Pending' = Pending \ {0}
  BY DEF Pending
<1>2. \A i \in Pending \ {0} : Entry(i)' = Entry(i)
  BY DEF Entry
<1>3. 0 \in Of(k) <=> task.key = k
  <2>1. 0 \in 0 .. Len(queue) => (0 \in Of(k) <=> task.key = k)
    BY DEF Of, Pending, Entry
  <2>2. 0 \in Of(k) => 0 \in 0 .. Len(queue)
    BY DEF Of, Pending
  <2>3. 0 \in 0 .. Len(queue)
    BY LenProperties
  <2> QED BY <2>1, <2>2, <2>3
<1>4. \A i \in Of(k) : i \in 0 .. Len(queue)
  BY DEF Of, Pending
<1>5. Of(k)' = Of(k) \ {0} /\ \A i \in Of(k) \ {0} : Entry(i)' = Entry(i)
  BY <1>1, <1>2 DEF Of
<1> QED BY <1>3, <1>4, <1>5

LEMMA HandledLinked ==
  ASSUME queue \in Seq(Changes), task # None, task' = None, UNCHANGED queue, NEW k, Linked(k), Current(k)' = Current(k)
  PROVE  Linked(k)'
<1>1. /\ Of(k)' = Of(k) \ {0} /\ \A i \in Of(k) \ {0} : Entry(i)' = Entry(i)
      /\ \A i \in Of(k) : i >= 0
  BY HandledOf
<1>2. ASSUME NEW i \in Of(k)', NEW j \in Of(k)', i < j, \A m \in Of(k)' : m <= i \/ m >= j
      PROVE  Entry(i)'.new = Entry(j)'.old
  <2>1. \A m \in Of(k) : m <= i \/ m >= j
    BY <1>1, <1>2
  <2>2. Entry(i).new = Entry(j).old
    BY <1>1, <1>2, <2>1 DEF Linked
  <2> QED BY <1>1, <2>2
<1>3. ASSUME NEW i \in Of(k)', \A m \in Of(k)' : m <= i PROVE Entry(i)'.new = Current(k)'
  <2>1. \A m \in Of(k) : m <= i
    BY <1>1, <1>3
  <2>2. Entry(i).new = Current(k)
    BY <1>1, <2>1 DEF Linked
  <2> QED BY <1>1, <2>2
<1> QED BY <1>2, <1>3 DEF Linked

LEMMA HandledOther ==
  ASSUME queue \in Seq(Changes), task # None, task' = None, UNCHANGED queue, NEW k, task.key # k
  PROVE  Of(k)' = Of(k) /\ \A i \in Of(k) : Entry(i)' = Entry(i)
BY HandledOf

LEMMA HandledRest ==
  ASSUME AuditInv, task # None, task' = None, UNCHANGED queue
  PROVE  \A i \in Pending' : Item[Entry(i)'.key].on_change
<1>1. Pending' = Pending \ {0}
  BY DEF Pending
<1>2. \A i \in Pending \ {0} : Entry(i)' = Entry(i)
  BY DEF Entry
<1> QED BY <1>1, <1>2 DEF AuditInv

\* A refusal after which nothing was committed undoes what was done last.
LEMMA RollBackAudit ==
  ASSUME Values, AuditInv, RollBack
  PROVE  AuditInv'
<1>1. /\ task # None /\ task' = None /\ writer = None
      /\ storage' = [storage EXCEPT ![task.key] = task.old]
      /\ UNCHANGED <<up, queue, audit, writer, change, lost>>
  BY DEF RollBack, RollBackAlone
<1>2. late' = IF task.key \in {queue[i].key : i \in DOMAIN queue} \cup (Persistent \ dirty)
              THEN late \cup {task.key} ELSE late
  BY DEF RollBack, RollBackAlone
<1>3. DOMAIN storage = Registered /\ task.key \in Registered /\ queue \in Seq(Changes)
  BY <1>1 DEF Values, ValuesInv, MemTypes, Tasks
<1>4. ASSUME NEW k \in Registered, k # task.key
      PROVE  /\ k \in late' \/ Linked(k)'
             /\ k \in late' \cup lost' \/ Followed(k)'
  <2>1. Of(k)' = Of(k) /\ \A i \in Of(k) : Entry(i)' = Entry(i)
    BY <1>1, <1>3, <1>4, HandledOther
  <2>2. Current(k)' = Current(k)
    BY <1>1, <1>3, <1>4 DEF Current
  <2>3. k \in late => k \in late'
    BY <1>2
  <2>4. Linked(k) => Linked(k)'
    BY <2>1, <2>2, LinkedKept
  <2>5. Followed(k) => Followed(k)'
    BY <1>1, <2>1, <2>2, FollowedKept
  <2> QED BY <1>1, <2>3, <2>4, <2>5 DEF AuditInv
<1>5. ASSUME NEW k \in Registered, k = task.key, k \notin late'
      PROVE  Linked(k)' /\ (k \in lost' \/ Followed(k)')
  <2>1. k \notin late /\ k \notin {queue[i].key : i \in DOMAIN queue}
    BY <1>2, <1>5
  <2>2. 0 \in Of(k) /\ Of(k)' = Of(k) \ {0}
    BY <1>1, <1>3, <1>5, HandledOf
  <2>3. Of(k) \subseteq {0}
    <3> SUFFICES ASSUME NEW i \in Of(k), i # 0 PROVE FALSE
      OBVIOUS
    <3>1. i \in 1 .. Len(queue) /\ queue[i].key = k
      BY DEF Of, Pending, Entry
    <3>2. DOMAIN queue = 1 .. Len(queue)
      BY <1>3, LenProperties
    <3> QED BY <2>1, <3>1, <3>2
  <2>4. Of(k)' = {}
    BY <2>2, <2>3
  <2>5. Current(k)' = task.old
    BY <1>1, <1>3, <1>5 DEF Current
  <2>6. Linked(k)'
    BY <2>4 DEF Linked
  <2>7. ASSUME Followed(k), NEW a \in 1 .. Len(audit), LastEntry(k, a)
        PROVE  audit[a].new = task.old
    <3>1. 0 \in Of(k) /\ \A m \in Of(k) : 0 <= m
      BY <2>2, <2>3
    <3>2. audit[a].new = Entry(0).old
      BY <2>7, <3>1 DEF Followed
    <3> QED BY <3>2 DEF Entry
  <2>8. Followed(k) => Followed(k)'
    BY <1>1, <2>4, <2>5, <2>7 DEF Followed, LastEntry
  <2> QED BY <1>1, <2>1, <2>6, <2>8 DEF AuditInv
<1>6. \A k \in Registered : /\ k \in late' \/ Linked(k)'
                            /\ k \in late' \cup lost' \/ Followed(k)'
  BY <1>4, <1>5
<1>7. Down' /\ audit' \in Seq(Entries)
  BY <1>1 DEF AuditInv, Down
<1>8. \A i \in Pending' : Item[Entry(i)'.key].on_change
  BY <1>1, HandledRest
<1> QED BY <1>6, <1>7, <1>8 DEF AuditInv

\* What is recorded follows what was recorded of the item before; what is not
\* recorded is known to be lost.
LEMMA AuditDoneAudit ==
  ASSUME Values, AuditInv, AuditDone
  PROVE  AuditInv'
<1> DEFINE new == [key |-> task.key, old |-> task.old, new |-> task.new]
<1>1. /\ task # None /\ task' = None
      /\ UNCHANGED <<up, storage, queue, writer, change, late>>
      /\ Record(new) \/ Lose(task.key)
  BY DEF AuditDone, Recording
<1>2. task \in Tasks /\ queue \in Seq(Changes)
  BY <1>1 DEF Values, MemTypes
<1>3. PICK entry \in Entries : entry = new
  BY <1>2 DEF Tasks, Entries
<1>4. \A k \in Registered : Current(k)' = Current(k)
  BY <1>1 DEF Current
<1>5. ASSUME NEW k \in Registered, Linked(k) PROVE Linked(k)'
  BY <1>1, <1>2, <1>4, <1>5, HandledLinked
<1>6. CASE Record(new)
  <2>1. audit' = Recorded(entry) /\ lost' = lost \ {entry.key}
    BY <1>3, <1>6 DEF Record
  <2>2. entry.key = task.key /\ entry.new = task.new
    BY <1>3
  <2>3. /\ audit' \in Seq(Entries)
        /\ \A k, a : a \in 1 .. Len(audit') /\ LastEntry(k, a)' =>
              \/ entry.key = k /\ audit'[a] = entry
              \/ /\ entry.key # k
                 /\ \E b \in 1 .. Len(audit) : LastEntry(k, b) /\ audit'[a] = audit[b]
    BY <2>1, RecordedLast DEF AuditInv
  <2>4. ASSUME NEW k \in Registered, k = task.key, Linked(k) PROVE Followed(k)'
    <3>1. /\ 0 \in Of(k) /\ Of(k)' = Of(k) \ {0}
          /\ \A i \in Of(k) \ {0} : Entry(i)' = Entry(i)
          /\ \A i \in Of(k) : i \in 0 .. Len(queue)
      BY <1>1, <1>2, <2>4, HandledOf
    <3>2. Entry(0).new = entry.new
      BY <2>2 DEF Entry
    <3>3. ASSUME NEW i \in Of(k)', \A m \in Of(k)' : i <= m PROVE entry.new = Entry(i)'.old
      <4>1. i \in Of(k) /\ 0 < i /\ Entry(i)' = Entry(i)
        BY <3>1
      <4>2. \A m \in Of(k) : m <= 0 \/ m >= i
        BY <3>1, <3>3
      <4>3. Entry(0).new = Entry(i).old
        BY <2>4, <3>1, <4>1, <4>2 DEF Linked
      <4> QED BY <3>2, <4>1, <4>3
    <3>4. ASSUME Of(k)' = {} PROVE entry.new = Current(k)'
      <4>1. \A m \in Of(k) : m <= 0
        BY <3>1, <3>4
      <4>2. Entry(0).new = Current(k)
        BY <2>4, <3>1, <4>1 DEF Linked
      <4> QED BY <1>4, <3>2, <4>2
    <3>5. \A a \in 1 .. Len(audit') : LastEntry(k, a)' => audit'[a] = entry
      BY <2>2, <2>3, <2>4
    <3> QED BY <3>3, <3>4, <3>5 DEF Followed
  <2>5. ASSUME NEW k \in Registered, k # task.key, Followed(k) PROVE Followed(k)'
    <3>1. Of(k)' = Of(k) /\ \A i \in Of(k) : Entry(i)' = Entry(i)
      BY <1>1, <1>2, <2>5, HandledOther
    <3>2. \A a \in 1 .. Len(audit') : LastEntry(k, a)' =>
             \E b \in 1 .. Len(audit) : LastEntry(k, b) /\ audit'[a] = audit[b]
      BY <2>2, <2>3, <2>5
    <3>3. Current(k)' = Current(k)
      BY <1>4
    <3> QED BY <2>5, <3>1, <3>2, <3>3 DEF Followed
  <2>6. ASSUME NEW k \in Registered
        PROVE  /\ k \in late' \/ Linked(k)'
               /\ k \in late' \cup lost' \/ Followed(k)'
    <3>1. k \in late \/ Linked(k)
      BY DEF AuditInv
    <3>2. CASE k = task.key
      BY <1>1, <1>5, <2>4, <3>1, <3>2
    <3>3. CASE k # task.key
      <4>1. k \in late \cup lost \/ Followed(k)
        BY DEF AuditInv
      <4>2. k \in lost => k \in lost'
        BY <2>1, <2>2, <3>3
      <4> QED BY <1>1, <1>5, <2>5, <3>1, <3>3, <4>1, <4>2
    <3> QED BY <3>2, <3>3
  <2>7. Down'
    BY <1>1, <1>6 DEF AuditInv, Down
  <2>8. \A i \in Pending' : Item[Entry(i)'.key].on_change
    BY <1>1, HandledRest
  <2> QED BY <2>3, <2>6, <2>7, <2>8 DEF AuditInv
<1>7. CASE Lose(task.key)
  <2>1. lost' = lost \cup {task.key} /\ UNCHANGED audit
    BY <1>7 DEF Lose
  <2>2. ASSUME NEW k \in Registered
        PROVE  /\ k \in late' \/ Linked(k)'
               /\ k \in late' \cup lost' \/ Followed(k)'
    <3>1. k \in late \/ Linked(k)
      BY DEF AuditInv
    <3>2. CASE k = task.key
      BY <1>1, <1>5, <2>1, <3>1, <3>2
    <3>3. CASE k # task.key
      <4>1. Of(k)' = Of(k) /\ \A i \in Of(k) : Entry(i)' = Entry(i)
        BY <1>1, <1>2, <3>3, HandledOther
      <4>2. Current(k)' = Current(k)
        BY <1>4
      <4>3. Followed(k) => Followed(k)'
        BY <2>1, <4>1, <4>2, FollowedKept
      <4>4. k \in late \cup lost \/ Followed(k)
        BY DEF AuditInv
      <4> QED BY <1>1, <1>5, <2>1, <3>1, <4>3, <4>4
    <3> QED BY <3>2, <3>3
  <2>3. Down' /\ audit' \in Seq(Entries)
    BY <1>1, <2>1 DEF AuditInv, Down
  <2>4. \A i \in Pending' : Item[Entry(i)'.key].on_change
    BY <1>1, HandledRest
  <2> QED BY <2>2, <2>3, <2>4 DEF AuditInv
<1> QED BY <1>1, <1>6, <1>7

\* A commit of an item with on_change is one more change that is pending.
LEMMA AppendedOf ==
  ASSUME queue \in Seq(Changes), NEW entry, queue' = Append(queue, entry), UNCHANGED task, NEW k
  PROVE  /\ Of(k)' = Of(k) \cup {i \in {Len(queue) + 1} : entry.key = k}
         /\ \A i \in Of(k) : Entry(i)' = Entry(i) /\ i \in 0 .. Len(queue)
         /\ \A i : i = Len(queue) + 1 => Entry(i)' = entry
<1>1. PICK n \in Nat : n = Len(queue)
  BY LenProperties
<1>2. Len(queue') = n + 1 /\ (\A i \in 1 .. n : queue'[i] = queue[i]) /\ queue'[n + 1] = entry
  <2>1. PICK s : s = queue
    OBVIOUS
  <2>2. s \in Seq(Changes \cup {entry})
    BY <2>1
  <2> QED BY <1>1, <2>1, <2>2, AppendProperties
<1>3. Pending' = Pending \cup {n + 1}
  BY <1>1, <1>2 DEF Pending
<1>4. \A i \in Pending : Entry(i)' = Entry(i) /\ i \in 0 .. n
  BY <1>1, <1>2 DEF Pending, Entry
<1>5. Entry(n + 1)' = entry
  BY <1>2 DEF Entry
<1>6. Of(k)' = Of(k) \cup {i \in {n + 1} : entry.key = k}
  BY <1>3, <1>4, <1>5 DEF Of
<1>7. \A i \in Of(k) : Entry(i)' = Entry(i) /\ i \in 0 .. Len(queue)
  BY <1>1, <1>4 DEF Of
<1>8. Of(k)' = Of(k) \cup {i \in {Len(queue) + 1} : entry.key = k}
  BY <1>1, <1>6
<1>9. \A i : i = Len(queue) + 1 => Entry(i)' = entry
  BY <1>1, <1>5
<1> QED BY <1>7, <1>8, <1>9

LEMMA AppendAudit ==
  ASSUME AuditInv, queue \in Seq(Changes), NEW entry \in Entries, queue' = Append(queue, entry),
         UNCHANGED <<up, task, audit, late, lost>>, up, Item[entry.key].on_change,
         entry.old = Current(entry.key), entry.new = Current(entry.key)',
         \A k \in Registered : k # entry.key => Current(k)' = Current(k)
  PROVE  AuditInv'
<1>1. PICK n \in Nat : n = Len(queue)
  BY LenProperties
<1>2. PICK key \in Registered : key = entry.key
  BY DEF Entries
<1>3. /\ Of(key)' = Of(key) \cup {n + 1}
      /\ \A i \in Of(key) : Entry(i)' = Entry(i) /\ i \in 0 .. n
      /\ Entry(n + 1)' = entry
  <2>1. /\ Of(key)' = Of(key) \cup {i \in {n + 1} : entry.key = key}
        /\ \A i \in Of(key) : Entry(i)' = Entry(i) /\ i \in 0 .. n
        /\ Entry(n + 1)' = entry
    BY <1>1, AppendedOf
  <2>2. {i \in {n + 1} : entry.key = key} = {n + 1}
    BY <1>2
  <2> QED BY <2>1, <2>2
<1>4. ASSUME Linked(key) PROVE Linked(key)'
  <2>1. ASSUME NEW i \in Of(key)', NEW j \in Of(key)', i < j, \A m \in Of(key)' : m <= i \/ m >= j
        PROVE  Entry(i)'.new = Entry(j)'.old
    <3>1. i \in Of(key) /\ i \in 0 .. n
      BY <1>3, <2>1
    <3>2. CASE j = n + 1
      <4>1. \A m \in Of(key) : m <= i
        BY <1>3, <2>1, <3>2
      <4>2. Entry(i).new = Current(key)
        BY <1>4, <3>1, <4>1 DEF Linked
      <4> QED BY <1>2, <1>3, <3>1, <3>2, <4>2
    <3>3. CASE j # n + 1
      <4>1. j \in Of(key)
        BY <1>3, <3>3
      <4>2. \A m \in Of(key) : m <= i \/ m >= j
        BY <1>3, <2>1
      <4>3. Entry(i).new = Entry(j).old
        BY <1>4, <2>1, <3>1, <4>1, <4>2 DEF Linked
      <4> QED BY <1>3, <3>1, <4>1, <4>3
    <3> QED BY <3>2, <3>3
  <2>2. ASSUME NEW i \in Of(key)', \A m \in Of(key)' : m <= i
        PROVE  Entry(i)'.new = Current(key)'
    <3>1. i = n + 1
      BY <1>3, <2>2
    <3> QED BY <1>2, <1>3, <3>1
  <2> QED BY <2>1, <2>2 DEF Linked
<1>5. ASSUME Followed(key) PROVE Followed(key)'
  <2> SUFFICES ASSUME NEW a \in 1 .. Len(audit), LastEntry(key, a),
                      NEW i \in Of(key)', \A m \in Of(key)' : i <= m
               PROVE  audit[a].new = Entry(i)'.old
    BY <1>3 DEF Followed, LastEntry
  <2>1. CASE Of(key) = {}
    <3>1. audit[a].new = Current(key)
      BY <1>5, <2>1 DEF Followed
    <3>2. i = n + 1
      BY <1>3, <2>1
    <3> QED BY <1>2, <1>3, <3>1, <3>2
  <2>2. CASE Of(key) # {}
    <3>1. i \in Of(key)
      BY <1>3, <2>2
    <3>2. \A m \in Of(key) : i <= m
      BY <1>3
    <3>3. audit[a].new = Entry(i).old
      BY <1>5, <3>1, <3>2 DEF Followed
    <3> QED BY <1>3, <3>1, <3>3
  <2> QED BY <2>1, <2>2
<1>6. ASSUME NEW k \in Registered
      PROVE  /\ k \in late' \/ Linked(k)'
             /\ k \in late' \cup lost' \/ Followed(k)'
  <2>1. CASE k = key
    BY <1>4, <1>5, <2>1 DEF AuditInv
  <2>2. CASE k # key
    <3>1. Of(k)' = Of(k) /\ \A i \in Of(k) : Entry(i)' = Entry(i)
      <4>1. /\ Of(k)' = Of(k) \cup {i \in {Len(queue) + 1} : entry.key = k}
            /\ \A i \in Of(k) : Entry(i)' = Entry(i)
        BY AppendedOf
      <4>2. {i \in {Len(queue) + 1} : entry.key = k} = {}
        BY <1>2, <2>2
      <4> QED BY <4>1, <4>2
    <3>2. Current(k)' = Current(k)
      BY <1>2, <2>2
    <3>3. Linked(k) => Linked(k)'
      BY <3>1, <3>2, LinkedKept
    <3>4. Followed(k) => Followed(k)'
      BY <3>1, <3>2, FollowedKept
    <3> QED BY <3>3, <3>4 DEF AuditInv
  <2> QED BY <2>1, <2>2
<1>7. \A i \in Pending' : Item[Entry(i)'.key].on_change
  <2> SUFFICES ASSUME NEW i \in Pending' PROVE Item[Entry(i)'.key].on_change
    OBVIOUS
  <2>1. PICK k : k = Entry(i)'.key
    OBVIOUS
  <2>2. i \in Of(k)'
    BY <2>1 DEF Of
  <2>3. CASE i \in Of(k)
    <3>1. Entry(i)' = Entry(i)
      BY <2>3, AppendedOf
    <3>2. i \in Pending
      BY <2>3 DEF Of
    <3> QED BY <3>1, <3>2 DEF AuditInv
  <2>4. CASE i \notin Of(k)
    <3>1. i = n + 1 /\ k = entry.key
      BY <1>1, <2>2, <2>4, AppendedOf
    <3> QED BY <2>1, <3>1
  <2> QED BY <2>3, <2>4
<1>8. Down'
  BY DEF Down
<1> QED BY <1>6, <1>7, <1>8 DEF AuditInv

\* A commit of another item is recorded at once; it has no change that is pending.
LEMMA RecordAudit ==
  ASSUME AuditInv, up, UNCHANGED <<up, queue, task, late>>,
         NEW entry \in Entries, ~Item[entry.key].on_change,
         Record(entry) \/ Lose(entry.key),
         entry.new = Current(entry.key)',
         \A k \in Registered : k # entry.key => Current(k)' = Current(k)
  PROVE  AuditInv'
<1>1. Pending' = Pending /\ \A i \in Pending : Entry(i)' = Entry(i)
  BY DEF Pending, Entry
<1>2. ASSUME NEW k PROVE Of(k)' = Of(k) /\ \A i \in Of(k) : Entry(i)' = Entry(i)
  BY <1>1 DEF Of
<1>3. Of(entry.key) = {}
  BY DEF AuditInv, Of
<1>4. Linked(entry.key)'
  BY <1>2, <1>3 DEF Linked
<1>5. ASSUME NEW k \in Registered, k # entry.key, Linked(k) PROVE Linked(k)'
  BY <1>2, <1>5, LinkedKept
<1>6. audit' \in Seq(Entries) /\ \A k \in Registered : k \in late' \cup lost' \/ Followed(k)'
  <2>1. CASE Record(entry)
    <3>1. audit' = Recorded(entry) /\ lost' = lost \ {entry.key}
      BY <2>1 DEF Record
    <3>2. /\ audit' \in Seq(Entries)
          /\ \A k, a : a \in 1 .. Len(audit') /\ LastEntry(k, a)' =>
                \/ entry.key = k /\ audit'[a] = entry
                \/ /\ entry.key # k
                   /\ \E b \in 1 .. Len(audit) : LastEntry(k, b) /\ audit'[a] = audit[b]
      BY <3>1, RecordedLast DEF AuditInv
    <3>3. Followed(entry.key)'
      <4>1. \A a \in 1 .. Len(audit') : LastEntry(entry.key, a)' => audit'[a] = entry
        BY <3>2
      <4> QED BY <1>2, <1>3, <4>1 DEF Followed
    <3>4. ASSUME NEW k \in Registered, k # entry.key, Followed(k) PROVE Followed(k)'
      <4>1. \A a \in 1 .. Len(audit') : LastEntry(k, a)' =>
               \E b \in 1 .. Len(audit) : LastEntry(k, b) /\ audit'[a] = audit[b]
        BY <3>2, <3>4
      <4>2. Of(k)' = Of(k) /\ \A i \in Of(k) : Entry(i)' = Entry(i)
        BY <1>2
      <4> QED BY <3>4, <4>1, <4>2 DEF Followed
    <3>5. \A k \in Registered : k # entry.key /\ k \in lost => k \in lost'
      BY <3>1
    <3>6. \A k \in Registered : k \in late \cup lost \/ Followed(k)
      BY DEF AuditInv
    <3> QED BY <3>2, <3>3, <3>4, <3>5, <3>6
  <2>2. CASE Lose(entry.key)
    <3>1. lost' = lost \cup {entry.key} /\ UNCHANGED audit
      BY <2>2 DEF Lose
    <3>2. ASSUME NEW k \in Registered, k # entry.key, Followed(k) PROVE Followed(k)'
      BY <1>2, <3>1, <3>2, FollowedKept
    <3>3. \A k \in Registered : k \in late \cup lost \/ Followed(k)
      BY DEF AuditInv
    <3>4. audit' \in Seq(Entries)
      BY <3>1 DEF AuditInv
    <3> QED BY <3>1, <3>2, <3>3, <3>4
  <2> QED BY <2>1, <2>2
<1>7. \A k \in Registered : k \in late' \/ Linked(k)'
  <2>1. \A k \in Registered : k \in late \/ Linked(k)
    BY DEF AuditInv
  <2> QED BY <1>4, <1>5, <2>1
<1>8. \A i \in Pending' : Item[Entry(i)'.key].on_change
  BY <1>1 DEF AuditInv
<1>9. Down'
  BY DEF Down
<1> QED BY <1>6, <1>7, <1>8, <1>9 DEF AuditInv

LEMMA AcceptAudit ==
  ASSUME Values, AuditInv, NEW c \in Clients, Accept(c)
  PROVE  AuditInv'
<1>1. /\ writer = c /\ writer' = None /\ writer # None
      /\ storage[change.key] \in Item[change.key].valid
      /\ UNCHANGED <<up, storage, task, late>>
  BY NoneAssumption DEF Accept, Release
<1>2. PICK key \in Registered : key = change.key /\ change.old \in Item[key].valid
  BY <1>1 DEF Values, ValuesInv
<1>3. PICK entry \in Entries : entry = [key |-> key, old |-> change.old, new |-> storage[key]]
  <2>1. change.old \in ValidValues /\ storage[key] \in ValidValues
    BY <1>1, <1>2 DEF ValidValues
  <2> QED BY <2>1 DEF Entries
<1>4. \/ Item[key].on_change /\ queue' = Append(queue, entry) /\ UNCHANGED <<audit, lost>>
      \/ ~Item[key].on_change /\ (Record(entry) \/ Lose(key)) /\ UNCHANGED queue
  BY <1>2, <1>3 DEF Accept
<1>5. entry.key = key /\ entry.old = Current(key) /\ entry.new = Current(key)'
  BY <1>1, <1>2, <1>3 DEF Current
<1>6. \A k \in Registered : k # key => Current(k)' = Current(k)
  BY <1>1, <1>2 DEF Current
<1>7. up
  BY <1>1 DEF AuditInv, Down
<1>8. queue \in Seq(Changes)
  BY DEF Values, MemTypes
<1>9. CASE Item[key].on_change /\ queue' = Append(queue, entry) /\ UNCHANGED <<audit, lost>>
  BY <1>1, <1>5, <1>6, <1>7, <1>8, <1>9, AppendAudit
<1>10. CASE ~Item[key].on_change /\ (Record(entry) \/ Lose(key)) /\ UNCHANGED queue
  BY <1>1, <1>5, <1>6, <1>7, <1>10, RecordAudit
<1> QED BY <1>4, <1>9, <1>10

\* While the process does not run there is no change and no entry.
LEMMA NothingAudit ==
  ASSUME audit = <<>>, queue = <<>>, task = None, writer = None
  PROVE  AuditInv
<1>1. Pending = {}
  BY DEF Pending
<1>2. \A k : Of(k) = {}
  BY <1>1 DEF Of
<1>3. \A k : Linked(k) /\ Followed(k)
  BY <1>2 DEF Linked, Followed
<1> QED BY <1>1, <1>3, EmptySeq DEF AuditInv, Down

LEMMA NothingAuditNext ==
  (audit = <<>> /\ queue = <<>> /\ task = None /\ writer = None => AuditInv)'
<1>1. audit = <<>> /\ queue = <<>> /\ task = None /\ writer = None => AuditInv
  BY NothingAudit
<1> QED BY <1>1, PTL

LEMMA NextAudit == Values /\ AuditInv /\ [Next]_vars => AuditInv'
<1> SUFFICES ASSUME Values, AuditInv, [Next]_vars PROVE AuditInv'
  OBVIOUS
<1>1. ASSUME UNCHANGED <<up, storage, audit, queue, task, writer, change, late, lost>> PROVE AuditInv'
  <2>1. \A k \in Registered : Current(k)' = Current(k)
    BY <1>1 DEF Current
  <2>2. Down'
    BY <1>1 DEF AuditInv, Down
  <2> QED BY <1>1, <2>1, <2>2, KeptAudit
<1>2. CASE UNCHANGED vars
  BY <1>1, <1>2 DEF vars, mem, history
<1>3. CASE Start
  <2>1. ~up /\ UNCHANGED <<audit, queue, task, writer>>
    BY <1>3 DEF Start
  <2>2. audit' = <<>> /\ queue' = <<>> /\ task' = None /\ writer' = None
    BY <2>1 DEF AuditInv, Down
  <2> QED BY <2>2, NothingAuditNext
<1>4. CASE PowerLoss
  BY <1>4, NothingAuditNext DEF PowerLoss
<1>5. CASE OnChange
  BY <1>5, OnChangeAudit
<1>6. CASE RollBack
  BY <1>6, RollBackAudit
<1>7. CASE AuditDone
  BY <1>7, AuditDoneAudit
<1>8. ASSUME NEW c \in Clients, CommitTyped(c) \/ CommitText(c) PROVE AuditInv'
  BY <1>8, ApplyAudit DEF CommitTyped, CommitText
<1>9. ASSUME NEW c \in Clients, Refuse(c) PROVE AuditInv'
  BY <1>9, RefuseAudit
<1>10. ASSUME NEW c \in Clients, Accept(c) PROVE AuditInv'
  BY <1>10, AcceptAudit
<1>11. ASSUME NEW c \in Clients, SaveAll(c) PROVE AuditInv'
  BY <1>1, <1>11 DEF SaveAll, history
<1>12. ASSUME NEW c \in Clients, NEW f \in Files, SaveAs(c, f) PROVE AuditInv'
  BY <1>1, <1>12 DEF SaveAs, mem, history
<1>13. ASSUME NEW c \in Clients, Save(c) PROVE AuditInv'
  <2>1. UNCHANGED <<up, storage, audit, queue, task, writer, change, late, lost>>
    <3>1. CASE OpenTmp(c)
      BY <3>1 DEF OpenTmp, mem, history
    <3>2. CASE WriteTmp(c)
      BY <3>2 DEF WriteTmp, mem, history
    <3>3. CASE SyncTmp(c)
      BY <3>3 DEF SyncTmp, mem, history
    <3>4. CASE RenameTmp(c)
      BY <3>4 DEF RenameTmp, mem, history
    <3>5. CASE SyncDir(c)
      BY <3>5 DEF SyncDir, history
    <3>6. CASE WriteFails(c)
      BY <3>6 DEF WriteFails, mem, history
    <3> QED BY <1>13, <3>1, <3>2, <3>3, <3>4, <3>5, <3>6 DEF Save
  <2> QED BY <1>1, <2>1
<1> QED BY <1>2, <1>3, <1>4, <1>5, <1>6, <1>7, <1>8, <1>9, <1>10, <1>11, <1>12, <1>13
      DEF Next, Worker

\* The last entry of an item says its value, if no change of it is under way.
LEMMA AuditSays == AuditInv => AuditIsEffective
<1> SUFFICES ASSUME AuditInv, NEW i \in 1 .. Len(audit),
                    audit[i].key \notin late \cup lost,
                    ~\E j \in i + 1 .. Len(audit) : audit[j].key = audit[i].key,
                    ~\E j \in 1 .. Len(queue) : queue[j].key = audit[i].key,
                    ~(task # None /\ task.key = audit[i].key),
                    ~(writer # None /\ change.key = audit[i].key)
             PROVE  audit[i].new = storage[audit[i].key]
  BY DEF AuditIsEffective
<1>1. PICK k \in Registered : k = audit[i].key
  <2>1. audit \in Seq(Entries)
    BY DEF AuditInv
  <2>2. audit[i] \in Entries
    BY <2>1, ElementOfSeq
  <2> QED BY <2>2 DEF Entries
<1>2. LastEntry(k, i)
  <2>1. Len(audit) \in Nat
    BY LenProperties DEF AuditInv
  <2>2. \A b \in 1 .. Len(audit) : b > i => b \in i + 1 .. Len(audit)
    BY <2>1
  <2> QED BY <1>1, <2>2 DEF LastEntry
<1>3. Of(k) = {}
  BY <1>1 DEF Of, Pending, Entry
<1>4. Current(k) = storage[k]
  BY <1>1 DEF Current
<1>5. Followed(k)
  BY <1>1 DEF AuditInv
<1> QED BY <1>1, <1>2, <1>3, <1>4, <1>5 DEF Followed

\* AuditIsEffective of the runs: with any number of commits, however the worker
\* and the commits interleave, the last entry of an item is its value, unless a
\* change of it is under way, a refused one was taken back late, or two entries
\* recorded at the same time have cost that one (cfg_change_worker,
\* cfg_audit_record, cfg_commit_value).
THEOREM AuditCorrect ==
  ASSUME OneSaver
  PROVE  Spec => []AuditIsEffective
<1>1. Init => AuditInv
  BY NothingAudit DEF Init
<1>2. Spec => [](Disk /\ Values)
  BY Inductive
<1> QED BY <1>1, <1>2, NextAudit, AuditSays, PTL DEF Spec

-----------------------------------------------------------------------------
(* What a restart finds.                                                    *)

\* What a start makes of the data of a file.
Holds(data, k) == Member(data, k) # Absent /\ Member(data, k).type = GType[k]
Found(data, k) == IF Holds(data, k) /\ Fits(k, data[k]) THEN data[k].v ELSE Item[k].default

\* The one file for an item: the one that holds it at first, or its default file.
Homes(k) == {i \in DOMAIN LoadOrder : Holds(Initial[LoadOrder[i]], k)}
Home(k) == IF Homes(k) = {} THEN Item[k].default_file ELSE LoadOrder[CHOOSE i \in Homes(k) : TRUE]

\* No item is in two of the files that are loaded, and a default file is loaded.
OneHome ==
    /\ \A i, j \in DOMAIN LoadOrder : LoadOrder[i] = LoadOrder[j] => i = j
    /\ \A k \in Persistent : /\ \A i, j \in Homes(k) : i = j
                             /\ \E i \in DOMAIN LoadOrder : LoadOrder[i] = Item[k].default_file

\* The items are in the data of their file, if they were at first, and in no other.
Proper(f, data) ==
    \A k \in Persistent :
        /\ f # Home(k) /\ f \in ToSet(LoadOrder) => ~Holds(data, k)
        /\ f = Home(k) /\ Homes(k) # {} => Holds(data, k)

Busy(c) == ~At(c, "idle")

HomeInv ==
    /\ \A f \in Files : Proper(f, Visible(f)) /\ Proper(f, stored[f])
    /\ \A c \in Clients : Busy(c) => \A f \in DOMAIN save[c].out : Proper(f, save[c].out[f])
    /\ up => \A k \in Persistent : Sourced(k) = Home(k)

\* What is not marked is in its file, and what a save of all items writes is
\* what they are, until it ends.
CleanInv ==
    /\ writer # None => up
    /\ up => \A k \in Persistent \ (dirty \cup late) : Found(Visible(Home(k)), k) = Current(k)
    /\ \A c \in Clients : Busy(c) =>
          /\ up /\ (save[c].all => writer = None)
          /\ \A k \in Persistent : Home(k) \in DOMAIN save[c].out =>
                save[c].all /\ (k \in late \/ Found(save[c].out[Home(k)], k) = storage[k])

\* The file of an item is one of those that are loaded.
LEMMA HomeIsLoaded ==
  ASSUME OneHome, NEW k \in Persistent
  PROVE  /\ \E h \in DOMAIN LoadOrder : LoadOrder[h] = Home(k)
         /\ Homes(k) # {} => Holds(Initial[Home(k)], k)
         /\ Home(k) \in Files /\ Home(k) \in ToSet(LoadOrder) /\ Home(k) # None
<1>1. /\ \E h \in DOMAIN LoadOrder : LoadOrder[h] = Home(k)
      /\ Homes(k) # {} => Holds(Initial[Home(k)], k)
  <2>1. CASE Homes(k) = {}
    BY <2>1 DEF OneHome, Home
  <2>2. CASE Homes(k) # {}
    <3>1. PICK h : h = CHOOSE i \in Homes(k) : TRUE
      OBVIOUS
    <3>2. h \in Homes(k)
      BY <2>2, <3>1
    <3>3. Home(k) = LoadOrder[h]
      BY <2>2, <3>1 DEF Home
    <3> QED BY <3>2, <3>3 DEF Homes
  <2> QED BY <2>1, <2>2
<1>2. LoadOrder \in Seq(Files)
  BY FileAssumption
<1>3. Home(k) \in Files
  BY <1>1, <1>2
<1>4. Home(k) \in ToSet(LoadOrder)
  BY <1>1 DEF ToSet
<1>5. Home(k) # None
  BY <1>3, NoneAssumption
<1> QED BY <1>1, <1>3, <1>4, <1>5

\* A start loads from the one file of the item, and takes that for its source.
LEMMA LoadedFound ==
  ASSUME OneHome, \A f \in Files : Proper(f, Visible(f)), NEW k \in Persistent
  PROVE  /\ Loaded.storage[k] = Found(Visible(Home(k)), k)
         /\ Loaded.source[k] = Home(k) \/ (Loaded.source[k] = None /\ Item[k].default_file = Home(k))
<1>1. PICK h \in DOMAIN LoadOrder : LoadOrder[h] = Home(k)
  BY HomeIsLoaded
<1>2. PICK data : data = Visible(Home(k))
  OBVIOUS
<1>3. k \in Registered
  BY DEF Persistent
<1>4. ASSUME NEW i \in Holders(k) PROVE i = h
  <2>1. i \in DOMAIN LoadOrder /\ Holds(Visible(LoadOrder[i]), k)
    BY DEF Holders, Holds
  <2>2. LoadOrder[i] \in Files /\ LoadOrder[i] \in ToSet(LoadOrder)
    BY <2>1, FileAssumption DEF ToSet
  <2>3. LoadOrder[i] = Home(k)
    BY <2>1, <2>2 DEF Proper
  <2> QED BY <1>1, <2>1, <2>3 DEF OneHome
<1>5. h \in Holders(k) <=> Holds(data, k)
  BY <1>1, <1>2 DEF Holders, Holds
<1>6. Held(k, h) = data[k]
  BY <1>1, <1>2 DEF Held
<1>7. ASSUME NEW loads, loads = {h} PROVE LastOf(loads) = {h} /\ FirstOf(loads) = {h}
  <2>1. h \in Nat
    BY <1>1, FileAssumption
  <2> QED BY <1>7, <2>1 DEF LastOf, FirstOf
<1>8. LastOf({}) = {} /\ FirstOf({}) = {}
  BY DEF LastOf, FirstOf
<1>9. Loaded.storage[k] = Found(data, k)
  <2>1. Loaded.storage[k] = IF LastOf(Fitting(k)) = {} THEN Item[k].default
                            ELSE Held(k, CHOOSE i \in LastOf(Fitting(k)) : TRUE).v
    BY <1>3 DEF Loaded, Coded
  <2>2. CASE h \in Fitting(k)
    <3>1. Fitting(k) = {h}
      BY <1>4, <2>2 DEF Fitting
    <3>2. LastOf(Fitting(k)) = {h}
      BY <1>7, <3>1
    <3>3. (CHOOSE i \in {h} : TRUE) = h
      OBVIOUS
    <3>4. Loaded.storage[k] = data[k].v
      BY <1>6, <2>1, <3>2, <3>3
    <3>5. Holds(data, k) /\ Fits(k, data[k])
      BY <1>5, <1>6, <2>2 DEF Fitting
    <3> QED BY <3>4, <3>5 DEF Found
  <2>3. CASE h \notin Fitting(k)
    <3>1. Fitting(k) = {}
      BY <1>4, <2>3 DEF Fitting
    <3>2. Loaded.storage[k] = Item[k].default
      BY <1>8, <2>1, <3>1
    <3>3. ~(Holds(data, k) /\ Fits(k, data[k]))
      BY <1>5, <1>6, <2>3 DEF Fitting
    <3> QED BY <3>2, <3>3 DEF Found
  <2> QED BY <2>2, <2>3
<1>10. Loaded.source[k] = Home(k) \/ (Loaded.source[k] = None /\ Item[k].default_file = Home(k))
  <2>1. Loaded.source[k] = IF FirstOf(Holders(k)) = {} THEN None
                           ELSE LoadOrder[CHOOSE i \in FirstOf(Holders(k)) : TRUE]
    BY <1>3 DEF Loaded
  <2>2. CASE h \in Holders(k)
    <3>1. Holders(k) = {h}
      BY <1>4, <2>2
    <3>2. FirstOf(Holders(k)) = {h}
      BY <1>7, <3>1
    <3>3. (CHOOSE i \in {h} : TRUE) = h
      OBVIOUS
    <3> QED BY <1>1, <2>1, <3>2, <3>3
  <2>3. CASE h \notin Holders(k)
    <3>1. Holders(k) = {}
      BY <1>4, <2>3
    <3>2. Loaded.source[k] = None
      BY <1>8, <2>1, <3>1
    <3>3. ~Holds(data, k)
      BY <1>5, <2>3
    <3>4. Homes(k) = {}
      BY <1>2, <3>3, HomeIsLoaded DEF Proper
    <3> QED BY <3>2, <3>4 DEF Home
  <2> QED BY <2>2, <2>3
<1> QED BY <1>2, <1>9, <1>10

Located == OneSaver /\ OneHome
Restartable == HomeInv /\ CleanInv

LEMMA InitRestart == OneHome /\ Init => Restartable
<1> SUFFICES ASSUME OneHome, Init PROVE Restartable
  OBVIOUS
<1>1. ~up /\ writer = None /\ \A c \in Clients : ~Busy(c)
  BY DEF Init, NoSave, Busy, At
<1>2. \A f \in Files : stored[f] = Initial[f] /\ Visible(f) = stored[f]
  <2>1. \A f \in Files : Stored(f) /\ dir[f] = durable[f]
    BY InitDisk DEF Init, Disk
  <2> QED BY <2>1, SettledIsVisible DEF Init
<1>3. ASSUME NEW f \in Files PROVE Proper(f, Initial[f])
  <2>1. ASSUME NEW k \in Persistent, f # Home(k), f \in ToSet(LoadOrder) PROVE ~Holds(Initial[f], k)
    <3> SUFFICES ASSUME Holds(Initial[f], k) PROVE FALSE
      OBVIOUS
    <3>1. PICK i \in DOMAIN LoadOrder : LoadOrder[i] = f
      BY <2>1 DEF ToSet
    <3>2. i \in Homes(k)
      BY <3>1 DEF Homes
    <3>3. PICK h : h = CHOOSE j \in Homes(k) : TRUE
      OBVIOUS
    <3>4. h \in Homes(k) /\ Home(k) = LoadOrder[h]
      BY <3>2, <3>3 DEF Home
    <3>5. h = i
      BY <3>2, <3>4 DEF OneHome
    <3> QED BY <2>1, <3>1, <3>4, <3>5
  <2>2. ASSUME NEW k \in Persistent, f = Home(k), Homes(k) # {} PROVE Holds(Initial[f], k)
    BY <2>2, HomeIsLoaded
  <2> QED BY <2>1, <2>2 DEF Proper
<1>4. HomeInv
  BY <1>1, <1>2, <1>3 DEF HomeInv
<1>5. CleanInv
  BY <1>1 DEF CleanInv
<1> QED BY <1>4, <1>5 DEF Restartable

\* A step that leaves the files alone, and that no save of all items overlaps
\* with if it changes a value.
LEMMA MemStep ==
  ASSUME Restartable, UNCHANGED <<up, source, save, disk>>,
         UNCHANGED <<storage, writer>> \/ \A c \in Clients : Busy(c) => ~save[c].all,
         writer' # None => up, late \subseteq late',
         \A k \in Persistent \ (dirty' \cup late') : k \notin dirty /\ Current(k)' = Current(k)
  PROVE  Restartable'
<1>1. /\ \A f \in Files : Visible(f)' = Visible(f) /\ stored'[f] = stored[f]
      /\ \A c \in Clients : Busy(c)' = Busy(c)
  BY DEF disk, Visible, Busy, At
<1>2. HomeInv'
  <2>1. \A k : Sourced(k)' = Sourced(k)
    BY DEF Sourced
  <2>2. HomeInv
    BY DEF Restartable
  <2> QED BY <1>1, <2>1, <2>2 DEF HomeInv
<1>3. CleanInv
  BY DEF Restartable
<1>4. ASSUME up, NEW k \in Persistent \ (dirty' \cup late')
      PROVE  Found(Visible(Home(k))', k) = Current(k)'
  <2>1. Home(k) \in Files => Visible(Home(k))' = Visible(Home(k))
    BY <1>1
  <2>2. Visible(Home(k))' = Visible(Home(k))
    BY DEF disk, Visible
  <2>3. k \notin dirty \cup late
    BY <1>4
  <2> QED BY <1>3, <1>4, <2>2, <2>3 DEF CleanInv
<1>5. ASSUME NEW c \in Clients, Busy(c)'
      PROVE  /\ up' /\ (save'[c].all => writer' = None)
             /\ \A k \in Persistent : Home(k) \in DOMAIN save'[c].out =>
                  save'[c].all /\ (k \in late' \/ Found(save'[c].out[Home(k)], k) = storage'[k])
  <2>1. Busy(c)
    BY <1>1, <1>5
  <2>2. /\ up /\ (save[c].all => writer = None)
        /\ \A k \in Persistent : Home(k) \in DOMAIN save[c].out =>
              save[c].all /\ (k \in late \/ Found(save[c].out[Home(k)], k) = storage[k])
    BY <1>3, <2>1 DEF CleanInv
  <2>3. CASE UNCHANGED <<storage, writer>>
    BY <2>2, <2>3
  <2>4. CASE ~save[c].all
    BY <2>2, <2>4
  <2> QED BY <2>1, <2>3, <2>4
<1>6. CleanInv'
  BY <1>4, <1>5 DEF CleanInv
<1> QED BY <1>2, <1>6 DEF Restartable

\* With the writer lock free or the writer at work no save of all items is busy.
LEMMA NoSaveOfAll ==
  ASSUME Restartable, writer # None \/ NoReader
  PROVE  \A c \in Clients : Busy(c) => ~save[c].all
BY DEF Restartable, CleanInv, NoReader, Busy, At

LEMMA ApplyRestart ==
  ASSUME Values, Restartable, NEW c \in Clients, NEW k, NEW node, Apply(c, k, node)
  PROVE  Restartable'
<1>1. /\ up /\ writer = None /\ writer' = c /\ NoReader /\ k \in Registered
      /\ change' = [key |-> k, old |-> storage[k]]
      /\ storage' = [storage EXCEPT ![k] = node.v]
      /\ UNCHANGED <<up, source, save, disk, dirty, late>>
  BY DEF Apply, Idle, history
<1>2. c # None /\ DOMAIN storage = Registered
  BY NoneAssumption DEF Values, ValuesInv
<1>3. \A j \in Persistent : Current(j)' = Current(j)
  BY <1>1, <1>2 DEF Current, Persistent
<1>4. \A d \in Clients : Busy(d) => ~save[d].all
  BY <1>1, NoSaveOfAll
<1> QED BY <1>1, <1>3, <1>4, MemStep

LEMMA RefuseRestart ==
  ASSUME Values, Restartable, NEW c \in Clients, Refuse(c)
  PROVE  Restartable'
<1>1. /\ writer = c /\ writer' = None
      /\ storage' = [storage EXCEPT ![change.key] = change.old]
      /\ UNCHANGED <<up, source, save, disk, dirty, late>>
  BY DEF Refuse, Release, history
<1>2. writer # None /\ DOMAIN storage = Registered
  BY <1>1, NoneAssumption DEF Values, ValuesInv
<1>3. change.key \in Registered
  BY <1>2 DEF Values, ValuesInv
<1>4. \A j \in Persistent : Current(j)' = Current(j)
  BY <1>1, <1>2, <1>3 DEF Current, Persistent
<1>5. \A d \in Clients : Busy(d) => ~save[d].all
  BY <1>2, NoSaveOfAll
<1> QED BY <1>1, <1>4, <1>5, MemStep

\* An accepted change is marked.
LEMMA AcceptRestart ==
  ASSUME Values, Restartable, NEW c \in Clients, Accept(c)
  PROVE  Restartable'
<1>1. /\ writer = c /\ writer' = None
      /\ dirty' = dirty \cup ({change.key} \cap Persistent)
      /\ UNCHANGED <<up, source, save, disk, storage, late>>
  BY DEF Accept, Release
<1>2. writer # None
  BY <1>1, NoneAssumption
<1>3. \A j \in Persistent \ dirty' : j \notin dirty /\ Current(j)' = Current(j)
  BY <1>1, <1>2 DEF Current
<1>4. \A d \in Clients : Busy(d) => ~save[d].all
  BY <1>2, NoSaveOfAll
<1> QED BY <1>1, <1>3, <1>4, MemStep

\* A change that is taken back is marked, or late.
LEMMA RollBackRestart ==
  ASSUME Values, Restartable, RollBack
  PROVE  Restartable'
<1>1. /\ writer = None /\ NoReader /\ writer' = None /\ task # None
      /\ storage' = [storage EXCEPT ![task.key] = task.old]
      /\ late' = IF task.key \in {queue[i].key : i \in DOMAIN queue} \cup (Persistent \ dirty)
                 THEN late \cup {task.key} ELSE late
      /\ UNCHANGED <<up, source, save, disk, dirty>>
  BY DEF RollBack, RollBackAlone
<1>2. late \subseteq late' /\ (task.key \in Persistent \ dirty => task.key \in late')
  BY <1>1
<1>3. DOMAIN storage = Registered
  BY DEF Values, ValuesInv
<1>4. \A j \in Persistent \ (dirty' \cup late') : j \notin dirty /\ Current(j)' = Current(j)
  <2> SUFFICES ASSUME NEW j \in Persistent \ (dirty' \cup late')
               PROVE  j \notin dirty /\ Current(j)' = Current(j)
    OBVIOUS
  <2>1. j # task.key /\ j \notin dirty
    BY <1>1, <1>2
  <2> QED BY <1>1, <2>1 DEF Current
<1>5. \A d \in Clients : Busy(d) => ~save[d].all
  BY <1>1, NoSaveOfAll
<1> QED BY <1>1, <1>2, <1>4, <1>5, MemStep

LEMMA StartRestart ==
  ASSUME OneHome, Restartable, Start
  PROVE  Restartable'
<1>1. /\ ~up /\ up' /\ storage' = Loaded.storage /\ source' = Loaded.source
      /\ UNCHANGED <<writer, save, disk, late>>
  BY DEF Start, history
<1>2. HomeInv /\ CleanInv
  BY DEF Restartable
<1>3. writer = None /\ \A c \in Clients : ~Busy(c)
  BY <1>1, <1>2 DEF CleanInv
<1>4. \A f \in Files : Visible(f)' = Visible(f) /\ stored'[f] = stored[f]
  BY <1>1 DEF disk, Visible
<1>5. \A c \in Clients : ~Busy(c)'
  BY <1>1, <1>3 DEF Busy, At
<1>6. \A f \in Files : Proper(f, Visible(f)) /\ Proper(f, stored[f])
  BY <1>2 DEF HomeInv
<1>7. ASSUME NEW k \in Persistent
      PROVE  Sourced(k)' = Home(k) /\ Found(Visible(Home(k))', k) = Current(k)'
  <2>1. Home(k) # None /\ Home(k) \in Files
    BY HomeIsLoaded
  <2>2. /\ Loaded.storage[k] = Found(Visible(Home(k)), k)
        /\ Loaded.source[k] = Home(k) \/ (Loaded.source[k] = None /\ Item[k].default_file = Home(k))
    BY <1>6, LoadedFound
  <2>3. Sourced(k)' = Home(k)
    BY <1>1, <2>1, <2>2 DEF Sourced
  <2>4. Visible(Home(k))' = Visible(Home(k))
    BY <1>1 DEF disk, Visible
  <2>5. Current(k)' = Loaded.storage[k]
    BY <1>1, <1>3 DEF Current
  <2> QED BY <2>2, <2>3, <2>4, <2>5
<1>8. HomeInv'
  BY <1>4, <1>5, <1>6, <1>7 DEF HomeInv
<1>9. CleanInv'
  BY <1>1, <1>3, <1>5, <1>7 DEF CleanInv
<1> QED BY <1>8, <1>9 DEF Restartable

\* What is left by a power loss are whole files, with their items.
LEMMA PowerLossRestart ==
  ASSUME Disk, Restartable, PowerLoss
  PROVE  Restartable'
<1>1. /\ ~up' /\ writer' = None /\ save' = [c \in Clients |-> NoSave]
      /\ stored' = [f \in Files |-> Visible(f)']
  BY DEF PowerLoss
<1>2. HomeInv /\ CleanInv
  BY DEF Restartable
<1>3. \A c \in Clients : ~Busy(c)'
  BY <1>1 DEF Busy, At, NoSave
<1>4. \A f \in Files : Proper(f, Visible(f)')
  <2> SUFFICES ASSUME NEW f \in Files PROVE Proper(f, Visible(f)')
    OBVIOUS
  <2>1. Visible(f)' = Visible(f) \/ Visible(f)' \in {stored[f]} \cup Written(f)
    BY PowerLossIsWhole DEF Whole
  <2>2. \A data \in Written(f) : Proper(f, data)
    BY <1>2 DEF Written, HomeInv, Busy
  <2>3. Proper(f, Visible(f)) /\ Proper(f, stored[f])
    BY <1>2 DEF HomeInv
  <2> QED BY <2>1, <2>2, <2>3
<1>5. HomeInv'
  BY <1>1, <1>3, <1>4 DEF HomeInv
<1>6. CleanInv'
  BY <1>1, <1>3 DEF CleanInv
<1> QED BY <1>5, <1>6 DEF Restartable

\* A save begins to write what it has collected.
LEMMA BeginRestart ==
  ASSUME Disk, Located, Restartable, NEW c \in Clients, c \in Savers, At(c, "idle"), up, writer = None,
         NEW out, NEW all \in BOOLEAN, NEW todo,
         save' = [save EXCEPT ![c] = [pc |-> "open", all |-> all, fd |-> 0,
                                      todo |-> todo, out |-> out]],
         UNCHANGED <<up, storage, dirty, writer, change, disk, late>>,
         \A f \in DOMAIN out : Proper(f, out[f]),
         \A k \in Persistent : Sourced(k)' = Sourced(k),
         \A k \in Persistent : Home(k) \in DOMAIN out =>
            all /\ (k \in late \/ Found(out[Home(k)], k) = storage[k])
  PROVE  Restartable'
<1>1. \A d \in Clients \ {c} : ~Busy(d) /\ ~Busy(d)'
  <2>1. \A d \in Clients \ {c} : At(d, "idle")
    BY DEF Disk, Todo, OneSaver, Located
  <2>2. \A d \in Clients \ {c} : save'[d] = save[d]
    BY DEF Disk, DiskTypes
  <2> QED BY <2>1, <2>2 DEF Busy, At
<1>2. save'[c].out = out /\ save'[c].all = all
  BY DEF Disk, DiskTypes
<1>3. HomeInv /\ CleanInv
  BY DEF Restartable
<1>4. HomeInv'
  <2>1. \A f \in Files : Visible(f)' = Visible(f) /\ stored'[f] = stored[f]
    BY DEF disk, Visible
  <2> QED BY <1>1, <1>2, <1>3, <2>1 DEF HomeInv
<1>5. CleanInv'
  <2>1. \A k \in Persistent : Visible(Home(k))' = Visible(Home(k)) /\ Current(k)' = Current(k)
    BY DEF disk, Visible, Current
  <2>2. \A k \in Persistent \ (dirty' \cup late') : Found(Visible(Home(k))', k) = Current(k)'
    BY <1>3, <2>1 DEF CleanInv
  <2> QED BY <1>1, <1>2, <2>2 DEF CleanInv
<1> QED BY <1>4, <1>5 DEF Restartable

LEMMA ObjectIsWhole ==
  ASSUME NEW data \in Objects, NEW k
  PROVE  data # Broken /\ (Holds(data, k) <=> data[k] # Absent /\ data[k].type = GType[k])
<1>1. data # Broken
  BY NoneAssumption DEF Objects
<1> QED BY <1>1 DEF Holds, Member

\* What is found in an object that values were put into.
LEMMA FoundPut ==
  ASSUME Values, writer = None, NEW base \in Objects, NEW ks \in SUBSET Persistent, NEW k \in Persistent
  PROVE  /\ k \in ks => Holds(Put(base, ks), k) /\ Found(Put(base, ks), k) = storage[k]
         /\ k \notin ks => /\ Holds(Put(base, ks), k) <=> Holds(base, k)
                           /\ Found(Put(base, ks), k) = Found(base, k)
<1>1. ks \in SUBSET Registered /\ k \in Registered /\ k \in Keys \cup Foreign
  BY DEF Persistent, Registered
<1>2. \A j \in Registered : storage[j] \in Item[j].valid
  BY SavedIsValid
<1>3. PICK data \in Objects : data = Put(base, ks)
  BY <1>1, <1>2, PutObject
<1>4. CASE k \in ks
  <2>1. data[k] = Node(k)
    BY <1>1, <1>3, <1>4 DEF Put
  <2>2. storage[k] \in Item[k].range /\ storage[k] \in ValidValues
    BY <1>1, <1>2, ValidAssumption DEF ValidValues
  <2>3. Node(k) \in Nodes
    BY <1>1, <2>2 DEF Node, Nodes
  <2>4. Node(k) # Absent /\ Node(k).type = GType[k] /\ Node(k).v = storage[k]
    BY <2>3, NoneAssumption DEF Node
  <2>5. Holds(data, k)
    BY <2>1, <2>4, ObjectIsWhole
  <2>6. Fits(k, data[k])
    BY <2>1, <2>2, <2>4 DEF Fits
  <2> QED BY <1>3, <1>4, <2>1, <2>4, <2>5, <2>6 DEF Found
<1>5. CASE k \notin ks
  <2>1. data[k] = base[k]
    BY <1>1, <1>3, <1>5 DEF Put
  <2>2. Holds(data, k) <=> Holds(base, k)
    BY <2>1, ObjectIsWhole
  <2> QED BY <1>3, <1>5, <2>1, <2>2 DEF Found
<1> QED BY <1>4, <1>5

\* A file without an object is as good as an empty object.
LEMMA FoundNothing ==
  ASSUME NEW k \in Persistent
  PROVE  /\ ~Holds(NoMembers, k) /\ ~Holds(Broken, k)
         /\ Found(NoMembers, k) = Found(Broken, k)
<1>1. k \in Keys \cup Foreign
  BY DEF Persistent, Registered
<1>2. NoMembers[k] = Absent
  BY <1>1 DEF NoMembers
<1>3. ~Holds(NoMembers, k)
  BY <1>2, NoMembersObject, ObjectIsWhole
<1>4. ~Holds(Broken, k)
  BY DEF Holds, Member
<1> QED BY <1>3, <1>4 DEF Found

LEMMA SaveAllRestart ==
  ASSUME Disk, Values, Located, Restartable, NEW c \in Clients, SaveAll(c)
  PROVE  Restartable'
<1>1. /\ c \in Savers /\ At(c, "idle") /\ up /\ writer = None
      /\ UNCHANGED <<up, storage, dirty, writer, change, disk, late>>
      /\ source' = [k \in Registered |-> IF k \in Persistent THEN Sourced(k) ELSE source[k]]
  BY DEF SaveAll, Idle, At, history
<1>2. PICK force \in BOOLEAN :
         LET items(f) == {k \in Persistent : Sourced(k) = f /\ (force \/ k \in dirty)}
             fs == {f \in Files : items(f) # {}}
             base(f) == IF Visible(f) = Broken THEN NoMembers ELSE Visible(f)
         IN  save' = [save EXCEPT ![c] =
                   [pc |-> "open", all |-> TRUE, fd |-> 0, todo |-> SetToSeq(fs),
                    out |-> [f \in fs |-> Put(base(f), items(f))]]]
  BY DEF SaveAll
<1> DEFINE items(f) == {k \in Persistent : Sourced(k) = f /\ (force \/ k \in dirty)}
           base(f) == IF Visible(f) = Broken THEN NoMembers ELSE Visible(f)
<1>3. PICK fs : fs = {f \in Files : items(f) # {}}
  OBVIOUS
<1>4. PICK out : out = [f \in fs |-> Put(base(f), items(f))]
  OBVIOUS
<1>5. PICK todo : todo = SetToSeq(fs)
  OBVIOUS
<1>6. save' = [save EXCEPT ![c] = [pc |-> "open", all |-> TRUE, fd |-> 0,
                                   todo |-> todo, out |-> out]]
  BY <1>2, <1>3, <1>4, <1>5
<1>7. HomeInv /\ CleanInv
  BY DEF Restartable
<1>8. \A k \in Persistent : Sourced(k) = Home(k) /\ Home(k) # None /\ Home(k) \in Files
  BY <1>1, <1>7, HomeIsLoaded DEF HomeInv, Located
<1>9. \A k \in Persistent : Sourced(k)' = Sourced(k)
  <2>1. \A k \in Persistent : source'[k] = Home(k)
    BY <1>1, <1>8 DEF Persistent
  <2> QED BY <1>8, <2>1 DEF Sourced
<1>10. ASSUME NEW f \in fs, NEW k \in Persistent
       PROVE  /\ k \in items(f) => Holds(out[f], k) /\ Found(out[f], k) = storage[k]
              /\ k \notin items(f) => /\ Holds(out[f], k) <=> Holds(Visible(f), k)
                                      /\ Found(out[f], k) = Found(Visible(f), k)
  <2>1. PICK ks : ks = items(f)
    OBVIOUS
  <2>2. PICK data : data = base(f)
    OBVIOUS
  <2>3. f \in Files /\ ks \in SUBSET Persistent /\ out[f] = Put(data, ks)
    BY <1>3, <1>4, <2>1, <2>2
  <2>4. Visible(f) \in Contents
    BY <2>3, VisibleContents DEF Disk
  <2>5. data \in Objects
    BY <2>2, <2>4, NoMembersObject DEF Contents
  <2>6. (Holds(data, k) <=> Holds(Visible(f), k)) /\ Found(data, k) = Found(Visible(f), k)
    <3>1. CASE Visible(f) = Broken
      BY <2>2, <3>1, FoundNothing
    <3>2. CASE Visible(f) # Broken
      BY <2>2, <3>2
    <3> QED BY <3>1, <3>2
  <2>7. /\ k \in ks => Holds(out[f], k) /\ Found(out[f], k) = storage[k]
        /\ k \notin ks => (Holds(out[f], k) <=> Holds(data, k)) /\ Found(out[f], k) = Found(data, k)
    BY <1>1, <2>3, <2>5, FoundPut
  <2> QED BY <2>1, <2>6, <2>7
<1>11. ASSUME NEW f \in DOMAIN out PROVE Proper(f, out[f])
  <2>1. f \in fs /\ f \in Files
    BY <1>3, <1>4
  <2>2. Proper(f, Visible(f))
    BY <1>7, <2>1 DEF HomeInv
  <2>3. ASSUME NEW k \in Persistent, f # Home(k), f \in ToSet(LoadOrder) PROVE ~Holds(out[f], k)
    <3>1. k \notin items(f)
      BY <1>8, <2>3
    <3> QED BY <1>10, <2>1, <2>2, <2>3, <3>1 DEF Proper
  <2>4. ASSUME NEW k \in Persistent, f = Home(k), Homes(k) # {} PROVE Holds(out[f], k)
    <3>1. Holds(Visible(f), k)
      BY <2>2, <2>4 DEF Proper
    <3> QED BY <1>10, <2>1, <3>1
  <2> QED BY <2>3, <2>4 DEF Proper
<1>12. ASSUME NEW k \in Persistent, Home(k) \in DOMAIN out
       PROVE  k \in late \/ Found(out[Home(k)], k) = storage[k]
  <2>1. PICK f : f = Home(k)
    OBVIOUS
  <2>2. f \in fs
    BY <1>4, <1>12, <2>1
  <2>3. CASE k \in items(f)
    BY <1>10, <2>1, <2>2, <2>3
  <2>4. CASE k \notin items(f)
    <3>1. k \notin dirty
      BY <1>8, <2>1, <2>4
    <3>2. Found(out[f], k) = Found(Visible(f), k)
      BY <1>10, <2>2, <2>4
    <3>3. k \in late \/ Found(Visible(f), k) = Current(k)
      BY <1>1, <1>7, <2>1, <3>1 DEF CleanInv
    <3> QED BY <1>1, <2>1, <3>2, <3>3 DEF Current
  <2> QED BY <2>3, <2>4
<1> HIDE DEF items, base
<1> QED BY <1>1, <1>6, <1>9, <1>11, <1>12, BeginRestart

\* A file that is not loaded says nothing about a restart.
LEMMA SaveAsRestart ==
  ASSUME Disk, Values, Located, Restartable, NEW c \in Clients, NEW f \in Files, SaveAs(c, f)
  PROVE  Restartable'
<1>1. /\ c \in Savers /\ At(c, "idle") /\ up /\ writer = None /\ f \notin ToSet(LoadOrder)
      /\ UNCHANGED <<up, storage, dirty, source, writer, change, disk, late>>
  BY DEF SaveAs, Idle, At, mem, history
<1>2. PICK out : out = [g \in {f} |-> Put(NoMembers, Persistent)]
  OBVIOUS
<1>3. PICK todo : todo = <<f>>
  OBVIOUS
<1>4. save' = [save EXCEPT ![c] = [pc |-> "open", all |-> FALSE, fd |-> 0,
                                   todo |-> todo, out |-> out]]
  BY <1>2, <1>3 DEF SaveAs
<1>5. \A k \in Persistent : Home(k) \in ToSet(LoadOrder)
  BY HomeIsLoaded DEF Located
<1>6. \A g \in DOMAIN out : Proper(g, out[g])
  BY <1>1, <1>2, <1>5 DEF Proper
<1>7. \A k \in Persistent : Home(k) \notin DOMAIN out
  BY <1>1, <1>2, <1>5
<1>8. \A k \in Persistent : Sourced(k)' = Sourced(k)
  BY <1>1 DEF Sourced
<1> QED BY <1>1, <1>4, <1>6, <1>7, <1>8, BeginRestart

\* A save that goes on has the same data to write.
LEMMA OutputKept ==
  ASSUME OneSaver, Disk, NEW c \in Clients, Save(c), NEW d \in Clients, Busy(d)'
  PROVE  Busy(d) /\ save'[d].out = save[d].out /\ save'[d].all = save[d].all
<1>1. save \in [Clients -> Saves] /\ ~At(c, "idle")
  BY DEF Disk, DiskTypes, Save, OpenTmp, WriteTmp, SyncTmp, RenameTmp, SyncDir, WriteFails, At
<1>2. save[c] \in Saves
  BY <1>1
<1>3. ASSUME save'[d] = save[d] PROVE Busy(d)
  BY <1>3 DEF Busy, At
<1>4. CASE NextFile(c)
  <2>1. PICK old : old = save[c]
    OBVIOUS
  <2>2. PICK new : new = IF Len(old.todo) = 1 THEN NoSave
                         ELSE [old EXCEPT !.pc = "open", !.todo = Tail(old.todo), !.fd = 0]
    OBVIOUS
  <2>3. save' = [save EXCEPT ![c] = new]
    BY <2>1, <2>2, <1>4 DEF NextFile
  <2>4. CASE d # c
    BY <1>1, <1>3, <2>3, <2>4
  <2>5. CASE d = c
    <3>1. save'[d] = new
      BY <1>1, <2>3, <2>5
    <3>2. new # NoSave
      BY <3>1 DEF NoSave, Busy, At
    <3>3. new.out = old.out /\ new.all = old.all
      BY <1>2, <2>1, <2>2, <3>2 DEF Saves
    <3> QED BY <1>1, <2>1, <2>5, <3>1, <3>3 DEF Busy
  <2> QED BY <2>4, <2>5
<1>5. ASSUME NEW pc, Goto(c, pc) PROVE Busy(d) /\ save'[d].out = save[d].out /\ save'[d].all = save[d].all
  <2>1. save' = [save EXCEPT ![c].pc = pc]
    BY <1>5 DEF Goto
  <2> QED BY <1>1, <1>2, <1>3, <2>1 DEF Saves, Busy
<1>6. CASE OpenTmp(c)
  <2>1. PICK i : save' = [save EXCEPT ![c].pc = "write", ![c].fd = i]
    BY <1>6 DEF OpenTmp
  <2> QED BY <1>1, <1>2, <1>3, <2>1 DEF Saves, Busy
<1>7. CASE WriteTmp(c) \/ SyncTmp(c) \/ RenameTmp(c)
  BY <1>5, <1>7 DEF WriteTmp, SyncTmp, RenameTmp
<1>8. CASE SyncDir(c) \/ WriteFails(c)
  BY <1>4, <1>8 DEF SyncDir, WriteFails
<1> QED BY <1>6, <1>7, <1>8 DEF Save

\* A save takes the mark from the items of a file when that is on the disk.
LEMMA SaveRestart ==
  ASSUME Located, Disk, Disk', Restartable, NEW c \in Clients, Save(c)
  PROVE  Restartable'
<1>1. OneSaver /\ OneHome /\ HomeInv /\ CleanInv
  BY DEF Located, Restartable
<1>2. ~At(c, "idle") /\ Busy(c)
  BY DEF Save, OpenTmp, WriteTmp, SyncTmp, RenameTmp, SyncDir, WriteFails, At, Busy
<1>3. PICK g \in Files : g = Doing(c) /\ g \in DOMAIN save[c].out
  BY <1>1, <1>2, Active
<1>4. UNCHANGED <<up, storage, source, writer, change, late>>
  BY DEF Save, OpenTmp, WriteTmp, SyncTmp, RenameTmp, SyncDir, WriteFails, mem, history
<1>5. \/ UNCHANGED <<dirty, stored>>
      \/ /\ SyncDir(c) /\ stored' = [stored EXCEPT ![g] = save[c].out[g]]
         /\ dirty' = IF save[c].all THEN {k \in dirty : source[k] # g} ELSE dirty
  BY <1>3 DEF Save, OpenTmp, WriteTmp, SyncTmp, RenameTmp, SyncDir, WriteFails, mem
<1>6. \A d \in Clients : Busy(d)' =>
         Busy(d) /\ save'[d].out = save[d].out /\ save'[d].all = save[d].all
  BY <1>1, OutputKept
<1>7. \A f \in Files : \/ Visible(f)' = Visible(f)
                       \/ f = g /\ Visible(f)' = save[c].out[f]
  BY <1>1, <1>3, SaveVisible
<1>8. SyncDir(c) => Visible(g)' = save[c].out[g]
  BY <1>1, <1>3, SaveVisible
<1>9. HomeInv'
  <2>1. Proper(g, save[c].out[g])
    BY <1>1, <1>2, <1>3 DEF HomeInv
  <2>2. \A f \in Files : Proper(f, Visible(f)')
    BY <1>1, <1>7, <2>1 DEF HomeInv
  <2>3. \A f \in Files : Proper(f, stored'[f])
    BY <1>1, <1>5, <2>1 DEF HomeInv, Disk, DiskTypes
  <2>4. \A k : Sourced(k)' = Sourced(k)
    BY <1>4 DEF Sourced
  <2>5. \A d \in Clients : Busy(d)' => \A f \in DOMAIN save'[d].out : Proper(f, save'[d].out[f])
    BY <1>1, <1>6 DEF HomeInv
  <2>6. up' => \A k \in Persistent : Sourced(k)' = Home(k)
    BY <1>1, <1>4, <2>4 DEF HomeInv
  <2> QED BY <2>2, <2>3, <2>5, <2>6 DEF HomeInv
<1>10. \A k : Current(k)' = Current(k)
  BY <1>4 DEF Current
<1>11. ASSUME NEW k \in Persistent \ late, Home(k) = g PROVE Found(save[c].out[g], k) = Current(k)
  <2>1. save[c].all /\ writer = None /\ Found(save[c].out[g], k) = storage[k]
    BY <1>1, <1>2, <1>3, <1>11 DEF CleanInv
  <2> QED BY <2>1 DEF Current
<1>12. ASSUME up, NEW k \in Persistent \ (dirty' \cup late')
       PROVE  Found(Visible(Home(k))', k) = Current(k)'
  <2>1. PICK f \in Files : f = Home(k)
    BY <1>1, HomeIsLoaded
  <2>2. Visible(Home(k))' = Visible(f)'
    BY <2>1 DEF Visible
  <2>3. CASE f = g /\ Visible(f)' = save[c].out[f]
    BY <1>4, <1>10, <1>11, <1>12, <2>1, <2>2, <2>3
  <2>4. CASE Visible(f)' = Visible(f) /\ k \notin dirty
    BY <1>1, <1>4, <1>10, <1>12, <2>1, <2>2, <2>4 DEF CleanInv
  <2>5. CASE k \in dirty
    <3>1. SyncDir(c) /\ source[k] = g
      BY <1>5, <1>12, <2>5
    <3>2. Home(k) = g
      <4>1. Sourced(k) = Home(k) /\ g # None
        BY <1>1, <1>12, NoneAssumption DEF HomeInv
      <4> QED BY <3>1, <4>1 DEF Sourced
    <3> QED BY <1>8, <2>1, <2>3, <3>1, <3>2
  <2> QED BY <1>7, <2>1, <2>3, <2>4, <2>5
<1>13. ASSUME NEW d \in Clients, Busy(d)'
       PROVE  /\ up' /\ (save'[d].all => writer' = None)
              /\ \A k \in Persistent : Home(k) \in DOMAIN save'[d].out =>
                   save'[d].all /\ (k \in late' \/ Found(save'[d].out[Home(k)], k) = storage'[k])
  <2>1. Busy(d) /\ save'[d].out = save[d].out /\ save'[d].all = save[d].all
    BY <1>6, <1>13
  <2> QED BY <1>1, <1>4, <2>1 DEF CleanInv
<1>14. CleanInv'
  <2>1. writer' # None => up'
    BY <1>1, <1>4 DEF CleanInv
  <2> QED BY <1>4, <1>12, <1>13, <2>1 DEF CleanInv
<1> QED BY <1>9, <1>14 DEF Restartable

LEMMA NextRestart ==
  Located /\ Disk /\ Disk' /\ Values /\ Restartable /\ [Next]_vars => Restartable'
<1> SUFFICES ASSUME Located, Disk, Disk', Values, Restartable, [Next]_vars PROVE Restartable'
  OBVIOUS
<1>1. ASSUME UNCHANGED <<up, storage, dirty, source, writer, change, save, disk, late>>
      PROVE  Restartable'
  <2>1. \A k : Current(k)' = Current(k)
    BY <1>1 DEF Current
  <2>2. writer' # None => up
    BY <1>1 DEF Restartable, CleanInv
  <2> QED BY <1>1, <2>1, <2>2, MemStep
<1>2. CASE UNCHANGED vars
  BY <1>1, <1>2 DEF vars, mem, history
<1>3. CASE Start
  BY <1>3, StartRestart DEF Located
<1>4. CASE PowerLoss
  BY <1>4, PowerLossRestart
<1>5. CASE OnChange
  BY <1>1, <1>5 DEF OnChange, history
<1>6. CASE RollBack
  BY <1>6, RollBackRestart
<1>7. CASE AuditDone
  BY <1>1, <1>7 DEF AuditDone
<1>8. ASSUME NEW c \in Clients, CommitTyped(c) \/ CommitText(c) PROVE Restartable'
  BY <1>8, ApplyRestart DEF CommitTyped, CommitText
<1>9. ASSUME NEW c \in Clients, Refuse(c) PROVE Restartable'
  BY <1>9, RefuseRestart
<1>10. ASSUME NEW c \in Clients, Accept(c) PROVE Restartable'
  BY <1>10, AcceptRestart
<1>11. ASSUME NEW c \in Clients, SaveAll(c) PROVE Restartable'
  BY <1>11, SaveAllRestart
<1>12. ASSUME NEW c \in Clients, NEW f \in Files, SaveAs(c, f) PROVE Restartable'
  BY <1>12, SaveAsRestart
<1>13. ASSUME NEW c \in Clients, Save(c) PROVE Restartable'
  BY <1>13, SaveRestart
<1> QED BY <1>2, <1>3, <1>4, <1>5, <1>6, <1>7, <1>8, <1>9, <1>10, <1>11, <1>12, <1>13
      DEF Next, Worker

\* What a start would load is what a reader finds now.
LEMMA RestartFinds == OneHome /\ Restartable => CleanMeansSaved
<1> SUFFICES ASSUME OneHome, Restartable, up, writer = None, NEW k \in Persistent \ (dirty \cup late)
             PROVE  Loaded.storage[k] = storage[k]
  BY DEF CleanMeansSaved, CanRead
<1>1. Loaded.storage[k] = Found(Visible(Home(k)), k)
  BY LoadedFound DEF Restartable, HomeInv
<1>2. Found(Visible(Home(k)), k) = Current(k)
  BY DEF Restartable, CleanInv
<1> QED BY <1>1, <1>2 DEF Current

\* CleanMeansSaved of the runs: whatever is changed, saved or not, taken back
\* in time or lost with the power, an item that is not marked has the value
\* that a restart would load, if every item has one file (cfg_save_all,
\* cfg_save_file, cfg_load_file, the marks that cfg_commit_value sets).
THEOREM RestartFindsValues ==
  ASSUME OneSaver, OneHome
  PROVE  Spec => []CleanMeansSaved
<1>1. Init => Restartable
  BY InitRestart
<1>2. Disk /\ Disk' /\ Values /\ Restartable /\ [Next]_vars => Restartable'
  BY NextRestart DEF Located
<1>3. Restartable => CleanMeansSaved
  BY RestartFinds
<1>4. Spec => [](Disk /\ Values)
  BY Inductive
<1> QED BY <1>1, <1>2, <1>3, <1>4, PTL DEF Spec
=============================================================================
