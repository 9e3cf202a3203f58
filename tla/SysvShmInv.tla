---------------------------- MODULE SysvShmInv ----------------------------
(***************************************************************************)
(* The inductive invariant of SysvShm, for any number of processes,        *)
(* segments, files and namespaces, and the proofs that every step keeps    *)
(* the part of it that counts the references of namespaces and attach      *)
(* files, and that the steps which leave the tables alone keep it all.     *)
(***************************************************************************)
EXTENDS SysvShm, FiniteSetTheorems, TLAPS

\* the provers tried, in this order, on a step that names none
USE ZenonT(30), SMTT(30)

-----------------------------------------------------------------------------
(* The inductive invariant *)

Pcs == {"idle", "found", "pinned", "filed", "mapped", "out", "open", "reading",
        "creating", "switching"}

Indexes == 0..IPCMNI - 1

NsType ==
  /\ ns \in [Namespaces -> [life : Lives, count : Nat, sb : BOOLEAN, mq : {0, 1}]]
  /\ chain \in SUBSET Namespaces /\ walk \in [Notifiers -> SUBSET Namespaces]

TaskRec == [ns : Namespaces, nsfd : Namespaces \cup {NONE}, pc : Pcs, shmid : Nat, meant : Nat,
            shp : Segs \cup {NONE}, file : Files \cup {NONE}, pns : Namespaces \cup {NONE},
            pos : Nat]

TaskType == task \in [Tasks -> TaskRec]

FileType == file \in [Files -> [ns : Namespaces \cup {NONE}, id : Nat, vmas : Nat, refs : Nat]]

SegType ==
  seg \in [Segs -> [mem : {"free", "live", "deleted"}, key : Keys \cup {IPC_PRIVATE}, id : Nat,
                    pages : Nat, nattch : Nat, dest : BOOLEAN, made : Nat]]

\* the index of a segment in its table is the one in its identifier
TableType ==
  /\ shm_tot \in [Namespaces -> Nat] /\ made \in [Namespaces -> Nat] /\ scope \in Scopes
  /\ ids \in [Namespaces -> [ipcs_idr : UNION {[D -> Segs] : D \in SUBSET Indexes},
                             in_use : Nat, seq : 0..SEQ_MAX]]

\* The locals of a process are set where it uses them; a file has a reference
\* for each mapping and for each do_shmat that works on it.
LocalsOK(r) ==
  /\ r.pns # NONE <=> r.pc \in {"open", "reading", "creating", "switching"}
  /\ r.file # NONE <=> r.pc \in {"filed", "mapped"}
  /\ r.pc \in {"found", "pinned", "filed", "mapped", "out"} => r.shp \in Segs /\ r.meant # 0
  /\ r.file # NONE => file[r.file].ns = r.ns /\ file[r.file].id = r.shmid

CallInv ==
  /\ \A t \in Tasks : LocalsOK(task[t])
  /\ \A f \in Files : /\ file[f].refs >= file[f].vmas + Holders(f)
                      /\ file[f].refs > 0 => file[f].ns \in Namespaces

ChainInv == \A n \in chain : ns[n].life \in {"live", "dying"}

NsInv == NsType /\ TaskType /\ FileType /\ CallInv /\ ChainInv /\ NsReachable

\* A table holds live segments, each at the index of its identifier and in no
\* other table.
TableInv ==
  /\ \A n \in Namespaces : \A i \in DOMAIN ids[n].ipcs_idr :
       /\ seg[ids[n].ipcs_idr[i]].mem = "live"
       /\ ipcid_to_idx(seg[ids[n].ipcs_idr[i]].id) = i
  /\ \A n, m \in Namespaces : \A i \in DOMAIN ids[n].ipcs_idr, j \in DOMAIN ids[m].ipcs_idr :
       ids[n].ipcs_idr[i] = ids[m].ipcs_idr[j] => n = m

\* a key in use is the key of one segment of its namespace
KeyInv ==
  \A n \in Namespaces : \A i, j \in DOMAIN ids[n].ipcs_idr :
    /\ seg[ids[n].ipcs_idr[i]].key = seg[ids[n].ipcs_idr[j]].key
    /\ seg[ids[n].ipcs_idr[i]].key # IPC_PRIVATE
    => i = j

\* A segment found under RCU is not reused; as long as it is live it is where
\* it was found.
FoundInv(t) ==
  task[t].pc = "found" =>
    /\ seg[task[t].shp].mem # "free"
    /\ seg[task[t].shp].mem = "live" =>
         /\ ipcid_to_idx(task[t].shmid) \in DOMAIN ids[task[t].ns].ipcs_idr
         /\ shm_lock(task[t].ns, task[t].shmid) = task[t].shp

\* the sequence numbers count the segments made modulo SEQ_MAX + 1
SeqInv(n) ==
  /\ ids[n].seq = made[n] % (SEQ_MAX + 1)
  /\ \A i \in DOMAIN ids[n].ipcs_idr :
       /\ seg[ids[n].ipcs_idr[i]].made \in 1..made[n]
       /\ seg[ids[n].ipcs_idr[i]].id \div IPCMNI =
            (seg[ids[n].ipcs_idr[i]].made - 1) % (SEQ_MAX + 1)

\* An index holds no segment older than the one its identifier was returned for.
MeantInv(t) ==
  task[t].meant # 0 =>
    /\ task[t].meant \in 1..made[task[t].ns]
    /\ task[t].shmid \div IPCMNI = (task[t].meant - 1) % (SEQ_MAX + 1)
    /\ \A i \in DOMAIN ids[task[t].ns].ipcs_idr :
         i = ipcid_to_idx(task[t].shmid) => seg[ids[task[t].ns].ipcs_idr[i]].made >= task[t].meant

IInv == /\ NsInv /\ SegType /\ TableType /\ TableInv /\ KeyInv /\ ShmPinned /\ ShmAccounting
        /\ \A t \in Tasks : FoundInv(t) /\ MeantInv(t)
        /\ \A n \in Namespaces : SeqInv(n)

-----------------------------------------------------------------------------
(* References to namespaces *)

\* the processes in namespace n, with a descriptor of it, or using it in
\* another way; and the attach files of it
InNs(n) == {t \in Tasks : task[t].ns = n}

WithFd(n) == {t \in Tasks : task[t].nsfd = n}

WithPns(n) == {t \in Tasks : task[t].pns = n}

FilesIn(n) == {f \in Files : file[f].refs > 0 /\ file[f].ns = n}

One(b) == IF b THEN 1 ELSE 0

\* the references counted
Counted(n) == One(n = InitNs) + ns[n].mq + Cardinality(InNs(n)) + Cardinality(WithFd(n))
                + Cardinality(WithPns(n)) + Cardinality(FilesIn(n))

\* what the count of namespace n says about it
CountInv(n) == /\ ns[n].count = Counted(n)
               /\ (ns[n].count = 0) = (ns[n].life \notin {"new", "live"})
               /\ ns[n].sb => ns[n].life \in {"new", "live"}

WalkInv == \A w \in Notifiers : \A n \in walk[w] : ns[n].life \in {"live", "dying"}

\* the values of ns
NsRecs == [Namespaces -> [life : Lives, count : Nat, sb : BOOLEAN, mq : {0, 1}]]

\* the references of a process to namespace n
RefsTo(r, n) == One(r.ns = n) + One(r.nsfd = n) + One(r.pns = n)

FileRec == [ns : Namespaces \cup {NONE}, id : Nat, vmas : Nat, refs : Nat]

\* A non-empty set of naturals has a least element, the one that idr_get_new
\* and sysvipc_find_ipc take.
LEMMA LeastIndex ==
  ASSUME NEW T \in SUBSET Nat, T # {}
  PROVE  Min(T) \in T /\ \A y \in T : Min(T) <= y
<1>1. PICK x \in T : \A y \in T : ~ (<<y, x>> \in OpToRel(<, Nat))
  BY NatLessThanWellFounded, WFMin
<1>2. ASSUME NEW y \in T, y < x PROVE FALSE
  <2>1. <<y, x>> \in Nat \X Nat /\ <<y, x>>[1] < <<y, x>>[2]
    BY <1>2
  <2>2. <<y, x>> \in {ss \in Nat \X Nat : ss[1] < ss[2]}
    BY <2>1, Zenon
  <2>3. <<y, x>> \in OpToRel(<, Nat)
    BY <2>2, Zenon DEF OpToRel
  <2> QED BY <1>1, <2>3
<1>3. \E z \in T : \A y \in T : z =< y
  BY <1>2, SMTT(30)
<1> QED BY <1>3 DEF Min

\* Two finite sets that differ in one element at most.
LEMMA OneChanged ==
  ASSUME NEW A, NEW B, NEW x, IsFiniteSet(A), A \ {x} = B \ {x}
  PROVE  /\ IsFiniteSet(B) /\ Cardinality(A) \in Nat /\ Cardinality(B) \in Nat
         /\ Cardinality(B) = Cardinality(A) + One(x \in B) - One(x \in A)
<1> DEFINE C == A \ {x}
<1>1. IsFiniteSet(C) /\ Cardinality(C) = Cardinality(A) - One(x \in A) /\ Cardinality(A) \in Nat
  BY FS_RemoveElement, FS_CardinalityType, SMTT(30) DEF One
<1>2. CASE x \in B
  <2>1. B = C \cup {x} /\ x \notin C
    BY <1>2
  <2> QED BY <1>1, <1>2, <2>1, FS_AddElement, FS_CardinalityType, SMTT(30) DEF One
<1>3. CASE x \notin B
  <2>1. B = C
    BY <1>3
  <2> QED BY <1>1, <1>3, <2>1, FS_CardinalityType, SMTT(30) DEF One
<1> QED BY <1>2, <1>3

\* NsReachable in these terms.
LEMMA ReachableIs == NsReachable <=> (\A n \in Namespaces : CountInv(n)) /\ WalkInv
  BY DEF NsReachable, CountInv, Counted, WalkInv, InNs, WithFd, WithPns, FilesIn, One

\* Any step that leaves the count of every namespace equal to its references,
\* and reaches no namespace it could not.
LEMMA ReachableFrame ==
  ASSUME \A n \in Namespaces : CountInv(n)', WalkInv' PROVE NsReachable'
<1>1. NsReachable' <=> ((\A n \in Namespaces : CountInv(n)) /\ WalkInv)'
  BY ReachableIs, PTL
<1> QED BY <1>1

\* Who refers to a namespace keeps its count above zero, so that it lives.
LEMMA Referenced ==
  ASSUME NsInv
  PROVE  /\ \A t \in Tasks : ns[task[t].ns].count > 0
         /\ \A t \in Tasks : task[t].nsfd # NONE => ns[task[t].nsfd].count > 0
         /\ \A t \in Tasks : task[t].pns # NONE => ns[task[t].pns].count > 0
         /\ \A t \in Tasks : task[t].nsfd = task[t].ns => ns[task[t].ns].count > 1
         /\ \A f \in Files : file[f].refs > 0 => ns[file[f].ns].count > 0
<1>0. NsType /\ TaskType /\ FileType /\ CallInv /\ \A n \in Namespaces : CountInv(n)
  BY ReachableIs DEF NsInv
<1>1. \A n : /\ IsFiniteSet(InNs(n)) /\ IsFiniteSet(WithFd(n)) /\ IsFiniteSet(WithPns(n))
             /\ IsFiniteSet(FilesIn(n))
  BY ShmAssumption, FS_Subset DEF InNs, WithFd, WithPns, FilesIn
<1>2. \A n : /\ Cardinality(InNs(n)) \in Nat /\ Cardinality(WithFd(n)) \in Nat
             /\ Cardinality(WithPns(n)) \in Nat /\ Cardinality(FilesIn(n)) \in Nat
             /\ InNs(n) # {} => Cardinality(InNs(n)) > 0
             /\ WithFd(n) # {} => Cardinality(WithFd(n)) > 0
             /\ WithPns(n) # {} => Cardinality(WithPns(n)) > 0
             /\ FilesIn(n) # {} => Cardinality(FilesIn(n)) > 0
  BY <1>1, FS_CardinalityType, FS_EmptySet, SMTT(30)
<1>3. \A n \in Namespaces :
        /\ ns[n].mq \in Nat /\ One(n = InitNs) \in Nat
        /\ ns[n].count = One(n = InitNs) + ns[n].mq + Cardinality(InNs(n)) + Cardinality(WithFd(n))
                           + Cardinality(WithPns(n)) + Cardinality(FilesIn(n))
  BY <1>0, SMTT(30) DEF NsType, CountInv, Counted, One
<1>4. ASSUME NEW t \in Tasks
      PROVE  /\ ns[task[t].ns].count > 0
             /\ task[t].nsfd # NONE => ns[task[t].nsfd].count > 0
             /\ task[t].pns # NONE => ns[task[t].pns].count > 0
             /\ task[t].nsfd = task[t].ns => ns[task[t].ns].count > 1
  <2>1. /\ task[t].ns \in Namespaces /\ task[t].nsfd \in Namespaces \cup {NONE}
        /\ task[t].pns \in Namespaces \cup {NONE}
    BY <1>0 DEF TaskType, TaskRec
  <2>2. InNs(task[t].ns) # {} /\ WithFd(task[t].nsfd) # {} /\ WithPns(task[t].pns) # {}
    BY DEF InNs, WithFd, WithPns
  <2>3. ns[task[t].ns].count > 0
    BY <1>2, <1>3, <2>1, <2>2, SMTT(30)
  <2>4. task[t].nsfd # NONE => ns[task[t].nsfd].count > 0
    BY <1>2, <1>3, <2>1, <2>2, SMTT(30)
  <2>5. task[t].pns # NONE => ns[task[t].pns].count > 0
    BY <1>2, <1>3, <2>1, <2>2, SMTT(30)
  <2>6. task[t].nsfd = task[t].ns => ns[task[t].ns].count > 1
    BY <1>2, <1>3, <2>1, <2>2, SMTT(30)
  <2> QED BY <2>3, <2>4, <2>5, <2>6
<1>5. ASSUME NEW f \in Files, file[f].refs > 0 PROVE ns[file[f].ns].count > 0
  <2>1. file[f].ns \in Namespaces
    BY <1>0, <1>5 DEF CallInv
  <2>2. f \in FilesIn(file[f].ns)
    BY <1>5 DEF FilesIn
  <2> QED BY <1>2, <1>3, <2>1, <2>2, SMTT(30)
<1> QED BY <1>4, <1>5

\* the table of a namespace holds segments, in_use of them
LEMMA TableFacts ==
  ASSUME IInv, NEW n \in Namespaces
  PROVE  /\ DOMAIN ids[n].ipcs_idr \subseteq Indexes /\ IsFiniteSet(DOMAIN ids[n].ipcs_idr)
         /\ \A i \in DOMAIN ids[n].ipcs_idr : ids[n].ipcs_idr[i] \in Segs
         /\ ids[n].in_use = Cardinality(DOMAIN ids[n].ipcs_idr)
         /\ ids[n].seq \in Nat /\ made[n] \in Nat
<1>1. TableType /\ ShmAccounting
  BY DEF IInv
<1>2. PICK D \in SUBSET Indexes : ids[n].ipcs_idr \in [D -> Segs]
  <2>1. ids[n] \in [ipcs_idr : UNION {[E -> Segs] : E \in SUBSET Indexes}, in_use : Nat, seq : 0..SEQ_MAX]
    BY <1>1 DEF TableType
  <2>2. ids[n].ipcs_idr \in UNION {[E -> Segs] : E \in SUBSET Indexes}
    BY <2>1, SMTT(30)
  <2> QED BY <2>2
<1>3. IsFiniteSet(Indexes)
  BY ShmAssumption, FS_Interval, SMTT(30) DEF Indexes
<1>4. IsFiniteSet(D) /\ DOMAIN ids[n].ipcs_idr = D
  BY <1>2, <1>3, FS_Subset
<1>5. ids[n].seq \in Nat /\ made[n] \in Nat
  BY <1>1, ShmAssumption, SMTT(30) DEF TableType
<1>6. ids[n].in_use = Cardinality(DOMAIN ids[n].ipcs_idr)
  BY <1>1 DEF ShmAccounting
<1> QED BY <1>2, <1>4, <1>5, <1>6

\* idr_get_new finds an index as long as ipc_addid accepts a segment.
LEMMA FreeIndex ==
  ASSUME IInv, NEW n \in Namespaces, ipc_addid_ok(ids[n], shm_ctlmni)
  PROVE  /\ idr_get_new(ids[n].ipcs_idr) \in Indexes \ DOMAIN ids[n].ipcs_idr
         /\ NewId(ids[n]) \in Nat
<1> DEFINE D == DOMAIN ids[n].ipcs_idr
<1>1. D \subseteq Indexes /\ ids[n].in_use = Cardinality(D) /\ ids[n].seq \in Nat
  BY TableFacts
<1>2. IsFiniteSet(Indexes) /\ Cardinality(Indexes) = IPCMNI
  BY ShmAssumption, FS_Interval, SMTT(30) DEF Indexes
<1>3. Cardinality(D) < IPCMNI
  <2>1. IPCMNI \in Nat /\ shm_ctlmni \in Nat /\ Cardinality(D) \in Nat
    BY <1>1, <1>2, ShmAssumption, FS_Subset, FS_CardinalityType
  <2> QED BY <1>1, <2>1, SMTT(30) DEF ipc_addid_ok
<1>4. D # Indexes
  <2>1. IPCMNI \in Nat
    BY ShmAssumption
  <2> HIDE DEF D
  <2> QED BY <1>2, <1>3, <2>1, SMTT(30)
<1>5. (Indexes \ D) # {} /\ Indexes \ D \in SUBSET Nat
  <2>1. Indexes \subseteq Nat
    BY ShmAssumption, SMTT(30) DEF Indexes
  <2> HIDE DEF D
  <2> QED BY <1>1, <1>4, <2>1
<1>6. Min(Indexes \ D) \in Indexes \ D
  BY <1>5, LeastIndex
<1>7. idr_get_new(ids[n].ipcs_idr) = Min(Indexes \ D)
  BY DEF idr_get_new, Indexes
<1>8. Min(Indexes \ D) \in Nat
  BY <1>5, <1>6
<1> HIDE DEF D
<1>9. NewId(ids[n]) \in Nat
  BY <1>1, <1>7, <1>8, ShmAssumption, SMTT(30) DEF NewId, ipc_buildid
<1> QED BY <1>6, <1>7, <1>9 DEF D

\* sysvipc_find_ipc returns an entry of the table, or none.
LEMMA FindIpcStep ==
  ASSUME IInv, NEW t \in Tasks, NEW n \in Namespaces, FindIpc(t, n, task[t].pos)
  PROVE  \E s \in Segs \cup {NONE}, p \in Nat :
           task' = [task EXCEPT ![t] = [@ EXCEPT !.pc = "reading", !.shp = s, !.pos = p]]
<1> DEFINE D == DOMAIN ids[n].ipcs_idr
           pos == task[t].pos
           low == {i \in D : i < pos}
<1>1. task[t] \in TaskRec /\ task \in [Tasks -> TaskRec] /\ pos \in Nat
  BY DEF IInv, NsInv, TaskType, TaskRec
<1>2. /\ D \subseteq Indexes /\ IsFiniteSet(D) /\ \A i \in D : ids[n].ipcs_idr[i] \in Segs
      /\ ids[n].in_use = Cardinality(D)
  BY TableFacts
<1>3. D \subseteq Nat
  BY <1>2, ShmAssumption, SMTT(30) DEF Indexes
<1>4. CASE Cardinality(low) >= ids[n].in_use
  <2>1. task' = [task EXCEPT ![t].pc = "reading", ![t].shp = NONE]
    BY <1>4 DEF FindIpc
  <2>2. task' = [task EXCEPT ![t] = [@ EXCEPT !.pc = "reading", !.shp = NONE, !.pos = pos]]
    BY <1>1, <2>1 DEF TaskRec
  <2> QED BY <1>1, <2>2
<1>5. CASE ~(Cardinality(low) >= ids[n].in_use)
  <2> DEFINE i == Min(Entries(n, pos))
  <2>1. task' = [task EXCEPT ![t].pc = "reading", ![t].shp = ids[n].ipcs_idr[i], ![t].pos = i + 1]
    BY <1>5 DEF FindIpc
  <2>2. Entries(n, pos) # {} /\ Entries(n, pos) \in SUBSET Nat
    <3>1. CASE Entries(n, pos) = {}
      <4>1. low = D
        BY <1>1, <1>3, <3>1, SMTT(30) DEF Entries
      <4>2. Cardinality(D) \in Nat
        BY <1>2, FS_CardinalityType
      <4> HIDE DEF D, low
      <4> QED BY <1>2, <1>5, <4>1, <4>2, SMTT(30)
    <3> QED BY <1>3, <3>1 DEF Entries
  <2>3. i \in Entries(n, pos)
    BY <2>2, LeastIndex
  <2>4. i \in Nat /\ ids[n].ipcs_idr[i] \in Segs
    BY <1>2, <2>2, <2>3 DEF Entries
  <2> HIDE DEF i
  <2>5. task' = [task EXCEPT ![t] = [@ EXCEPT !.pc = "reading", !.shp = ids[n].ipcs_idr[i], !.pos = i + 1]]
    BY <1>1, <2>1 DEF TaskRec
  <2>6. i + 1 \in Nat
    BY <2>4, SMTT(30)
  <2> QED BY <2>4, <2>5, <2>6, Zenon
<1> QED BY <1>4, <1>5

\* Whoever works on a file counts in its references.
LEMMA HolderCounts ==
  ASSUME NsInv, NEW t \in Tasks, task[t].file \in Files
  PROVE  Holders(task[t].file) > 0 /\ file[task[t].file].refs > 0
<1> DEFINE f == task[t].file
           H == {u \in Tasks : task[u].file = f}
<1>1. IsFiniteSet(H) /\ t \in H
  BY ShmAssumption, FS_Subset
<1>2. Cardinality(H) > 0 /\ Cardinality(H) \in Nat
  BY <1>1, FS_CardinalityType, FS_EmptySet, SMTT(30)
<1>3. Holders(f) = Cardinality(H)
  BY DEF Holders
<1>4. file[f].refs >= file[f].vmas + Holders(f) /\ file[f].refs \in Nat /\ file[f].vmas \in Nat
  BY DEF NsInv, CallInv, FileType
<1> HIDE DEF H
<1> QED BY <1>2, <1>3, <1>4, SMTT(30)

-----------------------------------------------------------------------------
(* The references are kept by every step *)

\* Every step keeps the references of the namespaces counted.
LEMMA NsInvStep == IInv /\ [Next]_vars => NsInv'
\* A step that changes one process moves its references only.
<1>TaskCounts.
    ASSUME NEW t \in Tasks, \A u \in Tasks : u # t => task'[u] = task[u]
    PROVE  \A n :
      /\ Cardinality(InNs(n)) \in Nat /\ Cardinality(InNs(n))' \in Nat
      /\ Cardinality(WithFd(n)) \in Nat /\ Cardinality(WithFd(n))' \in Nat
      /\ Cardinality(WithPns(n)) \in Nat /\ Cardinality(WithPns(n))' \in Nat
      /\ Cardinality(InNs(n))' = Cardinality(InNs(n)) + One(task'[t].ns = n) - One(task[t].ns = n)
      /\ Cardinality(WithFd(n))' =
           Cardinality(WithFd(n)) + One(task'[t].nsfd = n) - One(task[t].nsfd = n)
      /\ Cardinality(WithPns(n))' =
           Cardinality(WithPns(n)) + One(task'[t].pns = n) - One(task[t].pns = n)
  <2> USE <1>TaskCounts
  <2> TAKE n
  <2>0. IsFiniteSet(InNs(n)) /\ IsFiniteSet(WithFd(n)) /\ IsFiniteSet(WithPns(n))
    BY ShmAssumption, FS_Subset DEF InNs, WithFd, WithPns
  <2>1. InNs(n) \ {t} = InNs(n)' \ {t} /\ (t \in InNs(n) <=> task[t].ns = n)
        /\ (t \in InNs(n)' <=> task'[t].ns = n)
    BY DEF InNs
  <2>2. WithFd(n) \ {t} = WithFd(n)' \ {t} /\ (t \in WithFd(n) <=> task[t].nsfd = n)
        /\ (t \in WithFd(n)' <=> task'[t].nsfd = n)
    BY DEF WithFd
  <2>3. WithPns(n) \ {t} = WithPns(n)' \ {t} /\ (t \in WithPns(n) <=> task[t].pns = n)
        /\ (t \in WithPns(n)' <=> task'[t].pns = n)
    BY DEF WithPns
  <2>4. /\ Cardinality(InNs(n)) \in Nat /\ Cardinality(InNs(n))' \in Nat
        /\ Cardinality(InNs(n))' = Cardinality(InNs(n)) + One(task'[t].ns = n) - One(task[t].ns = n)
    BY <2>0, <2>1, OneChanged, SMTT(30) DEF One
  <2>5. /\ Cardinality(WithFd(n)) \in Nat /\ Cardinality(WithFd(n))' \in Nat
        /\ Cardinality(WithFd(n))' =
             Cardinality(WithFd(n)) + One(task'[t].nsfd = n) - One(task[t].nsfd = n)
    BY <2>0, <2>2, OneChanged, SMTT(30) DEF One
  <2>6. /\ Cardinality(WithPns(n)) \in Nat /\ Cardinality(WithPns(n))' \in Nat
        /\ Cardinality(WithPns(n))' =
             Cardinality(WithPns(n)) + One(task'[t].pns = n) - One(task[t].pns = n)
    BY <2>0, <2>3, OneChanged, SMTT(30) DEF One
  <2> QED BY <2>4, <2>5, <2>6
\* The same for a step that changes one attach file.
<1>FileCounts.
    ASSUME NEW f \in Files, \A g \in Files : g # f => file'[g] = file[g]
    PROVE  \A n :
      /\ Cardinality(FilesIn(n)) \in Nat /\ Cardinality(FilesIn(n))' \in Nat
      /\ Cardinality(FilesIn(n))' = Cardinality(FilesIn(n))
           + One(file'[f].refs > 0 /\ file'[f].ns = n) - One(file[f].refs > 0 /\ file[f].ns = n)
  <2> USE <1>FileCounts
  <2> TAKE n
  <2>0. IsFiniteSet(FilesIn(n))
    BY ShmAssumption, FS_Subset DEF FilesIn
  <2>1. FilesIn(n) \ {f} = FilesIn(n)' \ {f}
        /\ (f \in FilesIn(n) <=> file[f].refs > 0 /\ file[f].ns = n)
        /\ (f \in FilesIn(n)' <=> file'[f].refs > 0 /\ file'[f].ns = n)
    BY DEF FilesIn
  <2> QED BY <2>0, <2>1, OneChanged, SMTT(30) DEF One
\* do_shmat's references to a file follow the process that makes the call.
<1>HoldersStep.
    ASSUME NEW t \in Tasks, \A u \in Tasks : u # t => task'[u] = task[u]
    PROVE  \A f : /\ Holders(f) \in Nat /\ Holders(f)' \in Nat
                  /\ Holders(f)' = Holders(f) + One(task'[t].file = f) - One(task[t].file = f)
  <2> USE <1>HoldersStep
  <2> TAKE f
  <2> DEFINE H == {u \in Tasks : task[u].file = f}
  <2>1. H \ {t} = H' \ {t} /\ (t \in H <=> task[t].file = f) /\ (t \in H' <=> task'[t].file = f)
    OBVIOUS
  <2>2. IsFiniteSet(H)
    BY ShmAssumption, FS_Subset
  <2> HIDE DEF H
  <2>3. /\ Cardinality(H) \in Nat /\ Cardinality(H') \in Nat
        /\ Cardinality(H') = Cardinality(H) + One(t \in H') - One(t \in H)
    BY <2>1, <2>2, OneChanged, SMTT(30)
  <2>4. One(t \in H') = One(task'[t].file = f) /\ One(t \in H) = One(task[t].file = f)
    BY <2>1 DEF One
  <2>5. Holders(f) = Cardinality(H) /\ Holders(f)' = Cardinality(H')
    BY DEF Holders, H
  <2> QED BY <2>3, <2>4, <2>5
\* A step of one process that leaves the files alone.
<1>CallStep.
    ASSUME NsInv, NEW t \in Tasks, NEW r \in TaskRec, task' = [task EXCEPT ![t] = r],
           UNCHANGED file, LocalsOK(r), r.file = task[t].file
    PROVE  /\ TaskType' /\ FileType' /\ CallInv' /\ task'[t] = r
           /\ \A u \in Tasks : u # t => task'[u] = task[u]
  <2> USE <1>CallStep
  <2>0. TaskType /\ FileType /\ CallInv
    BY DEF NsInv
  <2>1. TaskType' /\ task'[t] = r /\ \A u \in Tasks : u # t => task'[u] = task[u]
    BY <2>0 DEF TaskType
  <2>2. FileType'
    BY <2>0 DEF FileType
  <2>3. \A u \in Tasks : LocalsOK(task[u])'
    BY <2>0, <2>1, SMTT(30) DEF CallInv, LocalsOK
  <2>4. \A f \in Files : Holders(f)' = Holders(f)
    BY <2>1, <1>HoldersStep, SMTT(30) DEF One
  <2>5. CallInv'
    BY <2>0, <2>3, <2>4 DEF CallInv
  <2> QED BY <2>1, <2>2, <2>5
\* A step of one process that touches no reference of a namespace or a file.
<1>LocalStep.
    ASSUME NsInv, NEW t \in Tasks, NEW r \in TaskRec, task' = [task EXCEPT ![t] = r],
           UNCHANGED <<nsVars, file>>, LocalsOK(r),
           r.ns = task[t].ns, r.nsfd = task[t].nsfd, r.pns = task[t].pns, r.file = task[t].file
    PROVE  NsInv'
  <2> USE <1>LocalStep
  <2>1. NsType /\ ChainInv /\ (\A n \in Namespaces : CountInv(n)) /\ WalkInv
    BY ReachableIs DEF NsInv
  <2>2. UNCHANGED <<ns, chain, walk>>
    BY DEF nsVars
  <2>3. NsType' /\ ChainInv' /\ WalkInv'
    BY <2>1, <2>2 DEF NsType, ChainInv, WalkInv
  <2>4. TaskType' /\ FileType' /\ CallInv'
    BY <1>CallStep
  <2>5. task'[t] = r /\ \A u \in Tasks : u # t => task'[u] = task[u]
    BY <1>CallStep
  <2>6. ASSUME NEW n \in Namespaces PROVE CountInv(n)'
    <3>1. /\ Cardinality(InNs(n))' = Cardinality(InNs(n)) /\ Cardinality(WithFd(n))' = Cardinality(WithFd(n))
          /\ Cardinality(WithPns(n))' = Cardinality(WithPns(n))
      BY <2>5, <1>TaskCounts, SMTT(30) DEF One
    <3>2. Cardinality(FilesIn(n))' = Cardinality(FilesIn(n))
      BY DEF FilesIn
    <3> QED BY <2>1, <2>2, <3>1, <3>2 DEF CountInv, Counted
  <2> QED BY <2>3, <2>4, <2>6, ReachableFrame DEF NsInv
\* The references after a step of process t that leaves the files alone.
<1>CountedTask.
    ASSUME NEW t \in Tasks, \A u \in Tasks : u # t => task'[u] = task[u], UNCHANGED file,
           NEW n \in Namespaces, ns'[n].mq = ns[n].mq, ns[n].mq \in Nat
    PROVE  /\ Counted(n) \in Nat /\ Counted(n)' \in Nat
           /\ Counted(n)' = Counted(n) + One(task'[t].ns = n) - One(task[t].ns = n)
                              + One(task'[t].nsfd = n) - One(task[t].nsfd = n)
                              + One(task'[t].pns = n) - One(task[t].pns = n)
  <2>1. /\ FilesIn(n)' = FilesIn(n) /\ IsFiniteSet(FilesIn(n))
    BY <1>CountedTask, ShmAssumption, FS_Subset DEF FilesIn
  <2>2. Cardinality(FilesIn(n)) \in Nat /\ Cardinality(FilesIn(n))' = Cardinality(FilesIn(n))
    BY <2>1, FS_CardinalityType
  <2> DEFINE a == One(task[t].ns = n)
             b == One(task[t].nsfd = n)
             c == One(task[t].pns = n)
             d == One(n = InitNs)
  <2>3. /\ a \in Nat /\ b \in Nat /\ c \in Nat /\ d \in Nat
        /\ a' \in Nat /\ b' \in Nat /\ c' \in Nat /\ d' = d
    BY SMTT(30) DEF One
  <2>4. /\ Cardinality(InNs(n)) \in Nat /\ Cardinality(InNs(n))' \in Nat
        /\ Cardinality(InNs(n))' = Cardinality(InNs(n)) + a' - a
        /\ Cardinality(WithFd(n)) \in Nat /\ Cardinality(WithFd(n))' \in Nat
        /\ Cardinality(WithFd(n))' = Cardinality(WithFd(n)) + b' - b
        /\ Cardinality(WithPns(n)) \in Nat /\ Cardinality(WithPns(n))' \in Nat
        /\ Cardinality(WithPns(n))' = Cardinality(WithPns(n)) + c' - c
    BY <1>CountedTask, <1>TaskCounts, SMTT(30)
  <2> DEFINE mq == ns[n].mq
             in == Cardinality(InNs(n))
             fd == Cardinality(WithFd(n))
             pn == Cardinality(WithPns(n))
             fi == Cardinality(FilesIn(n))
  <2>5. Counted(n) = d + mq + in + fd + pn + fi /\ Counted(n)' = d' + mq' + in' + fd' + pn' + fi'
    BY DEF Counted
  <2>6. /\ mq \in Nat /\ mq' = mq /\ fi \in Nat /\ fi' = fi
        /\ in \in Nat /\ in' \in Nat /\ in' = in + a' - a
        /\ fd \in Nat /\ fd' \in Nat /\ fd' = fd + b' - b
        /\ pn \in Nat /\ pn' \in Nat /\ pn' = pn + c' - c
    BY <1>CountedTask, <2>2, <2>4
  <2> HIDE DEF a, b, c, d, mq, in, fd, pn, fi
  <2>7. PICK A \in Nat, A1 \in Nat, B \in Nat, B1 \in Nat, C \in Nat, C1 \in Nat :
          A = a /\ A1 = a' /\ B = b /\ B1 = b' /\ C = c /\ C1 = c'
    BY <2>3
  <2>8. PICK D \in Nat, I \in Nat, I1 \in Nat, F \in Nat, F1 \in Nat, P \in Nat, P1 \in Nat, K \in Nat :
          D = d + mq /\ I = in /\ I1 = in' /\ F = fd /\ F1 = fd' /\ P = pn /\ P1 = pn' /\ K = fi
    <3>1. d + mq \in Nat
      BY <2>3, <2>6, SMTT(30)
    <3> QED BY <2>6, <3>1
  <2>9. I1 = I + A1 - A /\ F1 = F + B1 - B /\ P1 = P + C1 - C
    BY <2>6, <2>7, <2>8
  <2>10. /\ D + I + F + P + K \in Nat /\ D + I1 + F1 + P1 + K \in Nat
         /\ D + I1 + F1 + P1 + K = (D + I + F + P + K) + A1 - A + B1 - B + C1 - C
    BY <2>9, SMTT(30)
  <2>11. Counted(n) = D + I + F + P + K /\ Counted(n)' = D + I1 + F1 + P1 + K
    BY <2>3, <2>5, <2>6, <2>8
  <2> QED BY <2>7, <2>10, <2>11 DEF a, b, c
\* The same for a step that changes one attach file, and no process in what
\* it refers to.
<1>CountedFile.
    ASSUME NEW f \in Files, \A g \in Files : g # f => file'[g] = file[g],
           \A u \in Tasks : /\ task'[u].ns = task[u].ns /\ task'[u].nsfd = task[u].nsfd
                            /\ task'[u].pns = task[u].pns,
           NEW n \in Namespaces, ns'[n].mq = ns[n].mq, ns[n].mq \in Nat
    PROVE  /\ Counted(n) \in Nat /\ Counted(n)' \in Nat
           /\ Counted(n)' = Counted(n) + One(file'[f].refs > 0 /\ file'[f].ns = n)
                                       - One(file[f].refs > 0 /\ file[f].ns = n)
  <2> USE <1>CountedFile
  <2>1. /\ InNs(n)' = InNs(n) /\ WithFd(n)' = WithFd(n) /\ WithPns(n)' = WithPns(n)
        /\ IsFiniteSet(InNs(n)) /\ IsFiniteSet(WithFd(n)) /\ IsFiniteSet(WithPns(n))
    BY ShmAssumption, FS_Subset DEF InNs, WithFd, WithPns
  <2>2. /\ Cardinality(InNs(n)) \in Nat /\ Cardinality(InNs(n))' = Cardinality(InNs(n))
        /\ Cardinality(WithFd(n)) \in Nat /\ Cardinality(WithFd(n))' = Cardinality(WithFd(n))
        /\ Cardinality(WithPns(n)) \in Nat /\ Cardinality(WithPns(n))' = Cardinality(WithPns(n))
    BY <2>1, FS_CardinalityType
  <2> QED BY <2>2, <1>FileCounts, SMTT(30) DEF Counted, One
\* get_ipc_ns adds a reference.
<1>GetValue.
    ASSUME NEW f \in NsRecs, NEW m \in Namespaces
    PROVE  /\ get_ipc_ns(f, m) \in NsRecs
           /\ \A n \in Namespaces : n # m => get_ipc_ns(f, m)[n] = f[n]
           /\ get_ipc_ns(f, m)[m].count = f[m].count + 1
           /\ get_ipc_ns(f, m)[m].life = f[m].life
           /\ get_ipc_ns(f, m)[m].sb = f[m].sb
           /\ get_ipc_ns(f, m)[m].mq = f[m].mq
  BY <1>GetValue, SMTT(30) DEF get_ipc_ns, NsRecs
\* put_ipc_ns drops one; without the last one the namespace dies and loses its
\* superblock.
<1>PutValue.
    ASSUME NEW f \in NsRecs, NEW m \in Namespaces, f[m].count > 0
    PROVE  /\ put_ipc_ns(f, m) \in NsRecs
           /\ \A n \in Namespaces : n # m => put_ipc_ns(f, m)[n] = f[n]
           /\ put_ipc_ns(f, m)[m].count = f[m].count - 1
           /\ put_ipc_ns(f, m)[m].life = IF f[m].count = 1 THEN "dying" ELSE f[m].life
           /\ put_ipc_ns(f, m)[m].sb => f[m].count # 1 /\ f[m].sb
           /\ put_ipc_ns(f, m)[m].mq = f[m].mq
  <2> USE <1>PutValue
  <2> DEFINE L == IF f[m].count = 1 THEN "dying" ELSE f[m].life
             S == IF f[m].count = 1 THEN FALSE ELSE f[m].sb
             c == f[m].count - 1
             r == [f[m] EXCEPT !.count = c, !.life = L, !.sb = S]
  <2>1. f[m] \in [life : Lives, count : Nat, sb : BOOLEAN, mq : {0, 1}]
    BY DEF NsRecs
  <2>2. "dying" \in Lives
    BY DEF Lives
  <2>3. f[m].life \in Lives /\ f[m].sb \in BOOLEAN /\ f[m].count \in Nat
    BY <2>1
  <2>4. L \in Lives
    BY <2>2, <2>3
  <2>5. S \in BOOLEAN
    BY <2>3, Zenon
  <2>6. c \in Nat
    BY <2>3, SMTT(30)
  <2>7. put_ipc_ns(f, m) = [f EXCEPT ![m] = r]
    BY DEF put_ipc_ns, NsRecs
  <2> HIDE DEF L, S, c
  <2>8. r \in [life : Lives, count : Nat, sb : BOOLEAN, mq : {0, 1}]
    BY <2>1, <2>4, <2>5, <2>6
  <2>9. r.count = c /\ r.life = L /\ r.sb = S /\ r.mq = f[m].mq
    BY <2>1
  <2> HIDE DEF r
  <2>10. /\ put_ipc_ns(f, m) \in NsRecs /\ put_ipc_ns(f, m)[m] = r
         /\ \A n \in Namespaces : n # m => put_ipc_ns(f, m)[n] = f[n]
    BY <2>7, <2>8 DEF NsRecs
  <2> QED BY <2>9, <2>10 DEF c, L, S
\* get_ipc_ns of a namespace in use, and one reference more.
<1>GetKeeps.
    ASSUME NsType, ChainInv, WalkInv, \A n \in Namespaces : CountInv(n), NEW m \in Namespaces,
           ns[m].count > 0, ns' = get_ipc_ns(ns, m), UNCHANGED <<chain, walk>>
    PROVE  /\ NsType' /\ ChainInv' /\ WalkInv'
           /\ \A n \in Namespaces :
                /\ ns'[n].mq = ns[n].mq /\ ns[n].mq \in Nat
                /\ Counted(n)' = Counted(n) + One(n = m) => CountInv(n)'
  <2> USE <1>GetKeeps
  <2>1. ns \in NsRecs /\ ns' \in NsRecs
    BY <1>GetValue DEF NsType, NsRecs
  <2>2. NsType'
    BY <2>1 DEF NsType, NsRecs
  <2>3. ASSUME NEW n \in Namespaces
        PROVE  /\ ns'[n].life = ns[n].life /\ ns'[n].sb = ns[n].sb /\ ns'[n].mq = ns[n].mq
               /\ ns'[n].count = ns[n].count + One(n = m)
               /\ ns[n].count \in Nat /\ ns[n].mq \in Nat
    BY <2>1, <1>GetValue, SMTT(30) DEF NsRecs, One
  <2>4. ChainInv' /\ WalkInv'
    BY <2>3 DEF ChainInv, WalkInv, NsType
  <2>5. ASSUME NEW n \in Namespaces, Counted(n)' = Counted(n) + One(n = m) PROVE CountInv(n)'
    BY <2>3, <2>5, SMTT(30) DEF CountInv, One
  <2> QED BY <2>2, <2>3, <2>4, <2>5
\* put_ipc_ns, and one reference less.
<1>PutKeeps.
    ASSUME NsType, ChainInv, WalkInv, \A n \in Namespaces : CountInv(n), NEW m \in Namespaces,
           ns[m].count > 0, ns' = put_ipc_ns(ns, m), UNCHANGED <<chain, walk>>
    PROVE  /\ NsType' /\ ChainInv' /\ WalkInv'
           /\ \A n \in Namespaces :
                /\ ns'[n].mq = ns[n].mq /\ ns[n].mq \in Nat
                /\ Counted(n)' = Counted(n) - One(n = m) => CountInv(n)'
  <2> USE <1>PutKeeps
  <2>1. ns \in NsRecs /\ ns' \in NsRecs
    BY <1>PutValue DEF NsType, NsRecs
  <2>2. NsType'
    BY <2>1 DEF NsType, NsRecs
  <2>3. \A n \in Namespaces : ns[n].count \in Nat /\ ns[n].mq \in Nat
    BY SMTT(30) DEF NsType
  <2>4. /\ \A n \in Namespaces : n # m => ns'[n] = ns[n]
        /\ ns'[m].mq = ns[m].mq /\ ns'[m].count = ns[m].count - 1
        /\ ns'[m].life = IF ns[m].count = 1 THEN "dying" ELSE ns[m].life
        /\ ns'[m].sb => ns[m].count # 1 /\ ns[m].sb
    BY <2>1, <1>PutValue
  <2>5. ChainInv' /\ WalkInv'
    BY <2>4 DEF ChainInv, WalkInv, NsType
  <2>6. ASSUME NEW n \in Namespaces, Counted(n)' = Counted(n) - One(n = m) PROVE CountInv(n)'
    <3>1. CASE n # m
      BY <2>3, <2>4, <2>6, <3>1, SMTT(30) DEF CountInv, One
    <3>2. CASE n = m
      BY <2>3, <2>4, <2>6, <3>2, SMTT(30) DEF CountInv, One
    <3> QED BY <3>1, <3>2
  <2>7. ASSUME NEW n \in Namespaces PROVE ns'[n].mq = ns[n].mq /\ ns[n].mq \in Nat
    BY <2>3, <2>4
  <2> QED BY <2>2, <2>5, <2>6, <2>7
\* A step of process t that takes one reference more, of a namespace in use.
<1>GetStep.
    ASSUME NsInv, NEW t \in Tasks, NEW r \in TaskRec, task' = [task EXCEPT ![t] = r],
           UNCHANGED <<file, chain, walk>>, LocalsOK(r), r.file = task[t].file,
           NEW m \in Namespaces, ns[m].count > 0, ns' = get_ipc_ns(ns, m),
           \A n \in Namespaces : RefsTo(r, n) = RefsTo(task[t], n) + One(n = m)
    PROVE  NsInv'
  <2> USE <1>GetStep
  <2>1. NsType /\ ChainInv /\ (\A n \in Namespaces : CountInv(n)) /\ WalkInv
    BY ReachableIs DEF NsInv
  <2>2. TaskType' /\ FileType' /\ CallInv'
    BY <1>CallStep
  <2>3. task'[t] = r /\ \A u \in Tasks : u # t => task'[u] = task[u]
    BY <1>CallStep
  <2>4. NsType' /\ ChainInv' /\ WalkInv' /\ \A n \in Namespaces :
          /\ ns'[n].mq = ns[n].mq /\ ns[n].mq \in Nat
          /\ Counted(n)' = Counted(n) + One(n = m) => CountInv(n)'
    BY <2>1, <1>GetKeeps
  <2>5. ASSUME NEW n \in Namespaces PROVE CountInv(n)'
    <3>1. Counted(n)' = Counted(n) + One(n = m)
      BY <2>3, <2>4, <1>CountedTask, SMTT(30) DEF One, RefsTo
    <3> QED BY <2>4, <3>1
  <2> QED BY <2>2, <2>4, <2>5, ReachableFrame DEF NsInv
\* A step of process t that puts one of its references.
<1>PutStep.
    ASSUME NsInv, NEW t \in Tasks, NEW r \in TaskRec, task' = [task EXCEPT ![t] = r],
           UNCHANGED <<file, chain, walk>>, LocalsOK(r), r.file = task[t].file,
           NEW m \in Namespaces, ns[m].count > 0, ns' = put_ipc_ns(ns, m),
           \A n \in Namespaces : RefsTo(r, n) = RefsTo(task[t], n) - One(n = m)
    PROVE  NsInv'
  <2> USE <1>PutStep
  <2>1. NsType /\ ChainInv /\ (\A n \in Namespaces : CountInv(n)) /\ WalkInv
    BY ReachableIs DEF NsInv
  <2>2. TaskType' /\ FileType' /\ CallInv'
    BY <1>CallStep
  <2>3. task'[t] = r /\ \A u \in Tasks : u # t => task'[u] = task[u]
    BY <1>CallStep
  <2>4. NsType' /\ ChainInv' /\ WalkInv' /\ \A n \in Namespaces :
          /\ ns'[n].mq = ns[n].mq /\ ns[n].mq \in Nat
          /\ Counted(n)' = Counted(n) - One(n = m) => CountInv(n)'
    BY <2>1, <1>PutKeeps
  <2>5. ASSUME NEW n \in Namespaces PROVE CountInv(n)'
    <3>1. Counted(n)' = Counted(n) - One(n = m)
      BY <2>3, <2>4, <1>CountedTask, SMTT(30) DEF One, RefsTo
    <3> QED BY <2>4, <3>1
  <2> QED BY <2>2, <2>4, <2>5, ReachableFrame DEF NsInv
\* A process moves on, with another segment in hand.
<1>MoveStep.
    ASSUME NsInv, NEW t \in Tasks, NEW l \in Pcs, NEW s \in Segs \cup {NONE}, NEW p \in Nat,
           task' = [task EXCEPT ![t] = [@ EXCEPT !.pc = l, !.shp = s, !.pos = p]],
           UNCHANGED <<nsVars, file>>,
           task[t].pc \in {"open", "reading", "creating", "switching"} <=>
             l \in {"open", "reading", "creating", "switching"},
           task[t].pc \in {"filed", "mapped"} <=> l \in {"filed", "mapped"},
           l \in {"found", "pinned", "filed", "mapped", "out"} => s \in Segs /\ task[t].meant # 0
    PROVE  NsInv'
  <2> USE <1>MoveStep
  <2> DEFINE r == [task[t] EXCEPT !.pc = l, !.shp = s, !.pos = p]
  <2>1. task[t] \in TaskRec /\ LocalsOK(task[t])
    BY DEF NsInv, TaskType, CallInv
  <2>2. r \in TaskRec
    BY <2>1 DEF TaskRec
  <2>3. /\ r.ns = task[t].ns /\ r.nsfd = task[t].nsfd /\ r.pns = task[t].pns /\ r.file = task[t].file
        /\ r.pc = l /\ r.shp = s /\ r.meant = task[t].meant /\ r.shmid = task[t].shmid
    BY <2>1 DEF TaskRec
  <2>4. task' = [task EXCEPT ![t] = r]
    OBVIOUS
  <2> HIDE DEF r
  <2>5. LocalsOK(r)
    BY <2>1, <2>3 DEF LocalsOK
  <2> QED BY <2>2, <2>3, <2>4, <2>5, <1>LocalStep
\* shmget gives the process an identifier.
<1>IdStep.
    ASSUME NsInv, NEW t \in Tasks, NEW id \in Nat, NEW k \in Nat, task[t].pc = "idle",
           task' = [task EXCEPT ![t].shmid = id, ![t].meant = k], UNCHANGED <<nsVars, file>>
    PROVE  NsInv'
  <2> USE <1>IdStep
  <2> DEFINE r == [task[t] EXCEPT !.shmid = id, !.meant = k]
  <2>1. task[t] \in TaskRec /\ LocalsOK(task[t]) /\ task \in [Tasks -> TaskRec]
    BY DEF NsInv, TaskType, CallInv
  <2>2. r \in TaskRec
    BY <2>1 DEF TaskRec
  <2>3. /\ r.ns = task[t].ns /\ r.nsfd = task[t].nsfd /\ r.pns = task[t].pns /\ r.file = task[t].file
        /\ r.pc = "idle"
    BY <2>1 DEF TaskRec
  <2>4. task' = [task EXCEPT ![t] = r]
    BY <2>1
  <2> HIDE DEF r
  <2>5. LocalsOK(r)
    BY <2>1, <2>3 DEF LocalsOK
  <2> QED BY <2>2, <2>3, <2>4, <2>5, <1>LocalStep
\* The steps of a process that touch no reference of a namespace or a file.
<1>NsLocal.
    ASSUME IInv, NEW t \in Tasks,
           \/ \E s \in Segs, p \in Pages : \/ \E key \in Keys \cup {IPC_PRIVATE} : ShmgetNew(t, s, key, p)
                                           \/ ShmgetOld(t, s, p)
           \/ IpcLockFind(t) \/ IpcLockFail(t) \/ ShmatPin(t) \/ ShmatNoFile(t) \/ ShmatNoMap(t)
           \/ ShmatOut(t) \/ sysvipc_proc_start(t) \/ sysvipc_proc_next(t) \/ sysvipc_proc_stop(t)
    PROVE  NsInv'
  <2> USE <1>NsLocal
  <2>0. NsInv /\ task[t] \in TaskRec /\ task \in [Tasks -> TaskRec] /\ LocalsOK(task[t])
    BY DEF IInv, NsInv, TaskType, CallInv
  <2>1. /\ task[t].ns \in Namespaces /\ task[t].pos \in Nat /\ task[t].shp \in Segs \cup {NONE}
        /\ task[t].pns \in Namespaces \cup {NONE}
    BY <2>0 DEF TaskRec
  <2>2. ASSUME NEW s \in Segs, NEW p \in Pages, NEW key, ShmgetNew(t, s, key, p) PROVE NsInv'
    <3>1. NewId(ids[task[t].ns]) \in Nat /\ made[task[t].ns] + 1 \in Nat
      <4>1. ipc_addid_ok(ids[task[t].ns], shm_ctlmni)
        BY <2>2 DEF ShmgetNew, newseg
      <4>2. made[task[t].ns] \in Nat
        BY <2>1, TableFacts
      <4> QED BY <2>1, <4>1, <4>2, FreeIndex, SMTT(30)
    <3> QED BY <2>0, <2>2, <3>1, <1>IdStep DEF ShmgetNew
  <2>3. ASSUME NEW s \in Segs, NEW p \in Pages, ShmgetOld(t, s, p) PROVE NsInv'
    <3>1. seg[s].id \in Nat /\ seg[s].made \in Nat
      BY DEF IInv, SegType
    <3> QED BY <2>0, <2>3, <3>1, <1>IdStep DEF ShmgetOld
  <2>4. CASE IpcLockFind(t)
    <3>1. PICK s \in idr_find(ids[task[t].ns], task[t].shmid) :
            task' = [task EXCEPT ![t].pc = "found", ![t].shp = s]
      BY <2>4 DEF IpcLockFind
    <3>2. s \in Segs
      BY <2>1, TableFacts DEF idr_find
    <3>3. /\ task' = [task EXCEPT ![t] = [@ EXCEPT !.pc = "found", !.shp = s, !.pos = task[t].pos]]
      BY <2>0, <3>1 DEF TaskRec
    <3>4. task[t].pc = "idle" /\ task[t].meant # 0 /\ UNCHANGED <<nsVars, file>>
      BY <2>4 DEF IpcLockFind
    <3> QED BY <2>0, <2>1, <3>2, <3>3, <3>4, <1>MoveStep DEF Pcs
  <2>5. CASE IpcLockFail(t) \/ ShmatOut(t) \/ sysvipc_proc_stop(t)
    <3>1. PICK l \in {"idle", "open"} :
            /\ task' = [task EXCEPT ![t].pc = l, ![t].shp = NONE] /\ UNCHANGED <<nsVars, file>>
            /\ \/ task[t].pc \in {"found", "out"} /\ l = "idle"
               \/ task[t].pc = "reading" /\ l = "open"
      BY <2>5 DEF IpcLockFail, ShmatOut, sysvipc_proc_stop
    <3> DEFINE s == NONE
    <3>2. task' = [task EXCEPT ![t] = [@ EXCEPT !.pc = l, !.shp = s, !.pos = task[t].pos]]
      BY <2>0, <3>1 DEF TaskRec
    <3>3. l \in Pcs /\ s \in Segs \cup {NONE}
      BY DEF Pcs
    <3> HIDE DEF s
    <3>4. /\ task[t].pc \in {"open", "reading", "creating", "switching"} <=>
               l \in {"open", "reading", "creating", "switching"}
          /\ task[t].pc \in {"filed", "mapped"} <=> l \in {"filed", "mapped"}
          /\ l \in {"found", "pinned", "filed", "mapped", "out"} => s \in Segs /\ task[t].meant # 0
          /\ UNCHANGED <<nsVars, file>>
      BY <3>1
    <3> QED BY <2>0, <2>1, <3>2, <3>3, <3>4, <1>MoveStep
  <2>6. CASE ShmatPin(t) \/ ShmatNoFile(t) \/ ShmatNoMap(t)
    <3>1. PICK l \in {"pinned", "out", "mapped"} :
            /\ task' = [task EXCEPT ![t].pc = l] /\ UNCHANGED <<nsVars, file>>
            /\ \/ task[t].pc \in {"found", "pinned"} /\ l \in {"pinned", "out"}
               \/ task[t].pc = "filed" /\ l = "mapped"
      BY <2>6 DEF ShmatPin, IpcLocked, ShmatNoFile, ShmatNoMap
    <3>2. task' = [task EXCEPT ![t] = [@ EXCEPT !.pc = l, !.shp = task[t].shp, !.pos = task[t].pos]]
      BY <2>0, <3>1 DEF TaskRec
    <3>3. task[t].shp \in Segs /\ task[t].meant # 0
      BY <2>0, <3>1 DEF LocalsOK
    <3>4. l \in Pcs
      BY DEF Pcs
    <3>5. /\ task[t].pc \in {"open", "reading", "creating", "switching"} <=>
               l \in {"open", "reading", "creating", "switching"}
          /\ task[t].pc \in {"filed", "mapped"} <=> l \in {"filed", "mapped"}
      BY <3>1
    <3> QED BY <2>0, <2>1, <3>1, <3>2, <3>3, <3>4, <3>5, <1>MoveStep
  <2>7. CASE sysvipc_proc_start(t) \/ sysvipc_proc_next(t)
    <3>1. /\ FindIpc(t, task[t].pns, task[t].pos) /\ UNCHANGED <<nsVars, file>>
          /\ task[t].pc \in {"open", "reading"}
      BY <2>7 DEF sysvipc_proc_start, sysvipc_proc_next
    <3>2. task[t].pns \in Namespaces
      BY <2>0, <2>1, <3>1 DEF LocalsOK
    <3>3. PICK s \in Segs \cup {NONE}, p \in Nat :
            task' = [task EXCEPT ![t] = [@ EXCEPT !.pc = "reading", !.shp = s, !.pos = p]]
      BY <3>1, <3>2, FindIpcStep
    <3> QED BY <2>0, <3>1, <3>3, <1>MoveStep DEF Pcs
  <2> QED BY <2>2, <2>3, <2>4, <2>5, <2>6, <2>7
\* open of /proc/sysvipc/shm or of /proc/PID/ns/ipc: one reference more.
<1>NsGet.
    ASSUME IInv, NEW t \in Tasks, ProcOpen(t) \/ \E u \in Tasks : ipcns_get(t, u)
    PROVE  NsInv'
  <2> USE <1>NsGet
  <2>0. /\ NsInv /\ task \in [Tasks -> TaskRec] /\ task[t] \in TaskRec /\ LocalsOK(task[t])
        /\ \A u \in Tasks : task[u].ns \in Namespaces
    BY DEF IInv, NsInv, TaskType, TaskRec, CallInv
  <2>1. ASSUME NEW u \in Tasks PROVE task[u].ns \in Namespaces /\ ns[task[u].ns].count > 0
    BY <2>0, Referenced
  <2>2. CASE ProcOpen(t)
    <3> DEFINE m == task[t].ns
               r == [task[t] EXCEPT !.pc = "open", !.pns = m]
    <3>1. /\ task[t].pc = "idle" /\ ns' = get_ipc_ns(ns, m) /\ task' = [task EXCEPT ![t] = r]
          /\ UNCHANGED <<file, chain, walk>>
      BY <2>0, <2>2 DEF ProcOpen
    <3>2. r \in TaskRec
      BY <2>0, <2>1 DEF TaskRec, Pcs
    <3>3. /\ r.ns = task[t].ns /\ r.nsfd = task[t].nsfd /\ r.pns = m /\ r.file = task[t].file
          /\ r.pc = "open"
      BY <2>0 DEF TaskRec
    <3> HIDE DEF r
    <3>4. LocalsOK(r) /\ task[t].pns = NONE
      BY <2>0, <2>1, <3>1, <3>3, ShmAssumption DEF LocalsOK
    <3>5. \A n \in Namespaces : RefsTo(r, n) = RefsTo(task[t], n) + One(n = m)
      BY <3>3, <3>4, ShmAssumption, SMTT(30) DEF One, RefsTo
    <3> QED BY <2>0, <2>1, <3>1, <3>2, <3>3, <3>4, <3>5, <1>GetStep
  <2>3. ASSUME NEW u \in Tasks, ipcns_get(t, u) PROVE NsInv'
    <3> DEFINE m == task[u].ns
               r == [task[t] EXCEPT !.nsfd = m]
    <3>1. /\ task[t].nsfd = NONE /\ ns' = get_ipc_ns(ns, m) /\ task' = [task EXCEPT ![t] = r]
          /\ UNCHANGED <<file, chain, walk>>
      BY <2>0, <2>3 DEF ipcns_get
    <3>2. r \in TaskRec
      BY <2>0, <2>1 DEF TaskRec
    <3>3. /\ r.ns = task[t].ns /\ r.nsfd = m /\ r.pns = task[t].pns /\ r.file = task[t].file
          /\ r.pc = task[t].pc /\ r.shp = task[t].shp /\ r.meant = task[t].meant /\ r.shmid = task[t].shmid
      BY <2>0 DEF TaskRec
    <3> HIDE DEF r
    <3>4. LocalsOK(r)
      BY <2>0, <3>3 DEF LocalsOK
    <3>5. \A n \in Namespaces : RefsTo(r, n) = RefsTo(task[t], n) + One(n = m)
      BY <3>1, <3>3, ShmAssumption, SMTT(30) DEF One, RefsTo
    <3> HIDE DEF m
    <3>6. m \in Namespaces /\ ns[m].count > 0
      BY <2>1 DEF m
    <3> QED BY <2>0, <3>1, <3>2, <3>3, <3>4, <3>5, <3>6, <1>GetStep
  <2> QED BY <2>2, <2>3
\* release of either, or the switch to a new nsproxy: one reference less.
<1>NsPut.
    ASSUME IInv, NEW t \in Tasks, sysvipc_proc_release(t) \/ ipcns_put(t) \/ NsSwitch(t)
    PROVE  NsInv'
  <2> USE <1>NsPut
  <2>0. /\ NsInv /\ task \in [Tasks -> TaskRec] /\ task[t] \in TaskRec /\ LocalsOK(task[t])
    BY DEF IInv, NsInv, TaskType, CallInv
  <2>1. /\ task[t].ns \in Namespaces /\ ns[task[t].ns].count > 0
        /\ task[t].nsfd # NONE => task[t].nsfd \in Namespaces /\ ns[task[t].nsfd].count > 0
        /\ task[t].pns # NONE => task[t].pns \in Namespaces /\ ns[task[t].pns].count > 0
    BY <2>0, Referenced DEF TaskRec
  <2>2. CASE sysvipc_proc_release(t)
    <3> DEFINE m == task[t].pns
               r == [task[t] EXCEPT !.pc = "idle", !.pns = NONE, !.pos = 0]
    <3>1. /\ task[t].pc = "open" /\ ns' = put_ipc_ns(ns, m) /\ task' = [task EXCEPT ![t] = r]
          /\ UNCHANGED <<file, chain, walk>>
      BY <2>0, <2>2 DEF sysvipc_proc_release
    <3>2. r \in TaskRec
      BY <2>0 DEF TaskRec, Pcs
    <3>3. /\ r.ns = task[t].ns /\ r.nsfd = task[t].nsfd /\ r.pns = NONE /\ r.file = task[t].file
          /\ r.pc = "idle"
      BY <2>0 DEF TaskRec
    <3> HIDE DEF r
    <3>4. LocalsOK(r) /\ m # NONE
      BY <2>0, <3>1, <3>3 DEF LocalsOK
    <3>5. \A n \in Namespaces : RefsTo(r, n) = RefsTo(task[t], n) - One(n = m)
      BY <3>3, ShmAssumption, SMTT(30) DEF One, RefsTo
    <3> QED BY <2>0, <2>1, <3>1, <3>2, <3>3, <3>4, <3>5, <1>PutStep
  <2>3. CASE ipcns_put(t)
    <3> DEFINE m == task[t].nsfd
               r == [task[t] EXCEPT !.nsfd = NONE]
    <3>1. /\ task[t].nsfd # NONE /\ ns' = put_ipc_ns(ns, m) /\ task' = [task EXCEPT ![t] = r]
          /\ UNCHANGED <<file, chain, walk>>
      BY <2>0, <2>3 DEF ipcns_put
    <3>2. r \in TaskRec
      BY <2>0 DEF TaskRec
    <3>3. /\ r.ns = task[t].ns /\ r.nsfd = NONE /\ r.pns = task[t].pns /\ r.file = task[t].file
          /\ r.pc = task[t].pc /\ r.shp = task[t].shp /\ r.meant = task[t].meant /\ r.shmid = task[t].shmid
      BY <2>0 DEF TaskRec
    <3> HIDE DEF r
    <3>4. LocalsOK(r)
      BY <2>0, <3>3 DEF LocalsOK
    <3>5. \A n \in Namespaces : RefsTo(r, n) = RefsTo(task[t], n) - One(n = m)
      BY <3>3, ShmAssumption, SMTT(30) DEF One, RefsTo
    <3> QED BY <2>0, <2>1, <3>1, <3>2, <3>3, <3>4, <3>5, <1>PutStep
  <2>4. CASE NsSwitch(t)
    <3> DEFINE m == task[t].ns
               r == [task[t] EXCEPT !.pc = "idle", !.ns = task[t].pns, !.pns = NONE,
                                    !.shmid = 0, !.meant = 0]
    <3>1. /\ task[t].pc = "switching" /\ ns' = put_ipc_ns(ns, m) /\ task' = [task EXCEPT ![t] = r]
          /\ UNCHANGED <<file, chain, walk>>
      BY <2>0, <2>4 DEF NsSwitch
    <3>2. task[t].pns \in Namespaces /\ task[t].file = NONE
      BY <2>0, <2>1, <3>1 DEF LocalsOK
    <3>3. r \in TaskRec
      BY <2>0, <3>2 DEF TaskRec, Pcs
    <3>4. /\ r.ns = task[t].pns /\ r.nsfd = task[t].nsfd /\ r.pns = NONE /\ r.file = task[t].file
          /\ r.pc = "idle"
      BY <2>0 DEF TaskRec
    <3> HIDE DEF r
    <3>5. LocalsOK(r)
      BY <3>2, <3>4 DEF LocalsOK
    <3>6. \A n \in Namespaces : RefsTo(r, n) = RefsTo(task[t], n) - One(n = m)
      BY <3>4, ShmAssumption, SMTT(30) DEF One, RefsTo
    <3> QED BY <2>0, <2>1, <3>1, <3>3, <3>4, <3>5, <3>6, <1>PutStep
  <2> QED BY <2>2, <2>3, <2>4
\* create_ipc_ns, and the process that holds the first reference.
<1>NsCopy.
    ASSUME IInv, NEW t \in Tasks, NEW m \in Namespaces, copy_ipcs(t, m)
    PROVE  NsInv'
  <2> USE <1>NsCopy
  <2> DEFINE r == [task[t] EXCEPT !.pc = "creating", !.pns = m]
             c == [life |-> "new", count |-> 1, sb |-> TRUE, mq |-> 0]
  <2>0. /\ NsInv /\ NsType /\ ChainInv /\ WalkInv /\ \A n \in Namespaces : CountInv(n)
    BY ReachableIs DEF IInv, NsInv
  <2>1. task \in [Tasks -> TaskRec] /\ task[t] \in TaskRec /\ LocalsOK(task[t])
    BY <2>0 DEF NsInv, TaskType, CallInv
  <2>2. /\ task[t].pc = "idle" /\ task' = [task EXCEPT ![t] = r] /\ ns[m].life = "none"
        /\ ns' = [ns EXCEPT ![m] = c] /\ walk' = [walk EXCEPT ![m] = chain] /\ UNCHANGED <<chain, file>>
    BY <2>1 DEF copy_ipcs, create_ipc_ns
  <2>3. /\ r.ns = task[t].ns /\ r.nsfd = task[t].nsfd /\ r.pns = m /\ r.file = task[t].file
        /\ r.pc = "creating"
    BY <2>1 DEF TaskRec
  <2>4. r \in TaskRec
    BY <2>1 DEF TaskRec, Pcs
  <2> HIDE DEF r
  <2>5. LocalsOK(r) /\ task[t].pns = NONE
    BY <2>1, <2>2, <2>3, ShmAssumption DEF LocalsOK
  <2>6. TaskType' /\ FileType' /\ CallInv'
    BY <2>0, <2>2, <2>3, <2>4, <2>5, <1>CallStep
  <2>7. task'[t] = r /\ (\A u \in Tasks : u # t => task'[u] = task[u]) /\ UNCHANGED file
    BY <2>1, <2>2
  <2>8. NsType'
    <3>1. c \in [life : Lives, count : Nat, sb : BOOLEAN, mq : {0, 1}]
      BY DEF Lives
    <3> HIDE DEF c
    <3> QED BY <2>0, <2>2, <3>1 DEF NsType, Notifiers
  <2>9. ns'[m] = c /\ \A n \in Namespaces : n # m => ns'[n] = ns[n]
    BY <2>0, <2>2 DEF NsType
  <2>10. ChainInv' /\ WalkInv'
    <3>1. m \notin chain /\ \A w \in Notifiers : m \notin walk[w]
      BY <2>0, <2>2 DEF ChainInv, WalkInv
    <3>2. chain \subseteq Namespaces /\ \A w \in Notifiers : walk[w] \subseteq Namespaces
      BY <2>0 DEF NsType
    <3>3. ChainInv'
      BY <2>0, <2>2, <2>9, <3>1, <3>2 DEF ChainInv
    <3>4. \A w \in Notifiers : walk'[w] = walk[w] \/ walk'[w] = chain
      BY <2>0, <2>2 DEF NsType
    <3> QED BY <2>0, <2>2, <2>9, <3>1, <3>2, <3>3, <3>4 DEF ChainInv, WalkInv
  <2>11. ns[m].count = 0 /\ Counted(m) = 0 /\ ns[m].mq = 0
    <3>1. ns[m].count = 0 /\ Counted(m) = 0
      BY <2>0, <2>2 DEF CountInv
    <3>2. /\ IsFiniteSet(InNs(m)) /\ IsFiniteSet(WithFd(m)) /\ IsFiniteSet(WithPns(m))
          /\ IsFiniteSet(FilesIn(m))
      BY ShmAssumption, FS_Subset DEF InNs, WithFd, WithPns, FilesIn
    <3>3. /\ Cardinality(InNs(m)) \in Nat /\ Cardinality(WithFd(m)) \in Nat
          /\ Cardinality(WithPns(m)) \in Nat /\ Cardinality(FilesIn(m)) \in Nat
      BY <3>2, FS_CardinalityType
    <3>4. ns[m].mq \in Nat
      BY <2>0, SMTT(30) DEF NsType
    <3> QED BY <3>1, <3>3, <3>4, SMTT(30) DEF Counted, One
  <2>12. ASSUME NEW n \in Namespaces PROVE CountInv(n)'
    <3>1. ns'[n].mq = ns[n].mq /\ ns[n].mq \in Nat
      BY <2>0, <2>9, <2>11, SMTT(30) DEF NsType
    <3>2. Counted(n) \in Nat /\ Counted(n)' = Counted(n) + One(n = m)
      BY <2>3, <2>5, <2>7, <3>1, <1>CountedTask, ShmAssumption, SMTT(30) DEF One
    <3>3. CASE n = m
      BY <2>9, <2>11, <3>2, <3>3, SMTT(30) DEF CountInv, One
    <3>4. CASE n # m
      BY <2>0, <2>9, <3>2, <3>4, SMTT(30) DEF CountInv, One
    <3> QED BY <3>3, <3>4
  <2> QED BY <2>6, <2>8, <2>10, <2>12, ReachableFrame DEF NsInv
\* register_ipcns_notifier for the new namespace.
<1>NsEnter.
    ASSUME IInv, NEW t \in Tasks, NsCreated(t)
    PROVE  NsInv'
  <2> USE <1>NsEnter
  <2> DEFINE r == [task[t] EXCEPT !.pc = "switching"]
             m == task[t].pns
  <2>0. /\ NsInv /\ NsType /\ ChainInv /\ \A n \in Namespaces : CountInv(n)
    BY ReachableIs DEF IInv, NsInv
  <2>1. task \in [Tasks -> TaskRec] /\ task[t] \in TaskRec /\ LocalsOK(task[t])
    BY <2>0 DEF NsInv, TaskType, CallInv
  <2>2. /\ task[t].pc = "creating" /\ task' = [task EXCEPT ![t] = r] /\ ns[m].life = "new"
        /\ ns' = [ns EXCEPT ![m].life = "live"] /\ chain' = chain \cup {m} /\ UNCHANGED <<walk, file>>
        /\ \A w \in Notifiers : walk[w] = {}
    BY <2>1 DEF NsCreated, register_ipcns_notifier, ChainWritable
  <2>3. /\ r.ns = task[t].ns /\ r.nsfd = task[t].nsfd /\ r.pns = m /\ r.file = task[t].file
        /\ r.pc = "switching"
    BY <2>1 DEF TaskRec
  <2>4. r \in TaskRec
    BY <2>1 DEF TaskRec, Pcs
  <2> HIDE DEF r
  <2>5. LocalsOK(r) /\ m \in Namespaces
    BY <2>1, <2>2, <2>3 DEF LocalsOK, TaskRec
  <2>6. TaskType' /\ FileType' /\ CallInv'
    BY <2>0, <2>2, <2>3, <2>4, <2>5, <1>CallStep
  <2>7. task'[t] = r /\ (\A u \in Tasks : u # t => task'[u] = task[u]) /\ UNCHANGED file
    BY <2>1, <2>2
  <2> HIDE DEF m
  <2>8. NsType'
    BY <2>0, <2>2, <2>5 DEF NsType, Lives
  <2>9. \A n \in Namespaces :
          /\ ns'[n].count = ns[n].count /\ ns'[n].sb = ns[n].sb /\ ns'[n].mq = ns[n].mq
          /\ ns'[n].life = IF n = m THEN "live" ELSE ns[n].life
          /\ ns[n].mq \in Nat
    BY <2>0, <2>2, <2>5, SMTT(30) DEF NsType
  <2>10. ChainInv' /\ WalkInv'
    BY <2>0, <2>2, <2>5, <2>9 DEF ChainInv, WalkInv, NsType
  <2>11. ASSUME NEW n \in Namespaces PROVE CountInv(n)'
    <3>1. Counted(n)' = Counted(n)
      BY <2>3, <2>7, <2>9, <1>CountedTask, SMTT(30) DEF One, m
    <3> QED BY <2>0, <2>2, <2>9, <3>1, SMTT(30) DEF CountInv
  <2> QED BY <2>6, <2>8, <2>10, <2>11, ReachableFrame DEF NsInv
\* setns: a process moves from one namespace to another, or to its own.
<1>NsInstall.
    ASSUME IInv, NEW t \in Tasks, ipcns_install(t)
    PROVE  NsInv'
  <2> USE <1>NsInstall
  <2> DEFINE r == [task[t] EXCEPT !.ns = task[t].nsfd, !.shmid = 0, !.meant = 0]
             a == task[t].ns
             b == task[t].nsfd
             f == put_ipc_ns(ns, a)
  <2>0. /\ NsInv /\ NsType /\ ChainInv /\ WalkInv /\ \A n \in Namespaces : CountInv(n)
    BY ReachableIs DEF IInv, NsInv
  <2>1. task \in [Tasks -> TaskRec] /\ task[t] \in TaskRec /\ LocalsOK(task[t])
    BY <2>0 DEF NsInv, TaskType, CallInv
  <2>2. /\ task[t].pc = "idle" /\ task' = [task EXCEPT ![t] = r] /\ b # NONE
        /\ ns' = get_ipc_ns(f, b) /\ UNCHANGED <<chain, walk, file>>
    BY <2>1 DEF ipcns_install
  <2>3. a \in Namespaces /\ b \in Namespaces
    BY <2>1, <2>2 DEF TaskRec
  <2>4. ns[a].count > 0 /\ ns[b].count > 0 /\ (a = b => ns[a].count > 1)
    BY <2>0, <2>2, Referenced
  <2>5. /\ r.ns = b /\ r.nsfd = b /\ r.pns = task[t].pns /\ r.file = task[t].file /\ r.pc = "idle"
    BY <2>1, <2>2 DEF TaskRec
  <2>6. r \in TaskRec
    BY <2>1, <2>3 DEF TaskRec
  <2> HIDE DEF r
  <2>7. LocalsOK(r)
    BY <2>1, <2>2, <2>5 DEF LocalsOK
  <2>8. TaskType' /\ FileType' /\ CallInv'
    BY <2>0, <2>2, <2>5, <2>6, <2>7, <1>CallStep
  <2>9. task'[t] = r /\ (\A u \in Tasks : u # t => task'[u] = task[u]) /\ UNCHANGED file
    BY <2>1, <2>2
  <2>10. ns \in NsRecs /\ f \in NsRecs /\ ns' \in NsRecs
    BY <2>0, <2>2, <2>3, <2>4, <1>GetValue, <1>PutValue DEF NsType, NsRecs
  <2>11. \A n \in Namespaces : ns[n].count \in Nat /\ ns[n].mq \in Nat
    BY <2>10, SMTT(30) DEF NsRecs
  <2>12. /\ \A n \in Namespaces : n # a => f[n] = ns[n]
         /\ f[a].mq = ns[a].mq /\ f[a].count = ns[a].count - 1
         /\ f[a].life = IF ns[a].count = 1 THEN "dying" ELSE ns[a].life
         /\ f[a].sb => ns[a].count # 1 /\ ns[a].sb
    BY <2>3, <2>4, <2>10, <1>PutValue, SMTT(30)
  <2>13. /\ \A n \in Namespaces : n # b => ns'[n] = f[n]
         /\ ns'[b].mq = f[b].mq /\ ns'[b].count = f[b].count + 1 /\ ns'[b].life = f[b].life
         /\ ns'[b].sb = f[b].sb
    BY <2>2, <2>3, <2>10, <1>GetValue
  <2> HIDE DEF f
  <2>14. ASSUME NEW n \in Namespaces
         PROVE  /\ ns'[n].mq = ns[n].mq
                /\ ns'[n].life = ns[n].life \/ (n = a /\ n # b /\ ns'[n].life = "dying" /\ ns[n].count = 1)
                /\ ns'[n].sb => ns[n].sb /\ (n = a /\ n # b => ns[n].count # 1)
                /\ n = a /\ n # b => ns'[n].life = IF ns[n].count = 1 THEN "dying" ELSE ns[n].life
                /\ ns'[n].count = ns[n].count + One(n = b) - One(n = a)
    <3>0. \A k \in Nat : k + 0 - 0 = k /\ k + 0 - 1 = k - 1 /\ k + 1 - 0 = k + 1
      BY SMTT(30)
    <3>1. CASE n # a /\ n # b
      <4>1. ns'[n] = ns[n] /\ One(n = b) = 0 /\ One(n = a) = 0
        BY <2>12, <2>13, <3>1 DEF One
      <4> QED BY <2>11, <3>0, <3>1, <4>1
    <3>2. CASE n = a /\ n # b
      <4>1. ns'[n] = f[n] /\ One(n = b) = 0 /\ One(n = a) = 1
        BY <2>13, <3>2 DEF One
      <4> QED BY <2>11, <2>12, <3>0, <3>2, <4>1, SMTT(30)
    <3>3. CASE n = b /\ n # a
      <4>1. f[n] = ns[n] /\ One(n = b) = 1 /\ One(n = a) = 0
        BY <2>12, <3>3 DEF One
      <4> QED BY <2>11, <2>13, <3>0, <3>3, <4>1
    <3>4. CASE n = b /\ n = a
      BY <2>3, <2>4, <2>11, <2>12, <2>13, <3>4, SMTT(30) DEF One
    <3> QED BY <3>1, <3>2, <3>3, <3>4
  <2>15. NsType'
    BY <2>0, <2>2, <2>10 DEF NsType, NsRecs
  <2>16. ChainInv' /\ WalkInv'
    <3>1. \A n \in Namespaces : ns[n].life \in {"live", "dying"} => ns'[n].life \in {"live", "dying"}
      BY <2>14
    <3> QED BY <2>0, <2>2, <3>1 DEF ChainInv, WalkInv, NsType
  <2>17. ASSUME NEW n \in Namespaces PROVE CountInv(n)'
    <3>1. Counted(n) \in Nat /\ Counted(n)' = Counted(n) + One(n = b) - One(n = a)
      BY <2>5, <2>9, <2>11, <2>14, <1>CountedTask, SMTT(30) DEF One
    <3>2. CASE n = a /\ n # b
      BY <2>0, <2>3, <2>4, <2>11, <2>14, <3>1, <3>2, SMTT(30) DEF CountInv, One
    <3>3. CASE ~(n = a /\ n # b)
      <4>1. ns'[n].count = 0 <=> ns[n].count = 0
        BY <2>3, <2>4, <2>11, <2>14, <3>3, SMTT(30) DEF One
      <4> QED BY <2>0, <2>11, <2>14, <3>1, <3>3, <4>1, SMTT(30) DEF CountInv
    <3> QED BY <3>2, <3>3
  <2> QED BY <2>8, <2>15, <2>16, <2>17, ReachableFrame DEF NsInv
\* The references of processes and files stay.
<1>NsFrame.
    ASSUME NsInv, UNCHANGED <<task, file>>, NsType', ChainInv', WalkInv',
           \A n \in Namespaces :
             /\ ns'[n].count - ns'[n].mq = ns[n].count - ns[n].mq
             /\ (ns'[n].count = 0) <=> (ns'[n].life \notin {"new", "live"})
             /\ ns'[n].sb => ns'[n].life \in {"new", "live"}
    PROVE  NsInv'
  <2> USE <1>NsFrame
  <2>1. NsType /\ TaskType /\ FileType /\ CallInv /\ \A n \in Namespaces : CountInv(n)
    BY ReachableIs DEF NsInv
  <2>2. TaskType' /\ FileType' /\ CallInv'
    BY <2>1 DEF TaskType, FileType, CallInv, LocalsOK, Holders
  <2>3. ASSUME NEW n \in Namespaces PROVE CountInv(n)'
    <3>1. /\ IsFiniteSet(InNs(n)) /\ IsFiniteSet(WithFd(n)) /\ IsFiniteSet(WithPns(n))
          /\ IsFiniteSet(FilesIn(n))
      BY ShmAssumption, FS_Subset DEF InNs, WithFd, WithPns, FilesIn
    <3>2. /\ Cardinality(InNs(n)) \in Nat /\ Cardinality(WithFd(n)) \in Nat
          /\ Cardinality(WithPns(n)) \in Nat /\ Cardinality(FilesIn(n)) \in Nat
      BY <3>1, FS_CardinalityType
    <3>3. Counted(n)' = Counted(n) - ns[n].mq + ns'[n].mq
      <4>1. /\ Cardinality(InNs(n))' = Cardinality(InNs(n)) /\ Cardinality(WithFd(n))' = Cardinality(WithFd(n))
            /\ Cardinality(WithPns(n))' = Cardinality(WithPns(n))
            /\ Cardinality(FilesIn(n))' = Cardinality(FilesIn(n))
        BY DEF InNs, WithFd, WithPns, FilesIn
      <4>2. ns[n].mq \in Nat /\ ns'[n].mq \in Nat
        BY <2>1, SMTT(30) DEF NsType
      <4> QED BY <3>2, <4>1, <4>2, SMTT(30) DEF Counted, One
    <3>4. ns[n].count \in Nat /\ ns'[n].count \in Nat /\ ns[n].mq \in Nat /\ ns'[n].mq \in Nat
      BY <2>1, SMTT(30) DEF NsType
    <3>5. ns'[n].count = Counted(n)'
      BY <2>1, <3>3, <3>4, SMTT(30) DEF CountInv
    <3>6. /\ (ns'[n].count = 0) = (ns'[n].life \notin {"new", "live"})
          /\ ns'[n].sb => ns'[n].life \in {"new", "live"}
      OBVIOUS
    <3> QED BY <3>5, <3>6 DEF CountInv
  <2> QED BY <2>1, <2>2, <2>3, ReachableFrame DEF NsInv
\* the notifier chain, and the teardown of namespace n
<1>NsAlone.
    ASSUME IInv, UNCHANGED <<task, file>>, NEW n \in Namespaces,
           \/ unregister_ipcns_notifier(n) \/ NotifyRemoved(n) \/ ipc_memory_notifier
           \/ (\E w \in Notifiers : ipcns_callback(w, n))
           \/ shm_exit_ns(n)
    PROVE  NsInv'
  <2> USE <1>NsAlone
  <2>0. /\ NsInv /\ NsType /\ ChainInv /\ WalkInv /\ \A m \in Namespaces : CountInv(m)
    BY ReachableIs DEF IInv, NsInv
  <2>1. n \in Notifiers /\ "mem" \in Notifiers /\ \A m \in Namespaces :
          /\ ns[m].count \in Nat /\ ns[m].mq \in Nat
          /\ (ns[m].count = 0) <=> (ns[m].life \notin {"new", "live"})
          /\ ns[m].sb => ns[m].life \in {"new", "live"}
    BY <2>0, SMTT(30) DEF CountInv, NsType, Notifiers
  \* the life of a namespace with no reference goes on
  <2>2. ASSUME NEW l \in {"none", "unregistered", "exited"}, ns' = [ns EXCEPT ![n].life = l],
               ns[n].life \notin {"new", "live"}, NsType', ChainInv', WalkInv'
        PROVE  NsInv'
    <3>1. \A m \in Namespaces :
            /\ ns'[m].count = ns[m].count /\ ns'[m].mq = ns[m].mq /\ ns'[m].sb = ns[m].sb
            /\ ns'[m].life = IF m = n THEN l ELSE ns[m].life
      BY <2>0, <2>2 DEF NsType
    <3>2. \A m \in Namespaces :
            /\ (ns'[m].count = 0) <=> (ns'[m].life \notin {"new", "live"})
            /\ ns'[m].sb => ns'[m].life \in {"new", "live"}
      BY <2>1, <2>2, <3>1, SMTT(30)
    <3> QED BY <2>0, <2>1, <2>2, <3>1, <3>2, <1>NsFrame
  <2>3. CASE unregister_ipcns_notifier(n)
    <3>1. /\ ns[n].life = "dying" /\ ns' = [ns EXCEPT ![n].life = "unregistered"] /\ chain' = chain \ {n}
          /\ walk' = walk /\ \A w \in Notifiers : walk[w] = {}
      BY <2>3 DEF unregister_ipcns_notifier, ChainWritable
    <3>2. NsType'
      BY <2>0, <3>1 DEF NsType, Lives
    <3>3. ChainInv' /\ WalkInv'
      BY <2>0, <3>1 DEF ChainInv, WalkInv, NsType
    <3> QED BY <2>2, <3>1, <3>2, <3>3
  <2>4. CASE NotifyRemoved(n)
    <3>1. ns[n].life = "exited" /\ ns' = [ns EXCEPT ![n].life = "none"] /\ UNCHANGED <<chain, walk>>
      BY <2>4 DEF NotifyRemoved
    <3>2. NsType'
      BY <2>0, <3>1 DEF NsType, Lives
    <3>3. ChainInv' /\ WalkInv'
      BY <2>0, <3>1 DEF ChainInv, WalkInv, NsType
    <3> QED BY <2>2, <3>1, <3>2, <3>3
  <2>5. CASE shm_exit_ns(n)
    <3>1. /\ ns[n].life = "unregistered" /\ ns' = [ns EXCEPT ![n].life = "exited"]
          /\ walk' = [walk EXCEPT ![n] = chain] /\ UNCHANGED chain
      BY <2>5 DEF shm_exit_ns
    <3>2. NsType'
      BY <2>0, <2>1, <3>1 DEF NsType, Lives
    <3>3. ChainInv' /\ \A w \in Notifiers : walk'[w] = walk[w] \/ walk'[w] = chain
      BY <2>0, <3>1 DEF ChainInv, NsType
    <3>4. \A m \in Namespaces : ns[m].life \in {"live", "dying"} => ns'[m].life \in {"live", "dying"}
      BY <2>0, <3>1 DEF NsType
    <3>5. WalkInv'
      BY <2>0, <3>3, <3>4 DEF ChainInv, WalkInv, NsType
    <3> QED BY <2>2, <3>1, <3>2, <3>3, <3>5
  <2>6. CASE ipc_memory_notifier \/ \E w \in Notifiers : ipcns_callback(w, n)
    <3>1. /\ UNCHANGED <<ns, chain>> /\ walk' \in [Notifiers -> SUBSET Namespaces]
          /\ \A w \in Notifiers : walk'[w] \subseteq walk[w] \/ walk'[w] = chain
      BY <2>0, <2>1, <2>6 DEF ipc_memory_notifier, ipcns_callback, NsType
    <3>2. NsType' /\ ChainInv' /\ WalkInv'
      BY <2>0, <3>1 DEF NsType, ChainInv, WalkInv
    <3> QED BY <2>0, <2>1, <3>1, <3>2, <1>NsFrame
  <2> QED BY <2>3, <2>4, <2>5, <2>6
\* The references of mqueuefs.
<1>NsMqueue.
    ASSUME IInv, UNCHANGED <<task, file>>, NEW m \in Namespaces, get_ns_from_inode(m) \/ mqueue_put_ns(m)
    PROVE  NsInv'
  <2> USE <1>NsMqueue
  <2>0. /\ NsInv /\ NsType /\ ChainInv /\ WalkInv /\ \A n \in Namespaces : CountInv(n)
    BY ReachableIs DEF IInv, NsInv
  <2>1. /\ ns \in NsRecs /\ UNCHANGED <<chain, walk>> /\ \A n \in Namespaces :
          /\ ns[n].count \in Nat /\ ns[n].mq \in {0, 1}
          /\ (ns[n].count = 0) <=> (ns[n].life \notin {"new", "live"})
          /\ ns[n].sb => ns[n].life \in {"new", "live"}
    BY <2>0 DEF CountInv, NsType, NsRecs, get_ns_from_inode, mqueue_put_ns
  <2>2. CASE get_ns_from_inode(m)
    <3>1. ns[m].sb /\ ns[m].mq = 0 /\ ns' = [get_ipc_ns(ns, m) EXCEPT ![m].mq = 1]
      BY <2>2 DEF get_ns_from_inode
    <3> DEFINE f == get_ipc_ns(ns, m)
    <3>2. /\ f \in NsRecs /\ (\A n \in Namespaces : n # m => f[n] = ns[n])
          /\ f[m].count = ns[m].count + 1 /\ f[m].life = ns[m].life /\ f[m].sb = ns[m].sb
      BY <2>1, <1>GetValue
    <3> HIDE DEF f
    <3>3. /\ ns' \in NsRecs /\ (\A n \in Namespaces : n # m => ns'[n] = f[n])
          /\ ns'[m].count = f[m].count /\ ns'[m].life = f[m].life /\ ns'[m].sb = f[m].sb /\ ns'[m].mq = 1
      BY <3>1, <3>2 DEF NsRecs, f
    <3>4. NsType' /\ ChainInv' /\ WalkInv'
      <4>1. \A n \in Namespaces : ns'[n].life = ns[n].life
        BY <3>2, <3>3
      <4>2. UNCHANGED <<chain, walk>> /\ ns' \in NsRecs
        BY <2>1, <3>3
      <4> QED BY <2>0, <4>1, <4>2 DEF NsType, ChainInv, WalkInv, NsRecs
    <3>5. \A n \in Namespaces :
            /\ ns'[n].count - ns'[n].mq = ns[n].count - ns[n].mq
            /\ (ns'[n].count = 0) <=> (ns'[n].life \notin {"new", "live"})
            /\ ns'[n].sb => ns'[n].life \in {"new", "live"}
      BY <2>1, <3>1, <3>2, <3>3, SMTT(30)
    <3> QED BY <2>0, <3>4, <3>5, <1>NsFrame
  <2>3. CASE mqueue_put_ns(m)
    <3> DEFINE f == [ns EXCEPT ![m].mq = 0]
    <3>1. ns[m].mq = 1 /\ ns' = put_ipc_ns(f, m)
      BY <2>3 DEF mqueue_put_ns
    <3>2. /\ f \in NsRecs /\ (\A n \in Namespaces : n # m => f[n] = ns[n]) /\ f[m].mq = 0
          /\ f[m].count = ns[m].count /\ f[m].life = ns[m].life /\ f[m].sb = ns[m].sb
      BY <2>1 DEF NsRecs
    <3> HIDE DEF f
    <3>3. ns[m].count > 0
      <4>1. /\ IsFiniteSet(InNs(m)) /\ IsFiniteSet(WithFd(m)) /\ IsFiniteSet(WithPns(m))
            /\ IsFiniteSet(FilesIn(m))
        BY ShmAssumption, FS_Subset DEF InNs, WithFd, WithPns, FilesIn
      <4>2. /\ Cardinality(InNs(m)) \in Nat /\ Cardinality(WithFd(m)) \in Nat
            /\ Cardinality(WithPns(m)) \in Nat /\ Cardinality(FilesIn(m)) \in Nat
        BY <4>1, FS_CardinalityType
      <4> QED BY <2>0, <3>1, <4>2, SMTT(30) DEF CountInv, Counted, One
    <3>4. /\ ns' \in NsRecs /\ (\A n \in Namespaces : n # m => ns'[n] = f[n])
          /\ ns'[m].count = f[m].count - 1 /\ ns'[m].mq = f[m].mq
          /\ ns'[m].life = IF f[m].count = 1 THEN "dying" ELSE f[m].life
          /\ ns'[m].sb => f[m].count # 1 /\ f[m].sb
      BY <3>1, <3>2, <3>3, <1>PutValue, SMTT(30)
    <3>5. NsType' /\ ChainInv' /\ WalkInv'
      <4>1. \A n \in Namespaces : ns[n].life \in {"live", "dying"} => ns'[n].life \in {"live", "dying"}
        BY <3>2, <3>4
      <4> QED BY <2>0, <2>1, <3>4, <4>1 DEF NsType, ChainInv, WalkInv, NsRecs
    <3>6. \A n \in Namespaces :
            /\ ns'[n].count - ns'[n].mq = ns[n].count - ns[n].mq
            /\ (ns'[n].count = 0) <=> (ns'[n].life \notin {"new", "live"})
            /\ ns'[n].sb => ns'[n].life \in {"new", "live"}
      BY <2>1, <3>1, <3>2, <3>3, <3>4, SMTT(30)
    <3> QED BY <2>0, <3>5, <3>6, <1>NsFrame
  <2> QED BY <2>2, <2>3
\* A file in use stays in use, for the segment it was made for.
<1>FileStep.
    ASSUME NsInv, NEW f \in Files, NEW r \in FileRec, file' = [file EXCEPT ![f] = r],
           file[f].refs > 0, r.refs > 0, r.ns = file[f].ns, r.id = file[f].id,
           UNCHANGED nsVars, TaskType',
           \A u \in Tasks : /\ task'[u].ns = task[u].ns /\ task'[u].nsfd = task[u].nsfd
                            /\ task'[u].pns = task[u].pns /\ LocalsOK(task'[u]),
           \A g \in Files : Holders(g) \in Nat /\ Holders(g)' \in Nat /\ Holders(g)' <= Holders(g),
           r.refs >= r.vmas + Holders(f)'
    PROVE  NsInv'
  <2> USE <1>FileStep
  <2>1. NsType /\ FileType /\ CallInv /\ ChainInv /\ (\A n \in Namespaces : CountInv(n)) /\ WalkInv
    BY ReachableIs DEF NsInv
  <2>2. UNCHANGED <<ns, chain, walk>>
    BY DEF nsVars
  <2>3. NsType' /\ ChainInv' /\ WalkInv'
    BY <2>1, <2>2 DEF NsType, ChainInv, WalkInv
  <2>4. FileType' /\ file'[f] = r /\ \A g \in Files : g # f => file'[g] = file[g]
    BY <2>1 DEF FileType, FileRec
  <2>5. CallInv'
    <3>1. ASSUME NEW u \in Tasks PROVE LocalsOK(task[u])'
      <4>1. task'[u].file \in Files \cup {NONE}
        BY DEF TaskType, TaskRec
      <4>2. LocalsOK(task'[u])
        OBVIOUS
      <4> QED BY <2>4, <4>1, <4>2 DEF LocalsOK
    <3>2. ASSUME NEW g \in Files PROVE file'[g].refs >= file'[g].vmas + Holders(g)'
      <4>1. file[g].refs \in Nat /\ file[g].vmas \in Nat /\ file[g].refs >= file[g].vmas + Holders(g)
        BY <2>1 DEF FileType, CallInv
      <4> QED BY <2>4, <4>1, SMTT(30)
    <3>3. \A g \in Files : file'[g].refs > 0 => file'[g].ns \in Namespaces
      BY <2>1, <2>4, SMTT(30) DEF CallInv
    <3> QED BY <3>1, <3>2, <3>3 DEF CallInv
  <2>6. ASSUME NEW n \in Namespaces PROVE CountInv(n)'
    <3>1. ns'[n] = ns[n] /\ ns[n].mq \in Nat
      BY <2>1, <2>2, SMTT(30) DEF NsType
    <3>2. Counted(n)' = Counted(n)
      BY <2>4, <3>1, <1>CountedFile, SMTT(30) DEF One
    <3> QED BY <2>1, <3>1, <3>2 DEF CountInv
  <2> QED BY <2>3, <2>4, <2>5, <2>6, ReachableFrame DEF NsInv
\* The last reference of a file is dropped: shm_release puts its namespace.
<1>FilePut.
    ASSUME NsInv, NEW f \in Files, file' = [file EXCEPT ![f] = NoFile], file[f].refs > 0,
           ns' = put_ipc_ns(ns, file[f].ns), UNCHANGED <<chain, walk>>, TaskType',
           \A u \in Tasks : /\ task'[u].ns = task[u].ns /\ task'[u].nsfd = task[u].nsfd
                            /\ task'[u].pns = task[u].pns /\ LocalsOK(task'[u])
                            /\ task'[u].file # f,
           \A g \in Files : Holders(g) \in Nat /\ Holders(g)' \in Nat /\ Holders(g)' <= Holders(g),
           Holders(f)' = 0
    PROVE  NsInv'
  <2> USE <1>FilePut
  <2> DEFINE m == file[f].ns
  <2>1. NsType /\ FileType /\ CallInv /\ ChainInv /\ (\A n \in Namespaces : CountInv(n)) /\ WalkInv
    BY ReachableIs DEF NsInv
  <2>2. m \in Namespaces /\ ns[m].count > 0
    BY <2>1, Referenced DEF CallInv
  <2>3. NsType' /\ ChainInv' /\ WalkInv' /\ \A n \in Namespaces :
          /\ ns'[n].mq = ns[n].mq /\ ns[n].mq \in Nat
          /\ Counted(n)' = Counted(n) - One(n = m) => CountInv(n)'
    BY <2>1, <2>2, <1>PutKeeps
  <2>4. FileType' /\ file'[f] = NoFile /\ \A g \in Files : g # f => file'[g] = file[g]
    BY <2>1 DEF FileType, NoFile
  <2>5. CallInv'
    <3>1. ASSUME NEW u \in Tasks PROVE LocalsOK(task[u])'
      <4>1. task'[u].file \in Files \cup {NONE} /\ task'[u].file # f
        BY DEF TaskType, TaskRec
      <4>2. LocalsOK(task'[u])
        OBVIOUS
      <4> QED BY <2>4, <4>1, <4>2 DEF LocalsOK
    <3>2. ASSUME NEW g \in Files PROVE file'[g].refs >= file'[g].vmas + Holders(g)'
      <4>1. file[g].refs \in Nat /\ file[g].vmas \in Nat /\ file[g].refs >= file[g].vmas + Holders(g)
        BY <2>1 DEF FileType, CallInv
      <4> QED BY <2>4, <4>1, SMTT(30) DEF NoFile
    <3>3. \A g \in Files : file'[g].refs > 0 => file'[g].ns \in Namespaces
      BY <2>1, <2>4, SMTT(30) DEF CallInv, NoFile
    <3> QED BY <3>1, <3>2, <3>3 DEF CallInv
  <2>6. ASSUME NEW n \in Namespaces PROVE CountInv(n)'
    <3>1. file'[f].refs = 0
      BY <2>4, SMTT(30) DEF NoFile
    <3>2. Counted(n)' = Counted(n) - One(n = m)
      BY <2>3, <2>4, <3>1, <1>CountedFile, SMTT(30) DEF One
    <3> QED BY <2>3, <3>2
  <2> QED BY <2>3, <2>4, <2>5, <2>6, ReachableFrame DEF NsInv
\* A file no do_shmat works on, before and after a step.
<1>NoHolder.
    ASSUME NEW f
    PROVE  /\ Holders(f) = 0 => \A u \in Tasks : task[u].file # f
           /\ Holders(f)' = 0 => \A u \in Tasks : task'[u].file # f
  <2> USE <1>NoHolder
  <2>1. \A S \in SUBSET Tasks : Cardinality(S) = 0 => S = {}
    BY ShmAssumption, FS_Subset, FS_EmptySet
  <2>2. ASSUME Holders(f) = 0 PROVE {u \in Tasks : task[u].file = f} = {}
    BY <2>1, <2>2 DEF Holders
  <2>3. ASSUME Holders(f)' = 0 PROVE {u \in Tasks : task'[u].file = f} = {}
    BY <2>1, <2>3 DEF Holders
  <2> QED BY <2>2, <2>3
\* do_shmat makes the attach file, with a reference of the namespace.
<1>NsShmatFile.
    ASSUME IInv, NEW t \in Tasks, NEW f \in Files, ShmatFile(t, f)
    PROVE  NsInv'
  <2> USE <1>NsShmatFile
  <2> DEFINE m == task[t].ns
             r == [task[t] EXCEPT !.pc = "filed", !.file = f]
             q == [ns |-> m, id |-> task[t].shmid, vmas |-> 0, refs |-> 1]
  <2>0. NsInv /\ NsType /\ TaskType /\ FileType /\ CallInv /\ ChainInv
        /\ (\A n \in Namespaces : CountInv(n)) /\ WalkInv
    BY ReachableIs DEF IInv, NsInv
  <2>1. task \in [Tasks -> TaskRec] /\ task[t] \in TaskRec /\ LocalsOK(task[t]) /\ f # NONE
        /\ m \in Namespaces /\ task[t].shmid \in Nat
    BY <2>0, ShmAssumption DEF TaskType, TaskRec, CallInv
  <2>2. seg[task[t].shp].id = task[t].shmid
    BY DEF IInv, ShmPinned, InShmat, Attached, ShmatFile
  <2>3. /\ task[t].pc = "pinned" /\ file[f].refs = 0 /\ file' = [file EXCEPT ![f] = q]
        /\ ns' = get_ipc_ns(ns, m) /\ task' = [task EXCEPT ![t] = r] /\ UNCHANGED <<chain, walk>>
    BY <2>1, <2>2 DEF ShmatFile
  <2>4. /\ r.ns = m /\ r.nsfd = task[t].nsfd /\ r.pns = task[t].pns /\ r.file = f /\ r.pc = "filed"
        /\ r.shp = task[t].shp /\ r.meant = task[t].meant /\ r.shmid = task[t].shmid /\ r \in TaskRec
    BY <2>1 DEF TaskRec, Pcs
  <2> HIDE DEF r
  <2>5. TaskType' /\ task'[t] = r /\ \A u \in Tasks : u # t => task'[u] = task[u]
    BY <2>1, <2>3, <2>4 DEF TaskType
  <2>6. FileType' /\ file'[f] = q /\ \A g \in Files : g # f => file'[g] = file[g]
    BY <2>0, <2>1, <2>3 DEF FileType
  <2>7. task[t].file = NONE
    BY <2>1, <2>3 DEF LocalsOK
  <2>8. \A g \in Files : Holders(g) \in Nat /\ Holders(g)' = Holders(g) + One(g = f)
    BY <2>4, <2>5, <2>7, <1>HoldersStep, ShmAssumption, SMTT(30) DEF One
  <2>9. Holders(f) = 0 /\ \A u \in Tasks : task[u].file # f
    <3>1. file[f].refs >= file[f].vmas + Holders(f) /\ file[f].vmas \in Nat
      BY <2>0 DEF CallInv, FileType
    <3>2. Holders(f) = 0
      BY <2>3, <2>8, <3>1, SMTT(30)
    <3> QED BY <3>2, <1>NoHolder
  <2>10. CallInv'
    <3>1. ASSUME NEW u \in Tasks PROVE LocalsOK(task[u])'
      <4>1. CASE u = t
        BY <2>1, <2>3, <2>4, <2>5, <2>6, <4>1, SMTT(30) DEF LocalsOK
      <4>2. CASE u # t
        <5>1. task[u].file \in Files \cup {NONE} /\ LocalsOK(task[u])
          BY <2>0 DEF TaskType, TaskRec, CallInv
        <5> QED BY <2>5, <2>6, <2>9, <4>2, <5>1 DEF LocalsOK
      <4> QED BY <4>1, <4>2
    <3>2. ASSUME NEW g \in Files
          PROVE  /\ file'[g].refs >= file'[g].vmas + Holders(g)'
                 /\ file'[g].refs > 0 => file'[g].ns \in Namespaces
      <4>1. CASE g = f
        BY <2>1, <2>6, <2>8, <2>9, <4>1, SMTT(30) DEF One
      <4>2. CASE g # f
        <5>1. Holders(g)' = Holders(g)
          BY <2>8, <4>2, SMTT(30) DEF One
        <5> QED BY <2>0, <2>6, <4>2, <5>1 DEF CallInv
      <4> QED BY <4>1, <4>2
    <3> QED BY <3>1, <3>2 DEF CallInv
  <2>11. ns[m].count > 0
    BY <2>0, Referenced
  <2>12. NsType' /\ ChainInv' /\ WalkInv' /\ \A n \in Namespaces :
           /\ ns'[n].mq = ns[n].mq /\ ns[n].mq \in Nat
           /\ Counted(n)' = Counted(n) + One(n = m) => CountInv(n)'
    BY <2>0, <2>1, <2>3, <2>11, <1>GetKeeps
  <2>13. ASSUME NEW n \in Namespaces PROVE CountInv(n)'
    <3>1. \A u \in Tasks : /\ task'[u].ns = task[u].ns /\ task'[u].nsfd = task[u].nsfd
                           /\ task'[u].pns = task[u].pns
      BY <2>4, <2>5
    <3>2. file'[f].refs = 1 /\ file'[f].ns = m
      BY <2>6, SMTT(30)
    <3>3. Counted(n)' = Counted(n) + One(n = m)
      <4>1. /\ Counted(n) \in Nat
            /\ Counted(n)' = Counted(n) + One(file'[f].refs > 0 /\ file'[f].ns = n)
                                        - One(file[f].refs > 0 /\ file[f].ns = n)
        BY <2>6, <2>12, <3>1, <1>CountedFile
      <4>2. ~(file[f].refs > 0) /\ 1 > 0
        BY <2>3, SMTT(30)
      <4>3. /\ One(file'[f].refs > 0 /\ file'[f].ns = n) = One(n = m)
            /\ One(file[f].refs > 0 /\ file[f].ns = n) = 0
        BY <3>2, <4>2 DEF One
      <4>4. ASSUME NEW k \in Nat PROVE k + One(n = m) - 0 = k + One(n = m)
        BY SMTT(30) DEF One
      <4> QED BY <4>1, <4>3, <4>4
    <3> QED BY <2>12, <3>3
  <2> QED BY <2>5, <2>6, <2>10, <2>12, <2>13, ReachableFrame DEF NsInv
\* fput, by do_shmat or for an unmapped mapping.
<1>NsFput.
    ASSUME IInv, NEW f \in Files, fput(f), UNCHANGED <<chain, walk>>,
           \/ file[f].refs > file[f].vmas + Holders(f) /\ UNCHANGED task
           \/ \E t \in Tasks : /\ task[t].pc = "mapped" /\ task[t].file = f
                               /\ task' = [task EXCEPT ![t].pc = "out", ![t].file = NONE]
    PROVE  NsInv'
  <2> USE <1>NsFput
  <2>0. NsInv /\ TaskType /\ FileType /\ CallInv /\ NONE \notin Files
    BY ShmAssumption DEF IInv, NsInv
  <2>1. /\ file \in [Files -> FileRec] /\ file[f] \in FileRec /\ file[f].refs \in Nat /\ file[f].vmas \in Nat
        /\ file[f].refs >= file[f].vmas + Holders(f)
    BY <2>0 DEF FileType, FileRec, CallInv
  <2> DEFINE Kept ==
               /\ TaskType'
               /\ \A u \in Tasks : /\ task'[u].ns = task[u].ns /\ task'[u].nsfd = task[u].nsfd
                                   /\ task'[u].pns = task[u].pns /\ LocalsOK(task'[u])
               /\ \A g \in Files : Holders(g) \in Nat /\ Holders(g)' \in Nat /\ Holders(g)' <= Holders(g)
               /\ file[f].refs >= file[f].vmas + Holders(f)' + 1
  <2>2. Kept
    <3>1. CASE file[f].refs > file[f].vmas + Holders(f) /\ UNCHANGED task
      <4>1. \A g : Holders(g) \in Nat /\ Holders(g)' = Holders(g)
        <5>1. \A g : IsFiniteSet({u \in Tasks : task[u].file = g})
          BY ShmAssumption, FS_Subset
        <5> QED BY <3>1, <5>1, FS_CardinalityType DEF Holders
      <4>2. TaskType' /\ \A u \in Tasks : task'[u] = task[u] /\ LocalsOK(task[u])
        BY <2>0, <3>1 DEF TaskType, CallInv
      <4> QED BY <2>1, <3>1, <4>1, <4>2, SMTT(30)
    <3>2. ASSUME NEW t \in Tasks, task[t].pc = "mapped", task[t].file = f,
                 task' = [task EXCEPT ![t].pc = "out", ![t].file = NONE]
          PROVE  Kept
      <4> DEFINE r == [task[t] EXCEPT !.pc = "out", !.file = NONE]
      <4>1. task \in [Tasks -> TaskRec] /\ task[t] \in TaskRec /\ LocalsOK(task[t])
        BY <2>0 DEF TaskType, CallInv
      <4>2. /\ r.ns = task[t].ns /\ r.nsfd = task[t].nsfd /\ r.pns = task[t].pns /\ r.file = NONE
            /\ r.pc = "out" /\ r.shp = task[t].shp /\ r.meant = task[t].meant /\ r \in TaskRec
        BY <4>1 DEF TaskRec, Pcs
      <4>3. task' = [task EXCEPT ![t] = r]
        BY <3>2, <4>1
      <4> HIDE DEF r
      <4>4. TaskType' /\ task'[t] = r /\ \A u \in Tasks : u # t => task'[u] = task[u]
        BY <4>1, <4>2, <4>3 DEF TaskType
      <4>5. LocalsOK(r)
        BY <3>2, <4>1, <4>2 DEF LocalsOK
      <4>6. \A g \in Files : Holders(g) \in Nat /\ Holders(g)' \in Nat /\ Holders(g)' = Holders(g) - One(g = f)
        <5>1. task[t].file = f /\ task'[t].file \notin Files
          BY <2>0, <3>2, <4>2, <4>4
        <5> QED BY <4>4, <5>1, <1>HoldersStep, SMTT(30) DEF One
      <4>7. \A u \in Tasks : /\ task'[u].ns = task[u].ns /\ task'[u].nsfd = task[u].nsfd
                             /\ task'[u].pns = task[u].pns /\ LocalsOK(task'[u])
        BY <2>0, <4>2, <4>4, <4>5 DEF CallInv
      <4> QED BY <2>1, <4>4, <4>6, <4>7, SMTT(30) DEF One
    <3> HIDE DEF Kept
    <3> QED BY <3>1, <3>2
  <2>3. CASE file[f].refs = 1
    <3>1. file' = [file EXCEPT ![f] = NoFile] /\ ns' = put_ipc_ns(ns, file[f].ns)
      BY <2>3, SMTT(30) DEF fput
    <3>2. Holders(f)' = 0
      BY <2>1, <2>2, <2>3, SMTT(30)
    <3>3. \A u \in Tasks : task'[u].file # f
      BY <3>2, <1>NoHolder
    <3>4. \A u \in Tasks : /\ task'[u].ns = task[u].ns /\ task'[u].nsfd = task[u].nsfd
                           /\ task'[u].pns = task[u].pns /\ LocalsOK(task'[u])
                           /\ task'[u].file # f
      BY <2>2, <3>3
    <3>5. TaskType' /\ file[f].refs > 0
          /\ \A g \in Files : Holders(g) \in Nat /\ Holders(g)' \in Nat /\ Holders(g)' <= Holders(g)
      BY <2>2, <2>3, SMTT(30)
    <3> QED BY <2>0, <3>1, <3>2, <3>4, <3>5, <1>FilePut
  <2>4. CASE file[f].refs > 1
    <3> DEFINE q == [file[f] EXCEPT !.refs = @ - 1]
    <3>1. file' = [file EXCEPT ![f] = q] /\ UNCHANGED nsVars
      BY <2>1, <2>4, SMTT(30) DEF fput, nsVars
    <3>2. /\ q.refs = file[f].refs - 1 /\ q.ns = file[f].ns /\ q.id = file[f].id /\ q.vmas = file[f].vmas
          /\ q \in FileRec
      BY <2>1, <2>4, SMTT(30) DEF FileRec
    <3> HIDE DEF q
    <3>3. q.refs > 0 /\ q.refs >= q.vmas + Holders(f)' /\ file[f].refs > 0
      BY <2>1, <2>2, <2>4, <3>2, SMTT(30)
    <3> QED BY <2>0, <2>2, <3>1, <3>2, <3>3, <1>FileStep
  <2> QED BY <2>1, <2>3, <2>4 DEF fput
\* shm_open and shm_close: one mapping more or less.
<1>NsMappings.
    ASSUME IInv, NEW f \in Files,
           Fork(f) \/ shm_close(f) \/ \E t \in Tasks : ShmatMap(t) /\ task[t].file = f
    PROVE  NsInv'
  <2> USE <1>NsMappings
  <2>0. NsInv /\ TaskType /\ FileType /\ CallInv
    BY DEF IInv, NsInv
  <2>1. /\ file \in [Files -> FileRec] /\ file[f] \in FileRec /\ file[f].refs \in Nat /\ file[f].vmas \in Nat
        /\ file[f].refs >= file[f].vmas + Holders(f) /\ UNCHANGED nsVars
    BY <2>0 DEF FileType, FileRec, CallInv, Fork, shm_close, ShmatMap
  <2>2. \A g : IsFiniteSet({u \in Tasks : task[u].file = g})
    BY ShmAssumption, FS_Subset
  <2>3. \A g : Holders(g) \in Nat
    BY <2>2, FS_CardinalityType DEF Holders
  <2> DEFINE Kept ==
               /\ TaskType' /\ file[f].refs > 0 /\ \A g \in Files : Holders(g)' = Holders(g)
               /\ \A u \in Tasks : /\ task'[u].ns = task[u].ns /\ task'[u].nsfd = task[u].nsfd
                                   /\ task'[u].pns = task[u].pns /\ LocalsOK(task'[u])
  <2>4. Kept
    <3>1. CASE Fork(f) \/ shm_close(f)
      <4>1. UNCHANGED task /\ file[f].vmas > 0
        BY <3>1 DEF Fork, shm_close
      <4>2. \A g \in Files : Holders(g)' = Holders(g)
        BY <4>1 DEF Holders
      <4> QED BY <2>0, <2>1, <2>3, <4>1, <4>2, SMTT(30) DEF TaskType, CallInv
    <3>2. ASSUME NEW t \in Tasks, ShmatMap(t), task[t].file = f PROVE Kept
      <4> DEFINE r == [task[t] EXCEPT !.pc = "mapped"]
      <4>1. task \in [Tasks -> TaskRec] /\ task[t] \in TaskRec /\ LocalsOK(task[t])
        BY <2>0 DEF TaskType, CallInv
      <4>2. /\ r.ns = task[t].ns /\ r.nsfd = task[t].nsfd /\ r.pns = task[t].pns /\ r.file = task[t].file
            /\ r.pc = "mapped" /\ r.shp = task[t].shp /\ r.meant = task[t].meant /\ r.shmid = task[t].shmid
            /\ r \in TaskRec
        BY <4>1 DEF TaskRec, Pcs
      <4>3. task' = [task EXCEPT ![t] = r] /\ task[t].pc = "filed"
        BY <3>2, <4>1 DEF ShmatMap
      <4> HIDE DEF r
      <4>4. TaskType' /\ task'[t] = r /\ \A u \in Tasks : u # t => task'[u] = task[u]
        BY <4>1, <4>2, <4>3 DEF TaskType
      <4>5. LocalsOK(r)
        BY <4>1, <4>2, <4>3 DEF LocalsOK
      <4>6. \A g \in Files : Holders(g)' = Holders(g)
        BY <4>2, <4>4, <1>HoldersStep, SMTT(30) DEF One
      <4>7. file[f].refs > 0
        BY <2>0, <3>2, HolderCounts
      <4> QED BY <2>0, <4>2, <4>4, <4>5, <4>6, <4>7 DEF CallInv
    <3> HIDE DEF Kept
    <3> QED BY <3>1, <3>2
  <2>5. PICK q \in FileRec : /\ file' = [file EXCEPT ![f] = q] /\ q.ns = file[f].ns /\ q.id = file[f].id
                             /\ q.refs > 0 /\ q.refs >= q.vmas + Holders(f)
    <3>1. CASE shm_close(f)
      <4> DEFINE v == file[f].vmas - 1
                 q == [file[f] EXCEPT !.vmas = v]
      <4>1. file' = [file EXCEPT ![f] = q] /\ file[f].vmas > 0
        BY <2>1, <3>1 DEF shm_close
      <4>2. v \in Nat
        BY <2>1, <4>1, SMTT(30)
      <4> HIDE DEF v
      <4>3. q.ns = file[f].ns /\ q.id = file[f].id /\ q.refs = file[f].refs /\ q.vmas = v /\ q \in FileRec
        BY <2>1, <4>2 DEF FileRec
      <4> HIDE DEF q
      <4>4. q.refs > 0 /\ q.refs >= q.vmas + Holders(f)
        BY <2>1, <2>3, <2>4, <4>3, SMTT(30) DEF v
      <4> QED BY <4>1, <4>3, <4>4
    <3>2. CASE ~shm_close(f)
      <4> DEFINE v == file[f].vmas + 1
                 c == file[f].refs + 1
                 q == [file[f] EXCEPT !.vmas = v, !.refs = c]
      <4>1. file' = [file EXCEPT ![f] = q]
        BY <2>1, <3>2 DEF Fork, ShmatMap, shm_open
      <4>2. v \in Nat /\ c \in Nat
        BY <2>1, SMTT(30)
      <4> HIDE DEF v, c
      <4>3. q.ns = file[f].ns /\ q.id = file[f].id /\ q.refs = c /\ q.vmas = v /\ q \in FileRec
        BY <2>1, <4>2 DEF FileRec
      <4> HIDE DEF q
      <4>4. q.refs > 0 /\ q.refs >= q.vmas + Holders(f)
        BY <2>1, <2>3, <4>3, SMTT(30) DEF v, c
      <4> QED BY <4>1, <4>3, <4>4
    <3> QED BY <3>1, <3>2
  <2>6. \A g \in Files : Holders(g) \in Nat /\ Holders(g)' \in Nat /\ Holders(g)' <= Holders(g)
    BY <2>3, <2>4, SMTT(30)
  <2> QED BY <2>0, <2>1, <2>4, <2>5, <2>6, <1>FileStep
<1> SUFFICES ASSUME IInv, [Next]_vars PROVE NsInv'
  OBVIOUS
<1>0. NsInv /\ \A t \in Tasks : LocalsOK(task[t]) /\ task[t].file \in Files \cup {NONE}
  BY DEF IInv, NsInv, CallInv, TaskType, TaskRec
<1>1. ASSUME UNCHANGED <<nsVars, task, file>> PROVE NsInv'
  <2>1. NsType' /\ ChainInv'
    BY <1>0, <1>1 DEF NsInv, NsType, ChainInv, nsVars
  <2>3. NsReachable'
    <3>1. (\A n \in Namespaces : CountInv(n)) /\ WalkInv /\ UNCHANGED <<ns, chain, walk, task, file>>
      BY <1>0, <1>1, ReachableIs DEF NsInv, nsVars
    <3>2. ASSUME NEW n \in Namespaces PROVE CountInv(n)'
      BY <3>1 DEF CountInv, Counted, InNs, WithFd, WithPns, FilesIn
    <3>3. WalkInv'
      BY <3>1 DEF WalkInv
    <3> QED BY <3>2, <3>3, ReachableFrame
  <2>2. TaskType' /\ FileType' /\ CallInv'
    BY <1>0, <1>1 DEF NsInv, TaskType, FileType, CallInv, LocalsOK, Holders
  <2> QED BY <2>1, <2>2, <2>3 DEF NsInv
<1>2. CASE NsStep
  BY <1>2, <1>NsAlone, <1>NsMqueue, ShmAssumption DEF NsStep, shmVars
<1>3. ASSUME NEW n \in Namespaces, shm_exit_ns(n) PROVE NsInv'
  BY <1>3, <1>NsAlone DEF shm_exit_ns
<1>4. ASSUME NEW f \in Files, Fork(f) \/ shm_close(f) \/ VmaFput(f) PROVE NsInv'
  BY <1>4, <1>NsMappings, <1>NsFput DEF VmaFput
<1>5. ASSUME NEW t \in Tasks, ShmatMap(t) PROVE NsInv'
  BY <1>0, <1>5, <1>NsMappings DEF ShmatMap, LocalsOK
<1>6. ASSUME NEW t \in Tasks, ShmatFput(t) PROVE NsInv'
  <2>1. task[t].file \in Files
    BY <1>0, <1>6 DEF ShmatFput, LocalsOK
  <2> QED BY <1>6, <2>1, <1>NsFput DEF ShmatFput
<1>7. CASE (\E s \in Segs : RcuFree(s)) \/ (\E t \in Tasks : ShmctlRmid(t)) \/ UNCHANGED vars
  BY <1>1, <1>7 DEF RcuFree, ShmctlRmid, vars, shmVars
<1> QED BY <1>2, <1>3, <1>4, <1>5, <1>6, <1>7, <1>NsLocal, <1>NsGet, <1>NsPut, <1>NsCopy, <1>NsEnter, <1>NsInstall, <1>NsShmatFile
        DEF Next

-----------------------------------------------------------------------------
(* Counting pages and mappings *)

\* c[x] things for every x of S
Blocks(S, c) == UNION {{x} \X (1..c[x]) : x \in S}

\* There are finitely many of them.
LEMMA BlocksFinite ==
  ASSUME NEW S, IsFiniteSet(S), NEW c, \A x \in S : c[x] \in Nat
  PROVE  IsFiniteSet(Blocks(S, c)) /\ Cardinality(Blocks(S, c)) \in Nat
<1> DEFINE T == {{x} \X (1..c[x]) : x \in S}
           h == [x \in S |-> {x} \X (1..c[x])]
<1>1. h \in Surjection(S, T)
  BY DEF Surjection
<1>2. IsFiniteSet(T)
  BY <1>1, FS_Surjection
<1>3. ASSUME NEW x \in S PROVE IsFiniteSet({x} \X (1..c[x]))
  <2>1. 1 \in Int /\ c[x] \in Int
    BY SMTT(30)
  <2>2. IsFiniteSet(1..c[x])
    BY <2>1, FS_Interval
  <2>3. IsFiniteSet({x})
    BY FS_Singleton
  <2> QED BY <2>2, <2>3, FS_Product
<1>4. IsFiniteSet(UNION T)
  BY <1>2, <1>3, FS_UNION
<1> QED BY <1>4, FS_CardinalityType DEF Blocks

\* One more element brings its own.
LEMMA BlocksAdd ==
  ASSUME NEW S, IsFiniteSet(S), NEW c, NEW y, y \notin S, \A x \in S \cup {y} : c[x] \in Nat
  PROVE  Cardinality(Blocks(S \cup {y}, c)) = Cardinality(Blocks(S, c)) + c[y]
<1> DEFINE A == Blocks(S, c)
           B == {y} \X (1..c[y])
<1>1. IsFiniteSet(A) /\ Cardinality(A) \in Nat
  BY BlocksFinite
<1>2. IsFiniteSet(B) /\ Cardinality(B) = c[y]
  <2>1. IsFiniteSet({y}) /\ Cardinality({y}) = 1
    BY FS_Singleton
  <2>2. IsFiniteSet(1..c[y]) /\ Cardinality(1..c[y]) = c[y]
    BY FS_Interval, SMTT(30)
  <2>3. IsFiniteSet(B) /\ Cardinality(B) = Cardinality({y}) * Cardinality(1..c[y])
    BY <2>1, <2>2, FS_Product
  <2> QED BY <2>1, <2>2, <2>3, SMTT(30)
<1>3. A \cap B = {}
  BY SMTT(30) DEF Blocks
<1>4. Blocks(S \cup {y}, c) = A \cup B
  BY Zenon DEF Blocks
<1> HIDE DEF A, B
<1>5. Cardinality(A \cup B) = Cardinality(A) + Cardinality(B) - Cardinality({})
  BY <1>1, <1>2, <1>3, FS_Union, SMTT(30)
<1>6. Cardinality({}) = 0
  BY FS_EmptySet
<1>7. Cardinality(A \cup B) = Cardinality(A) + c[y]
  BY <1>1, <1>2, <1>5, <1>6, SMTT(30)
<1> QED BY <1>4, <1>7 DEF A

-----------------------------------------------------------------------------
(* Identifiers *)

\* An identifier is made of an index and a sequence number.
LEMMA DivMod ==
  ASSUME NEW N \in Nat \ {0}, NEW q \in Nat, NEW r \in 0..N - 1
  PROVE  (N * q + r) % N = r /\ (N * q + r) \div N = q
  BY SMTT(30)

\* ... and every identifier is built that way.
LEMMA DivModUnique ==
  ASSUME NEW N \in Nat \ {0}, NEW a \in Nat
  PROVE  a = N * (a \div N) + (a % N) /\ a % N \in 0..N - 1 /\ a \div N \in Nat
  BY SMTT(30)

-----------------------------------------------------------------------------
(* The invariant, one structure at a time *)

\* the segment an identifier leads to
At(s, n, id) == /\ ipcid_to_idx(id) \in DOMAIN ids[n].ipcs_idr
                /\ shm_lock(n, id) = s /\ seg[s].mem = "live" /\ seg[s].id = id

PinInv(t) == InShmat(t) => At(task[t].shp, task[t].ns, task[t].shmid)

\* the segment file f maps
Mapped(f) == shm_lock(file[f].ns, file[f].id)

MapInv(f) == file[f].vmas > 0 => At(Mapped(f), file[f].ns, file[f].id)

CountsInv(n) ==
  /\ ids[n].in_use = Cardinality(DOMAIN ids[n].ipcs_idr)
  /\ shm_tot[n] = PagesOf(SegsOf(n))
  /\ ns[n].life \in {"none", "exited"} => ids[n].in_use = 0

\* the do_shmat calls that pin segment s
Calls(s) == {t \in Tasks : InShmat(t) /\ task[t].shp = s}

AttachInv(s) ==
  seg[s].mem = "live" =>
    /\ seg[s].nattch = Cardinality(Mappings(s)) + Cardinality(Calls(s))
    /\ seg[s].dest => seg[s].nattch > 0

\* ShmAccounting in these terms.
LEMMA AccountingIs ==
  ShmAccounting <=> (\A n \in Namespaces : CountsInv(n)) /\ (\A s \in Segs : AttachInv(s))
  BY DEF ShmAccounting, CountsInv, AttachInv, Calls

\* A namespace that is referenced is alive.
LEMMA Alive ==
  NsInv => /\ \A t \in Tasks : task[t].ns \in Namespaces /\ ns[task[t].ns].life \in {"live", "new"}
           /\ \A f \in Files : file[f].vmas > 0 => /\ file[f].ns \in Namespaces /\ file[f].refs > 0
                                                   /\ ns[file[f].ns].life \in {"live", "new"}
<1> SUFFICES ASSUME NsInv
             PROVE  /\ \A t \in Tasks : task[t].ns \in Namespaces /\ ns[task[t].ns].life \in {"live", "new"}
                    /\ \A f \in Files : file[f].vmas > 0 => /\ file[f].ns \in Namespaces /\ file[f].refs > 0
                                                            /\ ns[file[f].ns].life \in {"live", "new"}
  OBVIOUS
<1>1. \A n \in Namespaces : ns[n].count > 0 => ns[n].life \in {"live", "new"}
  <2>1. \A n \in Namespaces : CountInv(n)
    BY ReachableIs DEF NsInv
  <2> QED BY <2>1, SMTT(30) DEF CountInv
<1>2. ASSUME NEW t \in Tasks PROVE task[t].ns \in Namespaces /\ ns[task[t].ns].count > 0
  BY Referenced DEF NsInv, TaskType, TaskRec
<1>3. ASSUME NEW f \in Files, file[f].vmas > 0
      PROVE  file[f].ns \in Namespaces /\ file[f].refs > 0 /\ ns[file[f].ns].count > 0
  <2>1. /\ file[f].refs \in Nat /\ file[f].vmas \in Nat /\ file[f].refs >= file[f].vmas + Holders(f)
        /\ file[f].refs > 0 => file[f].ns \in Namespaces
    BY DEF NsInv, FileType, CallInv
  <2>2. IsFiniteSet({u \in Tasks : task[u].file = f})
    BY ShmAssumption, FS_Subset
  <2>3. Holders(f) \in Nat
    BY <2>2, FS_CardinalityType DEF Holders
  <2>4. file[f].refs > 0
    BY <1>3, <2>1, <2>3, SMTT(30)
  <2> QED BY <2>1, <2>4, Referenced
<1> QED BY <1>1, <1>2, <1>3

\* ShmPinned in these terms.
LEMMA PinnedIs ==
  NsInv => (ShmPinned <=> (\A t \in Tasks : PinInv(t)) /\ (\A f \in Files : MapInv(f)))
<1> SUFFICES ASSUME NsInv
             PROVE  ShmPinned <=> (\A t \in Tasks : PinInv(t)) /\ (\A f \in Files : MapInv(f))
  OBVIOUS
<1>1. \A t \in Tasks : InShmat(t) => (Attached(task[t].shp, task[t].ns, task[t].shmid) <=>
                                        At(task[t].shp, task[t].ns, task[t].shmid))
  BY Alive DEF Attached, At
<1>2. \A f \in Files : file[f].vmas > 0 => (Attached(Mapped(f), file[f].ns, file[f].id) <=>
                                              At(Mapped(f), file[f].ns, file[f].id))
  BY Alive DEF Attached, At
<1> QED BY <1>1, <1>2 DEF ShmPinned, PinInv, MapInv, Mapped, At, Attached

\* The invariant in these terms.
LEMMA IInvIs ==
  IInv <=> /\ NsInv /\ SegType /\ TableType /\ TableInv /\ KeyInv
           /\ \A t \in Tasks : FoundInv(t) /\ MeantInv(t) /\ PinInv(t)
           /\ \A f \in Files : MapInv(f)
           /\ \A n \in Namespaces : SeqInv(n) /\ CountsInv(n)
           /\ \A s \in Segs : AttachInv(s)
  BY PinnedIs, AccountingIs DEF IInv

-----------------------------------------------------------------------------
(* What the tables keep *)

\* A step keeps the segments that are not gone, where they are.
Keeps(gone) ==
  /\ \A n \in Namespaces : \A i \in DOMAIN ids[n].ipcs_idr :
       ids[n].ipcs_idr[i] \notin gone => /\ i \in DOMAIN ids'[n].ipcs_idr
                                         /\ ids'[n].ipcs_idr[i] = ids[n].ipcs_idr[i]
  /\ \A s \in Segs : seg[s].mem = "live" /\ s \notin gone =>
       /\ seg'[s].mem = "live" /\ seg'[s].id = seg[s].id /\ seg'[s].made = seg[s].made
       /\ seg'[s].pages = seg[s].pages /\ seg'[s].key \in {seg[s].key, IPC_PRIVATE}

\* ... and brings no other into a table.
Shrinks(gone) ==
  /\ Keeps(gone)
  /\ \A n \in Namespaces : \A i \in DOMAIN ids'[n].ipcs_idr :
       /\ i \in DOMAIN ids[n].ipcs_idr /\ ids[n].ipcs_idr[i] \notin gone
  /\ \A s \in Segs : /\ s \in gone => seg'[s].mem = "deleted"
                     /\ seg[s].mem # "live" => seg'[s].mem # "live"

\* What a table still holds it held before, and the segment kept its identity.
LEMMA EntryKept ==
  ASSUME IInv, NEW gone, Shrinks(gone), NEW n \in Namespaces, NEW i \in DOMAIN ids'[n].ipcs_idr
  PROVE  LET s == ids[n].ipcs_idr[i]
         IN  /\ i \in DOMAIN ids[n].ipcs_idr /\ ids'[n].ipcs_idr[i] = s
             /\ s \in Segs /\ s \notin gone /\ seg[s].mem = "live"
             /\ seg'[s].mem = "live" /\ seg'[s].id = seg[s].id /\ seg'[s].made = seg[s].made
             /\ seg'[s].key = seg[s].key \/ seg'[s].key = IPC_PRIVATE
<1> DEFINE s == ids[n].ipcs_idr[i]
<1>1. TableInv
  BY DEF IInv
<1>2. i \in DOMAIN ids[n].ipcs_idr /\ s \notin gone
  BY DEF Shrinks
<1>3. ids'[n].ipcs_idr[i] = s
  BY <1>2 DEF Shrinks, Keeps
<1>4. s \in Segs
  BY <1>2, TableFacts
<1>5. seg[s].mem = "live"
  BY <1>1, <1>2 DEF TableInv
<1> HIDE DEF s
<1>6. /\ seg'[s].mem = "live" /\ seg'[s].id = seg[s].id /\ seg'[s].made = seg[s].made
      /\ seg'[s].key = seg[s].key \/ seg'[s].key = IPC_PRIVATE
  BY <1>2, <1>4, <1>5 DEF Shrinks, Keeps
<1> QED BY <1>2, <1>3, <1>4, <1>5, <1>6 DEF s

\* The tables stay in order when segments leave them.
LEMMA ShrinkKeeps ==
  ASSUME IInv, NEW gone, Shrinks(gone)
  PROVE  /\ TableInv' /\ KeyInv'
         /\ \A n \in Namespaces : ids'[n].seq = ids[n].seq /\ made'[n] = made[n] => SeqInv(n)'
<1>1. TableInv /\ KeyInv /\ \A n \in Namespaces : SeqInv(n)
  BY DEF IInv
<1>2. ASSUME NEW n \in Namespaces, NEW i \in DOMAIN ids'[n].ipcs_idr
      PROVE  /\ i \in DOMAIN ids[n].ipcs_idr /\ ids'[n].ipcs_idr[i] = ids[n].ipcs_idr[i]
             /\ ids[n].ipcs_idr[i] \in Segs /\ ids[n].ipcs_idr[i] \notin gone
             /\ seg[ids[n].ipcs_idr[i]].mem = "live"
  BY EntryKept, SMTT(30)
<1>3. ASSUME NEW n \in Namespaces, NEW i \in DOMAIN ids'[n].ipcs_idr
      PROVE  LET s == ids[n].ipcs_idr[i]
             IN  /\ seg'[s].mem = "live" /\ seg'[s].id = seg[s].id /\ seg'[s].made = seg[s].made
                 /\ seg'[s].key = seg[s].key \/ seg'[s].key = IPC_PRIVATE
  BY EntryKept, SMTT(30)
<1>4. TableInv'
  <2>1. ASSUME NEW n \in Namespaces, NEW i \in DOMAIN ids'[n].ipcs_idr
        PROVE  seg'[ids'[n].ipcs_idr[i]].mem = "live" /\ ipcid_to_idx(seg'[ids'[n].ipcs_idr[i]].id) = i
    <3>1. ids'[n].ipcs_idr[i] = ids[n].ipcs_idr[i] /\ i \in DOMAIN ids[n].ipcs_idr
      BY <1>2
    <3>2. seg'[ids[n].ipcs_idr[i]].mem = "live" /\ seg'[ids[n].ipcs_idr[i]].id = seg[ids[n].ipcs_idr[i]].id
      BY <1>3
    <3>3. ipcid_to_idx(seg[ids[n].ipcs_idr[i]].id) = i
      BY <1>1, <3>1 DEF TableInv
    <3> QED BY <3>1, <3>2, <3>3
  <2>2. ASSUME NEW n \in Namespaces, NEW m \in Namespaces, NEW i \in DOMAIN ids'[n].ipcs_idr,
               NEW j \in DOMAIN ids'[m].ipcs_idr, ids'[n].ipcs_idr[i] = ids'[m].ipcs_idr[j]
        PROVE  n = m
    <3>1. /\ i \in DOMAIN ids[n].ipcs_idr /\ ids'[n].ipcs_idr[i] = ids[n].ipcs_idr[i]
          /\ j \in DOMAIN ids[m].ipcs_idr /\ ids'[m].ipcs_idr[j] = ids[m].ipcs_idr[j]
      BY <1>2
    <3>2. ids[n].ipcs_idr[i] = ids[m].ipcs_idr[j]
      BY <2>2, <3>1
    <3> QED BY <1>1, <3>1, <3>2 DEF TableInv
  <2> QED BY <2>1, <2>2 DEF TableInv
<1>5. KeyInv'
  <2> SUFFICES ASSUME NEW n \in Namespaces, NEW i \in DOMAIN ids'[n].ipcs_idr,
                      NEW j \in DOMAIN ids'[n].ipcs_idr,
                      seg'[ids'[n].ipcs_idr[i]].key = seg'[ids'[n].ipcs_idr[j]].key,
                      seg'[ids'[n].ipcs_idr[i]].key # IPC_PRIVATE
               PROVE  i = j
    BY DEF KeyInv
  <2>1. /\ i \in DOMAIN ids[n].ipcs_idr /\ ids'[n].ipcs_idr[i] = ids[n].ipcs_idr[i]
        /\ j \in DOMAIN ids[n].ipcs_idr /\ ids'[n].ipcs_idr[j] = ids[n].ipcs_idr[j]
    BY <1>2
  <2>2. /\ seg'[ids[n].ipcs_idr[i]].key = seg[ids[n].ipcs_idr[i]].key
        /\ seg'[ids[n].ipcs_idr[j]].key = seg[ids[n].ipcs_idr[j]].key
    BY <1>3, <2>1
  <2> QED BY <1>1, <2>1, <2>2 DEF KeyInv
<1>6. ASSUME NEW n \in Namespaces, ids'[n].seq = ids[n].seq, made'[n] = made[n] PROVE SeqInv(n)'
  <2>1. SeqInv(n)
    BY <1>1
  <2>2. ASSUME NEW i \in DOMAIN ids'[n].ipcs_idr
        PROVE  /\ seg'[ids'[n].ipcs_idr[i]].made \in 1..made'[n]
               /\ seg'[ids'[n].ipcs_idr[i]].id \div IPCMNI =
                    (seg'[ids'[n].ipcs_idr[i]].made - 1) % (SEQ_MAX + 1)
    <3>1. /\ i \in DOMAIN ids[n].ipcs_idr /\ ids'[n].ipcs_idr[i] = ids[n].ipcs_idr[i]
          /\ seg'[ids[n].ipcs_idr[i]].id = seg[ids[n].ipcs_idr[i]].id
          /\ seg'[ids[n].ipcs_idr[i]].made = seg[ids[n].ipcs_idr[i]].made
      BY <1>2, <1>3
    <3>2. /\ seg[ids[n].ipcs_idr[i]].made \in 1..made[n]
          /\ seg[ids[n].ipcs_idr[i]].id \div IPCMNI = (seg[ids[n].ipcs_idr[i]].made - 1) % (SEQ_MAX + 1)
      BY <2>1, <3>1 DEF SeqInv
    <3> QED BY <1>6, <3>1, <3>2
  <2> QED BY <1>6, <2>1, <2>2 DEF SeqInv
<1> QED BY <1>4, <1>5, <1>6

\* A process whose identifier is not touched.
LEMMA MeantKept ==
  ASSUME IInv, NEW gone, Shrinks(gone), NEW t \in Tasks, task[t].ns \in Namespaces,
         task'[t].ns = task[t].ns, task'[t].shmid = task[t].shmid, task'[t].meant = task[t].meant,
         made'[task[t].ns] = made[task[t].ns]
  PROVE  MeantInv(t)'
<1> DEFINE n == task[t].ns
<1>1. TableInv /\ MeantInv(t)
  BY DEF IInv
<1>2. ASSUME NEW i \in DOMAIN ids'[n].ipcs_idr
      PROVE  /\ i \in DOMAIN ids[n].ipcs_idr /\ ids'[n].ipcs_idr[i] = ids[n].ipcs_idr[i]
             /\ seg'[ids[n].ipcs_idr[i]].made = seg[ids[n].ipcs_idr[i]].made
  <2>1. n \in Namespaces
    OBVIOUS
  <2> HIDE DEF n
  <2> QED BY <2>1, EntryKept, SMTT(30)
<1>3. ASSUME task[t].meant # 0, NEW i \in DOMAIN ids'[n].ipcs_idr, i = ipcid_to_idx(task[t].shmid)
      PROVE  seg'[ids'[n].ipcs_idr[i]].made >= task[t].meant
  BY <1>1, <1>2, <1>3 DEF MeantInv
<1>4. task[t].meant # 0 => /\ task[t].meant \in 1..made[n]
                           /\ task[t].shmid \div IPCMNI = (task[t].meant - 1) % (SEQ_MAX + 1)
  BY <1>1 DEF MeantInv
<1> QED BY <1>3, <1>4 DEF MeantInv

\* A process that found a segment, which may go but is not freed.
LEMMA FoundKept ==
  ASSUME IInv, NEW gone, Shrinks(gone), NEW t \in Tasks, task[t].ns \in Namespaces,
         task'[t].pc = "found" => /\ task[t].pc = "found" /\ task'[t].ns = task[t].ns
                                  /\ task'[t].shmid = task[t].shmid /\ task'[t].shp = task[t].shp
                                  /\ task[t].shp \in Segs /\ seg'[task[t].shp].mem # "free"
  PROVE  FoundInv(t)'
<1>1. FoundInv(t)
  BY DEF IInv
<1> SUFFICES ASSUME task'[t].pc = "found" PROVE FoundInv(t)'
  BY DEF FoundInv
<1> DEFINE s == task[t].shp
           n == task[t].ns
<1>2. CASE s \in gone
  BY <1>2 DEF FoundInv, Shrinks
<1>3. CASE seg[s].mem # "live"
  BY <1>3 DEF FoundInv, Shrinks
<1>4. CASE s \notin gone /\ seg[s].mem = "live"
  BY <1>1, <1>4, SMTT(30) DEF FoundInv, Shrinks, Keeps, shm_lock
<1> QED BY <1>2, <1>3, <1>4

\* The invariant after a step, from what the step does to each structure.
LEMMA Assemble ==
  ASSUME NsInv', SegType', TableType', TableInv', KeyInv', NEW gone, Keeps(gone),
         \A t \in Tasks : /\ FoundInv(t)' /\ MeantInv(t)'
                          /\ InShmat(t)' => /\ task'[t].shp \in Segs \ gone
                                            /\ At(task'[t].shp, task'[t].ns, task'[t].shmid),
         \A f \in Files : file'[f].vmas > 0 => \E s \in Segs \ gone : At(s, file'[f].ns, file'[f].id),
         \A n \in Namespaces : SeqInv(n)' /\ CountsInv(n)',
         \A s \in Segs : AttachInv(s)'
  PROVE  IInv'
<1>1. /\ \A t \in Tasks : task'[t].ns \in Namespaces
      /\ \A f \in Files : file'[f].vmas > 0 => file'[f].ns \in Namespaces
  <2>1. (NsInv => /\ \A t \in Tasks : task[t].ns \in Namespaces /\ ns[task[t].ns].life \in {"live", "new"}
                  /\ \A f \in Files : file[f].vmas > 0 => /\ file[f].ns \in Namespaces /\ file[f].refs > 0
                                                          /\ ns[file[f].ns].life \in {"live", "new"})'
    BY Alive, PTL
  <2> QED BY <2>1
<1>2. ASSUME NEW t \in Tasks PROVE PinInv(t)'
  <2> SUFFICES ASSUME InShmat(t)' PROVE At(task[t].shp, task[t].ns, task[t].shmid)'
    BY DEF PinInv
  <2>1. task'[t].shp \in Segs \ gone /\ At(task'[t].shp, task'[t].ns, task'[t].shmid) /\ task'[t].ns \in Namespaces
    BY <1>1
  <2> QED BY <2>1 DEF Keeps, At, shm_lock
<1>3. ASSUME NEW f \in Files PROVE MapInv(f)'
  <2> SUFFICES ASSUME file'[f].vmas > 0 PROVE MapInv(f)'
    BY DEF MapInv
  <2>1. PICK s \in Segs \ gone : At(s, file'[f].ns, file'[f].id) /\ file'[f].ns \in Namespaces
    BY <1>1
  <2> QED BY <2>1 DEF MapInv, Mapped, Keeps, At, shm_lock
<1>4. (IInv <=> /\ NsInv /\ SegType /\ TableType /\ TableInv /\ KeyInv
                /\ \A t \in Tasks : FoundInv(t) /\ MeantInv(t) /\ PinInv(t)
                /\ \A f \in Files : MapInv(f)
                /\ \A n \in Namespaces : SeqInv(n) /\ CountsInv(n)
                /\ \A s \in Segs : AttachInv(s))'
  BY IInvIs, PTL
<1> QED BY <1>2, <1>3, <1>4

-----------------------------------------------------------------------------
(* nattch *)

\* file f maps segment s if it did before, and as often
SameMaps(f, s) ==
  /\ file'[f].vmas > 0 /\ Mapped(f)' = s <=> file[f].vmas > 0 /\ Mapped(f) = s
  /\ file[f].vmas > 0 /\ Mapped(f) = s => file'[f].vmas = file[f].vmas

\* The mappings of a segment are counted.
LEMMA MappingsFinite ==
  FileType => \A s : IsFiniteSet(Mappings(s)) /\ Cardinality(Mappings(s)) \in Nat
<1> SUFFICES ASSUME FileType, NEW s
             PROVE  IsFiniteSet(Mappings(s)) /\ Cardinality(Mappings(s)) \in Nat
  OBVIOUS
<1> DEFINE c == [f \in Files |-> file[f].vmas]
<1>1. IsFiniteSet(FilesOf(s)) /\ FilesOf(s) \subseteq Files
  BY ShmAssumption, FS_Subset DEF FilesOf
<1>2. \A f \in FilesOf(s) : c[f] \in Nat /\ c[f] = file[f].vmas
  BY <1>1 DEF FileType
<1>3. Mappings(s) = Blocks(FilesOf(s), c)
  BY <1>2 DEF Mappings, Blocks
<1> HIDE DEF c
<1> QED BY <1>1, <1>2, <1>3, BlocksFinite

\* A mapping is a file and a number.
LEMMA MappingsAre ==
  \A s, p : p \in Mappings(s) <=>
    \E f \in Files : /\ file[f].vmas > 0 /\ Mapped(f) = s
                     /\ \E i \in 1..file[f].vmas : p = <<f, i>>
  BY SMTT(30) DEF Mappings, FilesOf, Mapped

\* A step that leaves the mappings of a segment alone.
LEMMA MappingsSame ==
  ASSUME NEW s, \A f \in Files : SameMaps(f, s) PROVE Mappings(s)' = Mappings(s)
<1>1. ASSUME NEW p PROVE p \in Mappings(s)' <=>
        \E f \in Files : /\ file'[f].vmas > 0 /\ Mapped(f)' = s
                         /\ \E i \in 1..file'[f].vmas : p = <<f, i>>
  BY SMTT(30) DEF Mappings, FilesOf, Mapped
<1>2. ASSUME NEW p PROVE p \in Mappings(s)' <=> p \in Mappings(s)
  BY <1>1, MappingsAre, SMTT(30) DEF SameMaps
<1> QED BY <1>2

\* One mapping of file f more, or less.
LEMMA MappingsStep ==
  ASSUME FileType, FileType', NEW s, NEW f \in Files, \A g \in Files \ {f} : SameMaps(g, s),
         NEW v \in Nat \ {0},
         \/ file[f].vmas = v /\ file'[f].vmas = v - 1
         \/ file[f].vmas = v - 1 /\ file'[f].vmas = v,
         file[f].vmas > 0 /\ file'[f].vmas > 0 => (Mapped(f)' = s <=> Mapped(f) = s)
  PROVE  /\ Cardinality(Mappings(s)) \in Nat /\ Cardinality(Mappings(s))' \in Nat
         /\ Cardinality(Mappings(s))' = Cardinality(Mappings(s))
              + One(file'[f].vmas = v /\ Mapped(f)' = s) - One(file[f].vmas = v /\ Mapped(f) = s)
<1> DEFINE x == <<f, v>>
<1>1. IsFiniteSet(Mappings(s))
  BY MappingsFinite
<1>2. ASSUME NEW p PROVE p \in Mappings(s)' <=>
        \E g \in Files : /\ file'[g].vmas > 0 /\ Mapped(g)' = s
                         /\ \E i \in 1..file'[g].vmas : p = <<g, i>>
  BY SMTT(30) DEF Mappings, FilesOf, Mapped
<1>3. x \in Mappings(s)' <=> file'[f].vmas = v /\ Mapped(f)' = s
  BY <1>2, SMTT(30)
<1>4. x \in Mappings(s) <=> file[f].vmas = v /\ Mapped(f) = s
  BY MappingsAre, SMTT(30)
<1>5. ASSUME NEW g \in Files, NEW i \in Nat, <<g, i>> # x
      PROVE  /\ file[g].vmas \in Nat /\ file'[g].vmas \in Nat
             /\ file'[g].vmas > 0 /\ Mapped(g)' = s /\ i \in 1..file'[g].vmas <=>
                file[g].vmas > 0 /\ Mapped(g) = s /\ i \in 1..file[g].vmas
  <2>1. file[g].vmas \in Nat /\ file'[g].vmas \in Nat
    BY DEF FileType
  <2>2. CASE g # f
    BY <2>1, <2>2 DEF SameMaps
  <2>3. CASE g = f
    <3>1. i # v
      BY <1>5, <2>3
    <3> QED BY <2>1, <2>3, <3>1, SMTT(30)
  <2> QED BY <2>1, <2>2, <2>3
<1> HIDE DEF x
<1>6. Mappings(s) \ {x} = Mappings(s)' \ {x}
  <2>1. ASSUME NEW p, p # x PROVE p \in Mappings(s)' <=> p \in Mappings(s)
    <3>1. \A g \in Files : file[g].vmas \in Nat /\ file'[g].vmas \in Nat
      BY DEF FileType
    <3> QED BY <1>2, <1>5, <2>1, <3>1, MappingsAre, SMTT(30)
  <2> QED BY <2>1
<1>7. /\ Cardinality(Mappings(s)) \in Nat /\ Cardinality(Mappings(s)') \in Nat
      /\ Cardinality(Mappings(s)') = Cardinality(Mappings(s)) + One(x \in Mappings(s)') - One(x \in Mappings(s))
  BY <1>1, <1>6, OneChanged
<1> QED BY <1>3, <1>4, <1>7 DEF One

\* A process starts or ends its do_shmat of a segment.
LEMMA CallsStep ==
  ASSUME NEW t \in Tasks, \A u \in Tasks : u # t => task'[u] = task[u]
  PROVE  \A s : /\ Cardinality(Calls(s)) \in Nat /\ Cardinality(Calls(s))' \in Nat
                /\ Cardinality(Calls(s))' = Cardinality(Calls(s))
                     + One(InShmat(t)' /\ task'[t].shp = s) - One(InShmat(t) /\ task[t].shp = s)
<1> TAKE s
<1>1. IsFiniteSet(Calls(s))
  BY ShmAssumption, FS_Subset DEF Calls
<1>2. /\ Calls(s) \ {t} = Calls(s)' \ {t}
      /\ t \in Calls(s) <=> InShmat(t) /\ task[t].shp = s
      /\ t \in Calls(s)' <=> InShmat(t)' /\ task'[t].shp = s
  BY DEF Calls, InShmat
<1>3. /\ Cardinality(Calls(s)) \in Nat /\ Cardinality(Calls(s)') \in Nat
      /\ Cardinality(Calls(s)') = Cardinality(Calls(s)) + One(t \in Calls(s)') - One(t \in Calls(s))
  BY <1>1, <1>2, OneChanged, SMTT(30)
<1> QED BY <1>2, <1>3 DEF One

\* The do_shmat calls go on as before.
LEMMA CallsSame ==
  ASSUME \A t \in Tasks : /\ InShmat(t)' <=> InShmat(t)
                          /\ InShmat(t) => task'[t].shp = task[t].shp
  PROVE  \A s : Calls(s)' = Calls(s)
  BY DEF Calls

\* A segment that is mapped or pinned has users.
LEMMA Users ==
  ASSUME FileType, NEW s
  PROVE  /\ Cardinality(Calls(s)) \in Nat /\ Cardinality(Mappings(s)) \in Nat
         /\ Cardinality(Calls(s)) = 0 => \A t \in Tasks : InShmat(t) => task[t].shp # s
         /\ Cardinality(Mappings(s)) = 0 => \A f \in Files : file[f].vmas > 0 => Mapped(f) # s
<1>1. IsFiniteSet(Calls(s)) /\ IsFiniteSet(Mappings(s))
  BY ShmAssumption, FS_Subset, MappingsFinite DEF Calls
<1>2. Cardinality(Calls(s)) = 0 => Calls(s) = {}
  BY <1>1, FS_EmptySet
<1>3. Cardinality(Mappings(s)) = 0 => Mappings(s) = {}
  BY <1>1, FS_EmptySet
<1>4. ASSUME NEW f \in Files, file[f].vmas > 0, Mapped(f) = s PROVE <<f, 1>> \in Mappings(s)
  <2>1. 1 \in 1..file[f].vmas
    BY <1>4, SMTT(30) DEF FileType
  <2> QED BY <1>4, <2>1, MappingsAre
<1> QED BY <1>1, <1>2, <1>3, <1>4, FS_CardinalityType DEF Calls

-----------------------------------------------------------------------------
(* in_use and shm_tot *)

\* The pages of a table whose segments change by s at most.
LEMMA PagesStep ==
  ASSUME SegType, SegType', NEW n \in Namespaces, SegsOf(n) \subseteq Segs, NEW s \in Segs,
         SegsOf(n)' \ {s} = SegsOf(n) \ {s},
         \A x \in SegsOf(n) \ {s} : seg'[x].pages = seg[x].pages
  PROVE  /\ PagesOf(SegsOf(n)) \in Nat /\ PagesOf(SegsOf(n))' \in Nat
         /\ PagesOf(SegsOf(n))' = PagesOf(SegsOf(n)) + (IF s \in SegsOf(n)' THEN seg'[s].pages ELSE 0)
                                   - (IF s \in SegsOf(n) THEN seg[s].pages ELSE 0)
<1> DEFINE A == SegsOf(n)
           B == SegsOf(n)'
           C == A \ {s}
           c == [x \in Segs |-> seg[x].pages]
           d == [x \in Segs |-> seg'[x].pages]
<1>1. /\ A \subseteq Segs /\ B \subseteq Segs /\ C \subseteq Segs /\ C = B \ {s} /\ IsFiniteSet(C) /\ s \notin C
  BY ShmAssumption, FS_Subset
<1>2. \A x \in Segs : /\ c[x] \in Nat /\ d[x] \in Nat /\ c[x] = seg[x].pages /\ d[x] = seg'[x].pages
  BY DEF SegType
<1>3. PagesOf(A) = Cardinality(Blocks(A, c))
  BY <1>1, <1>2 DEF PagesOf, Blocks
<1>4. PagesOf(SegsOf(n))' = Cardinality(Blocks(B, d))
  BY <1>1, <1>2 DEF PagesOf, Blocks
<1>5. Blocks(C, c) = Blocks(C, d)
  BY <1>1, <1>2 DEF Blocks
<1>a. /\ \A x \in C \cup {s} : c[x] \in Nat /\ d[x] \in Nat
      /\ s \in A => A = C \cup {s}
      /\ s \notin A => A = C
      /\ s \in B => B = C \cup {s}
      /\ s \notin B => B = C
  BY <1>1, <1>2
<1>b. IsFiniteSet(C) /\ s \notin C
  BY <1>1
<1> HIDE DEF c, d, A, B, C
<1> DEFINE k == Cardinality(Blocks(C, c))
<1>6. k \in Nat
  BY <1>1, <1>2, BlocksFinite
<1>7. Cardinality(Blocks(A, c)) = k + IF s \in A THEN seg[s].pages ELSE 0
  <2>1. CASE s \in A
    <3>1. Cardinality(Blocks(C \cup {s}, c)) = k + c[s]
      BY <1>a, <1>b, BlocksAdd
    <3> QED BY <1>2, <1>a, <2>1, <3>1
  <2>2. CASE s \notin A
    BY <1>6, <1>a, <2>2, SMTT(30)
  <2> QED BY <2>1, <2>2
<1>8. Cardinality(Blocks(B, d)) = k + IF s \in B THEN seg'[s].pages ELSE 0
  <2>1. CASE s \in B
    <3>1. Cardinality(Blocks(C \cup {s}, d)) = k + d[s]
      BY <1>5, <1>a, <1>b, BlocksAdd, SMTT(30)
    <3> QED BY <1>2, <1>a, <2>1, <3>1
  <2>2. CASE s \notin B
    BY <1>5, <1>6, <1>a, <2>2, SMTT(30)
  <2> QED BY <2>1, <2>2
<1> HIDE DEF k
<1>9. /\ seg[s].pages \in Nat /\ seg'[s].pages \in Nat
      /\ PagesOf(SegsOf(n))' = k + (IF s \in B THEN seg'[s].pages ELSE 0)
      /\ PagesOf(SegsOf(n)) = k + (IF s \in A THEN seg[s].pages ELSE 0)
  BY <1>2, <1>3, <1>4, <1>7, <1>8 DEF A
<1> QED BY <1>6, <1>9, SMTT(30) DEF A, B

\* An empty table accounts for nothing.
LEMMA CountsEmpty ==
  ASSUME NEW n \in Namespaces, DOMAIN ids'[n].ipcs_idr = {}, ids'[n].in_use = 0, shm_tot'[n] = 0
  PROVE  CountsInv(n)'
<1>1. SegsOf(n)' = {}
  BY DEF SegsOf
<1>2. PagesOf(SegsOf(n))' = 0
  <2>1. UNION {{s} \X (1..seg'[s].pages) : s \in SegsOf(n)'} = {}
    BY <1>1
  <2> QED BY <2>1, FS_EmptySet DEF PagesOf
<1>3. Cardinality(DOMAIN ids'[n].ipcs_idr) = 0
  BY FS_EmptySet
<1> QED BY <1>2, <1>3 DEF CountsInv

\* A table that keeps its segments.
LEMMA CountsKept ==
  ASSUME IInv, NEW n \in Namespaces,
         DOMAIN ids'[n].ipcs_idr = DOMAIN ids[n].ipcs_idr,
         \A i \in DOMAIN ids[n].ipcs_idr :
           /\ ids'[n].ipcs_idr[i] = ids[n].ipcs_idr[i]
           /\ seg'[ids[n].ipcs_idr[i]].pages = seg[ids[n].ipcs_idr[i]].pages,
         ids'[n].in_use = ids[n].in_use, shm_tot'[n] = shm_tot[n],
         ns'[n].life \in {"none", "exited"} => ns[n].life \in {"none", "exited"}
  PROVE  CountsInv(n)'
<1>1. CountsInv(n)
  BY IInvIs
<1>2. SegsOf(n)' = SegsOf(n) /\ \A s \in SegsOf(n) : seg'[s].pages = seg[s].pages
  BY DEF SegsOf
<1>3. PagesOf(SegsOf(n))' = PagesOf(SegsOf(n))
  <2>1. {{s} \X (1..seg'[s].pages) : s \in SegsOf(n)'} = {{s} \X (1..seg[s].pages) : s \in SegsOf(n)}
    BY <1>2
  <2> QED BY <2>1 DEF PagesOf
<1> QED BY <1>1, <1>3 DEF CountsInv

\* One index more, or less, in a table.
LEMMA TableCount ==
  ASSUME IInv, NEW n \in Namespaces, NEW i
  PROVE  /\ Cardinality(DOMAIN ids[n].ipcs_idr) \in Nat
         /\ i \in DOMAIN ids[n].ipcs_idr =>
              Cardinality(DOMAIN ids[n].ipcs_idr \ {i}) = Cardinality(DOMAIN ids[n].ipcs_idr) - 1
         /\ i \notin DOMAIN ids[n].ipcs_idr =>
              Cardinality(DOMAIN ids[n].ipcs_idr \cup {i}) = Cardinality(DOMAIN ids[n].ipcs_idr) + 1
<1> DEFINE D == DOMAIN ids[n].ipcs_idr
<1>1. IsFiniteSet(D)
  BY TableFacts
<1> HIDE DEF D
<1>2. Cardinality(D) \in Nat
  BY <1>1, FS_CardinalityType
<1>3. i \in D => Cardinality(D \ {i}) = Cardinality(D) - 1
  BY <1>1, FS_RemoveElement
<1>4. i \notin D => Cardinality(D \cup {i}) = Cardinality(D) + 1
  BY <1>1, FS_AddElement
<1> QED BY <1>2, <1>3, <1>4 DEF D

-----------------------------------------------------------------------------
(* The steps that leave segments and tables alone *)

tables == <<ids, shm_tot, seg, made, scope>>

\* no namespace turns up without its table
LifeKept == \A n \in Namespaces : ns'[n].life \in {"none", "exited"} => ns[n].life \in {"none", "exited"}

\* the files stay as they are, as far as they are mapped
MapsKept == \A f \in Files : /\ file'[f].vmas = file[f].vmas
                             /\ file[f].vmas > 0 => file'[f].ns = file[f].ns /\ file'[f].id = file[f].id

\* These steps keep the invariant, given that they keep its first part.
LEMMA QuietSteps ==
  /\ IInv /\ NsInv'
  /\ \/ UNCHANGED vars \/ NsStep
     \/ \E f \in Files : VmaFput(f)
     \/ \E t \in Tasks :
          \/ IpcLockFind(t) \/ IpcLockFail(t) \/ ShmatNoFile(t) \/ ShmatNoMap(t)
          \/ sysvipc_proc_start(t) \/ sysvipc_proc_next(t) \/ sysvipc_proc_stop(t)
          \/ ProcOpen(t) \/ sysvipc_proc_release(t) \/ NsCreated(t) \/ NsSwitch(t)
          \/ (\E u \in Tasks : ipcns_get(t, u)) \/ ipcns_put(t) \/ ipcns_install(t)
          \/ ShmatFput(t) \/ (\E f \in Files : ShmatFile(t, f))
          \/ \E s \in Segs, p \in Pages : ShmgetOld(t, s, p)
  => IInv'
\* What processes and files may do without the tables.
<1>QuietStep.
    ASSUME IInv, NsInv', UNCHANGED tables, LifeKept,
           \A t \in Tasks : /\ FoundInv(t)' /\ MeantInv(t)'
                            /\ InShmat(t)' <=> InShmat(t)
                            /\ InShmat(t) => /\ task'[t].shp = task[t].shp /\ task'[t].ns = task[t].ns
                                             /\ task'[t].shmid = task[t].shmid,
           \A f \in Files : /\ file'[f].vmas = file[f].vmas
                            /\ file[f].vmas > 0 => file'[f].ns = file[f].ns /\ file'[f].id = file[f].id
    PROVE  IInv'
  <2> USE <1>QuietStep
  <2>0. UNCHANGED <<ids, shm_tot, seg, made, scope>>
    BY DEF tables
  <2>1. SegType' /\ TableType' /\ TableInv' /\ KeyInv' /\ \A n \in Namespaces : SeqInv(n)'
    BY <2>0 DEF IInv, SegType, TableType, TableInv, KeyInv, SeqInv
  <2>2. Keeps({})
    BY <2>0 DEF Keeps
  <2>3. ASSUME NEW n \in Namespaces PROVE CountsInv(n)'
    BY <2>0, CountsKept DEF LifeKept
  <2>4. ASSUME NEW s \in Segs PROVE AttachInv(s)'
    <3>1. \A f \in Files : SameMaps(f, s)
      BY <2>0 DEF SameMaps, Mapped, shm_lock
    <3>2. Mappings(s)' = Mappings(s) /\ Calls(s)' = Calls(s)
      BY <3>1, MappingsSame, CallsSame
    <3>3. AttachInv(s)
      BY IInvIs
    <3> QED BY <2>0, <3>2, <3>3 DEF AttachInv
  <2>5. ASSUME NEW t \in Tasks, InShmat(t)'
        PROVE  task'[t].shp \in Segs \ {} /\ At(task'[t].shp, task'[t].ns, task'[t].shmid)
    <3>1. InShmat(t) /\ PinInv(t) /\ LocalsOK(task[t])
      BY <2>5, IInvIs DEF NsInv, CallInv
    <3>2. task[t].shp \in Segs
      BY <3>1 DEF LocalsOK, InShmat
    <3> QED BY <3>1, <3>2 DEF PinInv
  <2>6. ASSUME NEW f \in Files, file'[f].vmas > 0 PROVE \E s \in Segs \ {} : At(s, file'[f].ns, file'[f].id)
    <3>1. At(Mapped(f), file[f].ns, file[f].id) /\ file[f].ns \in Namespaces
      BY <2>6, IInvIs, Alive DEF MapInv
    <3>2. Mapped(f) \in Segs
      BY <3>1, TableFacts DEF At, Mapped, shm_lock
    <3> QED BY <2>6, <3>1, <3>2
  <2> HIDE DEF LifeKept, tables
  <2> QED BY <2>1, <2>2, <2>3, <2>4, <2>5, <2>6, Assemble
\* One process moves.
<1>QuietTask.
    ASSUME IInv, NsInv', UNCHANGED tables, LifeKept, NEW t \in Tasks,
           \A u \in Tasks : u # t => task'[u] = task[u],
           FoundInv(t)', MeantInv(t)', InShmat(t)' <=> InShmat(t),
           InShmat(t) => /\ task'[t].shp = task[t].shp /\ task'[t].ns = task[t].ns
                         /\ task'[t].shmid = task[t].shmid,
           \A f \in Files : /\ file'[f].vmas = file[f].vmas
                            /\ file[f].vmas > 0 => file'[f].ns = file[f].ns /\ file'[f].id = file[f].id
    PROVE  IInv'
  <2> USE <1>QuietTask
  <2>1. ASSUME NEW u \in Tasks, u # t
        PROVE  /\ FoundInv(u)' /\ MeantInv(u)' /\ task'[u] = task[u]
               /\ InShmat(u)' <=> InShmat(u)
    <3>1. FoundInv(u) /\ MeantInv(u) /\ task'[u] = task[u]
      BY <2>1 DEF IInv
    <3>2. UNCHANGED <<ids, seg, made>>
      BY DEF tables
    <3>3. FoundInv(u)'
      BY <3>1, <3>2 DEF FoundInv, shm_lock
    <3>4. MeantInv(u)'
      BY <3>1, <3>2 DEF MeantInv
    <3> QED BY <3>1, <3>3, <3>4 DEF InShmat
  <2>2. \A u \in Tasks : /\ FoundInv(u)' /\ MeantInv(u)'
                         /\ InShmat(u)' <=> InShmat(u)
                         /\ InShmat(u) => /\ task'[u].shp = task[u].shp /\ task'[u].ns = task[u].ns
                                          /\ task'[u].shmid = task[u].shmid
    BY <2>1
  <2> HIDE DEF LifeKept, tables
  <2> QED BY <2>2, <1>QuietStep
\* get_ipc_ns and put_ipc_ns end no namespace but by making it die.
<1>GetPutLife.
    ASSUME NsType, NEW m \in Namespaces, NEW k \in Namespaces,
           \/ ns' = get_ipc_ns(ns, m) \/ ns' = put_ipc_ns(ns, m)
           \/ ns' = get_ipc_ns(put_ipc_ns(ns, m), k)
    PROVE  LifeKept
  <2> USE <1>GetPutLife
  <2>1. ns \in [Namespaces -> [life : Lives, count : Nat, sb : BOOLEAN, mq : {0, 1}]]
    BY DEF NsType
  <2> DEFINE p == put_ipc_ns(ns, m)
  <2>2. \A n \in Namespaces : p[n].life \in {ns[n].life, "dying"}
    BY <2>1 DEF put_ipc_ns
  <2>3. \A n \in Namespaces : get_ipc_ns(ns, m)[n].life = ns[n].life
    BY <2>1 DEF get_ipc_ns
  <2>4. DOMAIN p = Namespaces /\ \A n \in Namespaces : DOMAIN p[n] = {"life", "count", "sb", "mq"}
    BY <2>1 DEF put_ipc_ns
  <2> HIDE DEF p
  <2>5. \A n \in Namespaces : get_ipc_ns(p, k)[n].life = p[n].life
    BY <2>4 DEF get_ipc_ns
  <2>6. ns' = get_ipc_ns(ns, m) \/ ns' = p \/ ns' = get_ipc_ns(p, k)
    BY DEF p
  <2> QED BY <2>2, <2>3, <2>5, <2>6 DEF LifeKept
\* One process moves and keeps its identifier.
<1>QuietLocal.
    ASSUME IInv, NsInv', UNCHANGED tables, LifeKept, MapsKept, NEW t \in Tasks,
           \A u \in Tasks : u # t => task'[u] = task[u],
           task'[t].ns = task[t].ns, task'[t].shmid = task[t].shmid, task'[t].meant = task[t].meant,
           task'[t].pc = "found" => FoundInv(t)',
           InShmat(t)' <=> InShmat(t), InShmat(t) => task'[t].shp = task[t].shp
    PROVE  IInv'
  <2> USE <1>QuietLocal
  <2>1. MeantInv(t)'
    <3>1. MeantInv(t) /\ UNCHANGED <<ids, seg, made>>
      BY DEF IInv, tables
    <3> QED BY <3>1 DEF MeantInv
  <2>2. FoundInv(t)'
    BY DEF FoundInv
  <2> QED BY <2>1, <2>2, <1>QuietTask DEF MapsKept
\* The steps of one process that touch neither namespaces nor files.
<1>QuietCalls.
    ASSUME IInv, NsInv', NEW t \in Tasks,
           \/ IpcLockFind(t) \/ IpcLockFail(t) \/ ShmatNoFile(t) \/ ShmatNoMap(t)
           \/ sysvipc_proc_start(t) \/ sysvipc_proc_next(t) \/ sysvipc_proc_stop(t)
    PROVE  IInv'
  <2> USE <1>QuietCalls
  <2>0. /\ NsInv /\ task \in [Tasks -> TaskRec] /\ task[t] \in TaskRec /\ LocalsOK(task[t])
        /\ task[t].ns \in Namespaces /\ TableInv
    BY DEF IInv, NsInv, TaskType, TaskRec, CallInv
  <2>1. UNCHANGED <<nsVars, file>> /\ UNCHANGED tables
    BY DEF tables, IpcLockFind, IpcLockFail, ShmatNoFile, ShmatNoMap, sysvipc_proc_start, sysvipc_proc_next, sysvipc_proc_stop
  <2>2. LifeKept /\ MapsKept
    BY <2>1 DEF LifeKept, MapsKept, nsVars
  <2>3. PICK l \in Pcs, s \in Segs \cup {NONE}, p \in Nat :
          /\ task' = [task EXCEPT ![t] = [@ EXCEPT !.pc = l, !.shp = s, !.pos = p]]
          /\ l \in {"pinned", "filed", "mapped", "out"} <=> InShmat(t)
          /\ InShmat(t) => s = task[t].shp
          /\ l = "found" => s \in idr_find(ids[task[t].ns], task[t].shmid)
    <3>1. CASE IpcLockFind(t)
      <4>1. PICK s \in idr_find(ids[task[t].ns], task[t].shmid) :
              task' = [task EXCEPT ![t].pc = "found", ![t].shp = s] /\ task[t].pc = "idle"
        BY <3>1 DEF IpcLockFind
      <4>2. s \in Segs
        BY <2>0, <4>1, TableFacts DEF idr_find
      <4>3. task' = [task EXCEPT ![t] = [@ EXCEPT !.pc = "found", !.shp = s, !.pos = task[t].pos]]
        BY <2>0, <4>1 DEF TaskRec
      <4>4. task[t].pos \in Nat /\ "found" \in Pcs
        BY <2>0 DEF TaskRec, Pcs
      <4> QED BY <4>1, <4>2, <4>3, <4>4 DEF InShmat
    <3>2. CASE IpcLockFail(t) \/ sysvipc_proc_stop(t)
      <4>1. PICK l \in {"idle", "open"} :
              task' = [task EXCEPT ![t].pc = l, ![t].shp = NONE] /\ task[t].pc \in {"found", "reading"}
        BY <3>2 DEF IpcLockFail, sysvipc_proc_stop
      <4>2. task' = [task EXCEPT ![t] = [@ EXCEPT !.pc = l, !.shp = NONE, !.pos = task[t].pos]]
        BY <2>0, <4>1 DEF TaskRec
      <4>3. task[t].pos \in Nat /\ l \in Pcs /\ l \notin {"found", "pinned", "filed", "mapped", "out"}
        BY <2>0, <4>1 DEF TaskRec, Pcs
      <4> QED BY <4>1, <4>2, <4>3 DEF InShmat
    <3>3. CASE ShmatNoFile(t) \/ ShmatNoMap(t)
      <4>1. PICK l \in {"out", "mapped"} :
              task' = [task EXCEPT ![t].pc = l] /\ task[t].pc \in {"pinned", "filed"}
        BY <3>3 DEF ShmatNoFile, ShmatNoMap
      <4>2. task' = [task EXCEPT ![t] = [@ EXCEPT !.pc = l, !.shp = task[t].shp, !.pos = task[t].pos]]
        BY <2>0, <4>1 DEF TaskRec
      <4>3. task[t].pos \in Nat /\ l \in Pcs /\ task[t].shp \in Segs \cup {NONE}
        BY <2>0, <4>1 DEF TaskRec, Pcs
      <4>4. l \in {"pinned", "filed", "mapped", "out"} /\ l # "found" /\ InShmat(t)
        BY <4>1 DEF InShmat
      <4> QED BY <4>2, <4>3, <4>4
    <3>4. CASE sysvipc_proc_start(t) \/ sysvipc_proc_next(t)
      <4>1. FindIpc(t, task[t].pns, task[t].pos) /\ task[t].pc \in {"open", "reading"}
        BY <3>4 DEF sysvipc_proc_start, sysvipc_proc_next
      <4>2. task[t].pns \in Namespaces /\ "reading" \in Pcs
        BY <2>0, <4>1 DEF LocalsOK, TaskRec, Pcs
      <4> QED BY <4>1, <4>2, FindIpcStep DEF InShmat
    <3> QED BY <3>1, <3>2, <3>3, <3>4
  <2> DEFINE r == [task[t] EXCEPT !.pc = l, !.shp = s, !.pos = p]
  <2>4. r.ns = task[t].ns /\ r.shmid = task[t].shmid /\ r.meant = task[t].meant /\ r.pc = l /\ r.shp = s
    BY <2>0 DEF TaskRec
  <2>5. task'[t] = r /\ \A u \in Tasks : u # t => task'[u] = task[u]
    BY <2>0, <2>3
  <2> HIDE DEF r
  <2>6. (InShmat(t)' <=> InShmat(t)) /\ (InShmat(t) => task'[t].shp = task[t].shp)
    BY <2>3, <2>4, <2>5 DEF InShmat
  <2>7. ASSUME task'[t].pc = "found" PROVE FoundInv(t)'
    <3>1. s \in idr_find(ids[task[t].ns], task[t].shmid) /\ UNCHANGED <<ids, seg>>
      BY <2>1, <2>3, <2>4, <2>5, <2>7 DEF tables
    <3>2. task'[t].ns = task[t].ns /\ task'[t].shmid = task[t].shmid /\ task'[t].shp = s
      BY <2>4, <2>5
    <3>3. /\ ipcid_to_idx(task[t].shmid) \in DOMAIN ids[task[t].ns].ipcs_idr
          /\ ids[task[t].ns].ipcs_idr[ipcid_to_idx(task[t].shmid)] = s
      BY <3>1 DEF idr_find
    <3>4. seg[s].mem = "live"
      BY <2>0, <3>3 DEF TableInv
    <3>5. seg'[s].mem # "free" /\ shm_lock(task[t].ns, task[t].shmid)' = s
      BY <3>1, <3>2, <3>3, <3>4 DEF shm_lock
    <3> QED BY <3>1, <3>2, <3>3, <3>5 DEF FoundInv, shm_lock
  <2> QED BY <2>1, <2>2, <2>4, <2>5, <2>6, <2>7, <1>QuietLocal
\* shmget of a segment that exists returns its identifier.
<1>QuietShmget.
    ASSUME IInv, NsInv', NEW t \in Tasks, NEW s \in Segs, NEW pages, ShmgetOld(t, s, pages)
    PROVE  IInv'
  <2> USE <1>QuietShmget
  <2> DEFINE n == task[t].ns
  <2>0. /\ task \in [Tasks -> TaskRec] /\ task[t] \in TaskRec /\ n \in Namespaces
        /\ TableInv /\ SeqInv(n) /\ SegType
    BY DEF IInv, NsInv, TaskType, TaskRec
  <2>1. /\ UNCHANGED <<nsVars, file>> /\ UNCHANGED tables /\ task[t].pc = "idle"
        /\ task' = [task EXCEPT ![t].shmid = seg[s].id, ![t].meant = seg[s].made]
    BY DEF ShmgetOld, tables
  <2>2. LifeKept /\ MapsKept
    BY <2>1 DEF LifeKept, MapsKept, nsVars
  <2>3. PICK i \in DOMAIN ids[n].ipcs_idr : ids[n].ipcs_idr[i] = s
    BY DEF ShmgetOld, ipc_findkey, Visited
  <2>4. /\ \A u \in Tasks : u # t => task'[u] = task[u]
        /\ task'[t].pc = "idle" /\ task'[t].ns = n /\ task'[t].shmid = seg[s].id /\ task'[t].meant = seg[s].made
    BY <2>0, <2>1 DEF TaskRec
  <2>5. MeantInv(t)'
    <3>1. ipcid_to_idx(seg[s].id) = i /\ seg[s].made \in 1..made[n]
          /\ seg[s].id \div IPCMNI = (seg[s].made - 1) % (SEQ_MAX + 1)
      BY <2>0, <2>3 DEF TableInv, SeqInv
    <3>2. UNCHANGED <<ids, seg, made>> /\ seg[s].made \in Nat
      BY <2>0, <2>1 DEF tables, SegType
    <3>3. /\ task'[t].meant \in 1..made'[task'[t].ns]
          /\ task'[t].shmid \div IPCMNI = (task'[t].meant - 1) % (SEQ_MAX + 1)
      BY <2>4, <3>1, <3>2
    <3>4. ASSUME NEW j \in DOMAIN ids'[task'[t].ns].ipcs_idr, j = ipcid_to_idx(task'[t].shmid)
          PROVE  seg'[ids'[task'[t].ns].ipcs_idr[j]].made >= task'[t].meant
      <4>1. j = i /\ ids'[task'[t].ns].ipcs_idr[j] = s /\ seg' = seg
        BY <2>3, <2>4, <3>1, <3>2, <3>4
      <4> QED BY <2>4, <3>2, <4>1
    <3> QED BY <3>3, <3>4, ZenonT(30), SMTT(30) DEF MeantInv
  <2>6. FoundInv(t)' /\ ~InShmat(t) /\ ~InShmat(t)'
    BY <2>1, <2>4 DEF FoundInv, InShmat
  <2> QED BY <2>1, <2>2, <2>4, <2>5, <2>6, <1>QuietTask DEF MapsKept
\* The steps of one process that change references of namespaces.
<1>QuietMoves.
    ASSUME IInv, NsInv', NEW t \in Tasks,
           \/ ProcOpen(t) \/ sysvipc_proc_release(t) \/ NsCreated(t) \/ NsSwitch(t)
           \/ (\E u \in Tasks : ipcns_get(t, u)) \/ ipcns_put(t) \/ ipcns_install(t)
    PROVE  IInv'
  <2> USE <1>QuietMoves
  <2>0. /\ task \in [Tasks -> TaskRec] /\ task[t] \in TaskRec /\ LocalsOK(task[t]) /\ NsType
        /\ \A u \in Tasks : task[u].ns \in Namespaces
        /\ task[t].nsfd \in Namespaces \cup {NONE} /\ task[t].pns \in Namespaces \cup {NONE}
    BY DEF IInv, NsInv, TaskType, TaskRec, CallInv
  <2>1. UNCHANGED file /\ UNCHANGED tables
    BY DEF tables, ProcOpen, sysvipc_proc_release, NsCreated, NsSwitch, ipcns_get, ipcns_put, ipcns_install
  <2>2. MapsKept
    BY <2>1 DEF MapsKept
  <2>3. LifeKept
    <3>1. CASE NsCreated(t)
      <4>1. task[t].pns \in Namespaces
        BY <2>0, <3>1 DEF NsCreated, LocalsOK
      <4>2. ns' = [ns EXCEPT ![task[t].pns].life = "live"]
        BY <3>1 DEF NsCreated, register_ipcns_notifier
      <4> QED BY <2>0, <4>1, <4>2 DEF LifeKept, NsType
    <3>2. CASE ProcOpen(t) \/ sysvipc_proc_release(t) \/ NsSwitch(t)
      <4>1. task[t].pns \in Namespaces \/ ~sysvipc_proc_release(t)
        BY <2>0 DEF sysvipc_proc_release, LocalsOK
      <4> QED BY <2>0, <3>2, <4>1, <1>GetPutLife DEF ProcOpen, sysvipc_proc_release, NsSwitch
    <3>3. ASSUME NEW u \in Tasks, ipcns_get(t, u) PROVE LifeKept
      BY <2>0, <3>3, <1>GetPutLife DEF ipcns_get
    <3>4. CASE ipcns_put(t) \/ ipcns_install(t)
      <4>1. task[t].nsfd \in Namespaces
        BY <2>0, <3>4 DEF ipcns_put, ipcns_install
      <4> QED BY <2>0, <3>4, <4>1, <1>GetPutLife DEF ipcns_put, ipcns_install
    <3> QED BY <3>1, <3>2, <3>3, <3>4
  <2>4. \A u \in Tasks : u # t => task'[u] = task[u]
    BY <2>0 DEF ProcOpen, sysvipc_proc_release, NsCreated, NsSwitch, ipcns_get, ipcns_put, ipcns_install
  <2>5. CASE NsSwitch(t) \/ ipcns_install(t)
    <3>1. task[t].pc \in {"idle", "switching"} /\ task'[t].pc = "idle" /\ task'[t].meant = 0
      BY <2>0, <2>5, SMTT(30) DEF NsSwitch, ipcns_install, TaskRec
    <3>2. FoundInv(t)' /\ MeantInv(t)' /\ ~InShmat(t) /\ ~InShmat(t)'
      BY <3>1 DEF FoundInv, MeantInv, InShmat
    <3> QED BY <2>1, <2>2, <2>3, <2>4, <3>2, <1>QuietTask DEF MapsKept
  <2>6. CASE ~(NsSwitch(t) \/ ipcns_install(t))
    <3>1. /\ task'[t].ns = task[t].ns /\ task'[t].shmid = task[t].shmid /\ task'[t].meant = task[t].meant
          /\ task'[t].shp = task[t].shp
      BY <2>0, <2>6, SMTT(30) DEF ProcOpen, sysvipc_proc_release, NsCreated, ipcns_get, ipcns_put, TaskRec
    <3>2. \/ task[t].pc \in {"idle", "open", "creating"} /\ task'[t].pc \in {"idle", "open", "switching"}
          \/ task'[t].pc = task[t].pc
      BY <2>0, <2>6, SMTT(30) DEF ProcOpen, sysvipc_proc_release, NsCreated, ipcns_get, ipcns_put, TaskRec
    <3>3. (InShmat(t)' <=> InShmat(t)) /\ (InShmat(t) => task'[t].shp = task[t].shp)
      BY <3>1, <3>2 DEF InShmat
    <3>4. ASSUME task'[t].pc = "found" PROVE FoundInv(t)'
      <4>1. FoundInv(t) /\ UNCHANGED <<ids, seg>>
        BY <2>1 DEF IInv, tables
      <4> QED BY <3>1, <3>2, <3>4, <4>1 DEF FoundInv, shm_lock
    <3> QED BY <2>1, <2>2, <2>3, <2>4, <3>1, <3>3, <3>4, <1>QuietLocal
  <2> QED BY <2>5, <2>6
\* The steps of namespaces alone.
<1>QuietNs.
    ASSUME IInv, NsInv', NsStep PROVE IInv'
  <2> USE <1>QuietNs
  <2>0. NsType
    BY DEF IInv, NsInv
  <2>1. UNCHANGED <<file, task>> /\ UNCHANGED tables
    BY DEF NsStep, shmVars, tables
  <2>2. LifeKept
    <3>1. CASE UNCHANGED ns
      BY <3>1 DEF LifeKept
    <3>2. ASSUME NEW n \in Namespaces, unregister_ipcns_notifier(n) \/ NotifyRemoved(n) PROVE LifeKept
      BY <2>0, <3>2 DEF unregister_ipcns_notifier, NotifyRemoved, LifeKept, NsType
    <3>3. ASSUME NEW n \in Namespaces, get_ns_from_inode(n) PROVE LifeKept
      <4>1. ns' = [get_ipc_ns(ns, n) EXCEPT ![n].mq = 1]
        BY <3>3 DEF get_ns_from_inode
      <4>2. \A m \in Namespaces : ns'[m].life = ns[m].life
        BY <2>0, <4>1 DEF get_ipc_ns, NsType
      <4> QED BY <4>2 DEF LifeKept
    <3>4. ASSUME NEW n \in Namespaces, mqueue_put_ns(n) PROVE LifeKept
      <4> DEFINE g == [ns EXCEPT ![n].mq = 0]
      <4>1. ns' = put_ipc_ns(g, n)
        BY <3>4 DEF mqueue_put_ns
      <4>2. /\ g \in [Namespaces -> [life : Lives, count : Nat, sb : BOOLEAN, mq : {0, 1}]]
            /\ \A m \in Namespaces : g[m].life = ns[m].life
        BY <2>0 DEF NsType
      <4> HIDE DEF g
      <4>3. \A m \in Namespaces : ns'[m].life \in {g[m].life, "dying"}
        BY <4>1, <4>2, SMTT(30) DEF put_ipc_ns
      <4> QED BY <4>2, <4>3 DEF LifeKept
    <3> QED BY <3>1, <3>2, <3>3, <3>4 DEF NsStep, ipc_memory_notifier, ipcns_callback
  <2>3. ASSUME NEW t \in Tasks
        PROVE  /\ FoundInv(t)' /\ MeantInv(t)'
               /\ InShmat(t)' <=> InShmat(t)
    <3>1. FoundInv(t) /\ MeantInv(t) /\ UNCHANGED <<ids, seg, made, task>>
      BY <2>1 DEF IInv, tables
    <3> QED BY <3>1 DEF FoundInv, MeantInv, InShmat, shm_lock
  <2> QED BY <2>1, <2>2, <2>3, <1>QuietStep
\* do_shmat makes its file and puts it, a mapping's file is put.
<1>QuietFiles.
    ASSUME IInv, NsInv', NEW f \in Files,
           \/ VmaFput(f)
           \/ \E t \in Tasks : ShmatFile(t, f) \/ (ShmatFput(t) /\ task[t].file = f)
    PROVE  IInv'
  <2> USE <1>QuietFiles
  <2>0. /\ NsInv /\ NsType /\ file \in [Files -> FileRec] /\ task \in [Tasks -> TaskRec]
        /\ \A t \in Tasks : task[t].ns \in Namespaces
    BY DEF IInv, NsInv, FileType, FileRec, TaskType, TaskRec
  <2>1. /\ file[f].refs \in Nat /\ file[f].vmas \in Nat /\ file[f].refs >= file[f].vmas + Holders(f)
        /\ file[f].refs > 0 => file[f].ns \in Namespaces
    BY <2>0 DEF FileRec, NsInv, CallInv
  <2>2. Holders(f) \in Nat
    <3>1. IsFiniteSet({u \in Tasks : task[u].file = f})
      BY ShmAssumption, FS_Subset
    <3> QED BY <3>1, FS_CardinalityType DEF Holders
  <2>3. UNCHANGED tables
    BY DEF VmaFput, ShmatFile, ShmatFput, tables
  <2> DEFINE Kept == LifeKept /\ MapsKept
  <2>4. Kept
    <3>1. ASSUME NEW t \in Tasks, ShmatFile(t, f) PROVE Kept
      <4>1. file[f].vmas = 0 /\ ns' = get_ipc_ns(ns, task[t].ns)
        BY <2>1, <2>2, <3>1, SMTT(30) DEF ShmatFile
      <4>2. file'[f].vmas = 0 /\ \A g \in Files : g # f => file'[g] = file[g]
        BY <2>0, <3>1 DEF ShmatFile
      <4>3. MapsKept
        BY <4>1, <4>2, SMTT(30) DEF MapsKept
      <4> QED BY <2>0, <4>1, <4>3, <1>GetPutLife
    <3>2. CASE fput(f) /\ (file[f].refs = 1 => file[f].vmas = 0)
      <4>1. CASE file[f].refs = 1
        <5>1. file' = [file EXCEPT ![f] = NoFile] /\ ns' = put_ipc_ns(ns, file[f].ns)
          BY <3>2, <4>1, SMTT(30) DEF fput
        <5>2. MapsKept
          BY <2>0, <3>2, <4>1, <5>1, SMTT(30) DEF MapsKept, NoFile
        <5> QED BY <2>0, <2>1, <4>1, <5>1, <5>2, <1>GetPutLife, SMTT(30)
      <4>2. CASE file[f].refs # 1
        <5>1. file' = [file EXCEPT ![f].refs = @ - 1] /\ UNCHANGED ns
          BY <3>2, <4>2 DEF fput
        <5>2. MapsKept
          BY <2>0, <5>1 DEF MapsKept, FileRec
        <5>3. LifeKept
          BY <5>1 DEF LifeKept
        <5> QED BY <5>2, <5>3
      <4> QED BY <4>1, <4>2
    <3>3. CASE VmaFput(f)
      BY <2>1, <2>2, <3>2, <3>3, SMTT(30) DEF VmaFput
    <3>4. ASSUME NEW t \in Tasks, ShmatFput(t), task[t].file = f PROVE Kept
      <4>1. Holders(f) > 0
        BY <2>0, <3>4, HolderCounts
      <4>2. file[f].refs = 1 => file[f].vmas = 0
        BY <2>1, <2>2, <4>1, SMTT(30)
      <4> QED BY <3>2, <3>4, <4>2 DEF ShmatFput
    <3> HIDE DEF Kept
    <3> QED BY <3>1, <3>3, <3>4
  <2>5. CASE VmaFput(f)
    <3>1. ASSUME NEW t \in Tasks
          PROVE  /\ FoundInv(t)' /\ MeantInv(t)' /\ task'[t] = task[t]
                 /\ InShmat(t)' <=> InShmat(t)
      <4>1. FoundInv(t) /\ MeantInv(t) /\ UNCHANGED <<ids, seg, made, task>>
        BY <2>3, <2>5 DEF IInv, tables, VmaFput
      <4> QED BY <4>1 DEF FoundInv, MeantInv, InShmat, shm_lock
    <3> QED BY <2>3, <2>4, <3>1, <1>QuietStep DEF MapsKept
  <2>6. ASSUME NEW t \in Tasks, ShmatFile(t, f) \/ ShmatFput(t) PROVE IInv'
    <3>1. /\ task'[t].ns = task[t].ns /\ task'[t].shmid = task[t].shmid /\ task'[t].meant = task[t].meant
          /\ task'[t].shp = task[t].shp /\ task'[t].pc \in {"filed", "out"} /\ task[t].pc \in {"pinned", "mapped"}
      BY <2>0, <2>6, SMTT(30) DEF ShmatFile, ShmatFput, TaskRec
    <3>2. \A u \in Tasks : u # t => task'[u] = task[u]
      BY <2>0, <2>6 DEF ShmatFile, ShmatFput
    <3>3. InShmat(t)' /\ InShmat(t) /\ task'[t].pc # "found"
      BY <3>1 DEF InShmat
    <3> QED BY <2>3, <2>4, <3>1, <3>2, <3>3, <1>QuietLocal
  <2> QED BY <2>5, <2>6
\* Nothing happens.
<1>QuietStutter. ASSUME IInv, NsInv', UNCHANGED vars PROVE IInv'
  <2> USE <1>QuietStutter
  <2>1. UNCHANGED tables /\ UNCHANGED <<ns, task, file>>
    BY DEF vars, nsVars, shmVars, tables
  <2>2. LifeKept
    BY <2>1 DEF LifeKept
  <2>3. ASSUME NEW t \in Tasks
        PROVE  /\ FoundInv(t)' /\ MeantInv(t)'
               /\ InShmat(t)' <=> InShmat(t)
    <3>1. FoundInv(t) /\ MeantInv(t) /\ UNCHANGED <<ids, seg, made, task>>
      BY <2>1 DEF IInv, tables
    <3> QED BY <3>1 DEF FoundInv, MeantInv, InShmat, shm_lock
  <2> QED BY <2>1, <2>2, <2>3, <1>QuietStep
<1> SUFFICES ASSUME IInv, NsInv',
                    \/ UNCHANGED vars \/ NsStep
                    \/ \E f \in Files : VmaFput(f)
                    \/ \E t \in Tasks :
                         \/ IpcLockFind(t) \/ IpcLockFail(t) \/ ShmatNoFile(t) \/ ShmatNoMap(t)
                         \/ sysvipc_proc_start(t) \/ sysvipc_proc_next(t) \/ sysvipc_proc_stop(t)
                         \/ ProcOpen(t) \/ sysvipc_proc_release(t) \/ NsCreated(t) \/ NsSwitch(t)
                         \/ (\E u \in Tasks : ipcns_get(t, u)) \/ ipcns_put(t) \/ ipcns_install(t)
                         \/ ShmatFput(t) \/ (\E f \in Files : ShmatFile(t, f))
                         \/ \E s \in Segs, p \in Pages : ShmgetOld(t, s, p)
             PROVE  IInv'
  OBVIOUS
<1>1. ASSUME NEW t \in Tasks, ShmatFput(t) PROVE IInv'
  <2>1. task[t].file \in Files
    BY <1>1, ShmAssumption DEF IInv, NsInv, TaskType, TaskRec, CallInv, LocalsOK, ShmatFput
  <2> QED BY <1>1, <2>1, <1>QuietFiles
<1> QED BY <1>1, <1>QuietCalls, <1>QuietShmget, <1>QuietMoves, <1>QuietNs, <1>QuietFiles, <1>QuietStutter
=============================================================================
