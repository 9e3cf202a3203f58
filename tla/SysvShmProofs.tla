--------------------------- MODULE SysvShmProofs ---------------------------
(***************************************************************************)
(* Theorems about SysvShm: the steps that change segments and tables keep *)
(* the invariant of SysvShmInv (tables, keys, identifiers, attach counts), *)
(* and the properties that follow from it.                                 *)
(***************************************************************************)
EXTENDS SysvShmInv

\* the provers tried, in this order, on a step that names none
USE ZenonT(30), SMTT(30)

-----------------------------------------------------------------------------
(* What happens to a segment *)

SegRec == [mem : {"free", "live", "deleted"}, key : Keys \cup {IPC_PRIVATE}, id : Nat,
           pages : Nat, nattch : Nat, dest : BOOLEAN, made : Nat]

\* The segment of a mapped file is the one nattch counts.
LEMMA MappedAt ==
  ASSUME IInv, NEW f \in Files, file[f].vmas > 0
  PROVE  /\ At(Mapped(f), file[f].ns, file[f].id) /\ Mapped(f) \in Segs /\ file[f].ns \in Namespaces
         /\ Cardinality(Mappings(Mapped(f))) > 0
<1>1. At(Mapped(f), file[f].ns, file[f].id) /\ file[f].ns \in Namespaces /\ FileType
  BY IInvIs, Alive DEF MapInv, NsInv
<1>2. Mapped(f) \in Segs
  BY <1>1, TableFacts DEF At, Mapped, shm_lock
<1>3. Cardinality(Mappings(Mapped(f))) > 0
  BY <1>1, Users, SMTT(30)
<1> QED BY <1>1, <1>2, <1>3

\* Attaching, detaching and IPC_RMID keep the invariant.
LEMMA AttachSteps ==
  /\ IInv /\ NsInv'
  /\ \/ \E f \in Files : Fork(f) \/ shm_close(f)
     \/ \E t \in Tasks : ShmctlRmid(t) \/ ShmatPin(t) \/ ShmatMap(t) \/ ShmatOut(t)
  => IInv'
\* A segment is attached, detached or marked; no table changes.
<1>SegAdjusted.
    ASSUME IInv, NEW s \in Segs, NEW r \in SegRec, seg' = [seg EXCEPT ![s] = r],
           r.mem = seg[s].mem, r.id = seg[s].id, r.pages = seg[s].pages, r.made = seg[s].made,
           r.key \in {seg[s].key, IPC_PRIVATE}, UNCHANGED <<ids, shm_tot, made, scope>>, LifeKept
    PROVE  /\ SegType' /\ TableType' /\ Shrinks({}) /\ \A n \in Namespaces : CountsInv(n)'
           /\ seg'[s] = r /\ \A x \in Segs : x # s => seg'[x] = seg[x]
  <2> USE <1>SegAdjusted
  <2>1. SegType /\ TableType
    BY DEF IInv
  <2>2. SegType' /\ seg'[s] = r /\ \A x \in Segs : x # s => seg'[x] = seg[x]
    BY <2>1 DEF SegType, SegRec
  <2>3. TableType'
    BY <2>1 DEF TableType
  <2>4. Shrinks({})
    BY <2>2 DEF Shrinks, Keeps
  <2>5. ASSUME NEW n \in Namespaces PROVE CountsInv(n)'
    <3>1. \A i \in DOMAIN ids[n].ipcs_idr : ids[n].ipcs_idr[i] \in Segs
      BY TableFacts
    <3>2. \A i \in DOMAIN ids[n].ipcs_idr : seg'[ids[n].ipcs_idr[i]].pages = seg[ids[n].ipcs_idr[i]].pages
      BY <2>2, <3>1
    <3> QED BY <3>2, CountsKept DEF LifeKept
  <2> QED BY <2>2, <2>3, <2>4, <2>5
\* A segment is removed from its table and deleted.
<1>SegDestroyed.
    ASSUME IInv, NEW n \in Namespaces, NEW s \in Segs, At(s, n, seg[s].id), shm_destroy(n, s),
           UNCHANGED <<made, scope>>, LifeKept
    PROVE  /\ SegType' /\ TableType' /\ Shrinks({s})
           /\ \A m \in Namespaces : CountsInv(m)' /\ ids'[m].seq = ids[m].seq
           /\ \A x \in Segs : x # s => seg'[x] = seg[x]
  <2> USE <1>SegDestroyed
  <2> DEFINE i == ipcid_to_idx(seg[s].id)
             D == DOMAIN ids[n].ipcs_idr
             p == [j \in D \ {i} |-> ids[n].ipcs_idr[j]]
             u == ids[n].in_use - 1
  <2>1. SegType /\ TableType /\ TableInv /\ (\A m \in Namespaces : CountsInv(m)) /\ seg[s].mem = "live"
    BY IInvIs DEF At
  <2>2. i \in D /\ ids[n].ipcs_idr[i] = s
    BY DEF At, shm_lock
  <2>3. /\ D \subseteq Indexes /\ (\A j \in D : ids[n].ipcs_idr[j] \in Segs)
        /\ ids[n].in_use = Cardinality(D)
    BY TableFacts
  <2>4. Cardinality(D) \in Nat /\ Cardinality(D \ {i}) = Cardinality(D) - 1
    BY <2>2, TableCount
  <2>5. IsFiniteSet(D \ {i})
    BY TableFacts, FS_RemoveElement
  <2>6. u \in Nat /\ u = Cardinality(D \ {i})
    BY <2>3, <2>4, <2>5, FS_CardinalityType
  <2>7. SegType' /\ seg'[s].mem = "deleted" /\ seg'[s].pages = seg[s].pages /\ \A x \in Segs : x # s => seg'[x] = seg[x]
    BY <2>1 DEF SegType, shm_destroy
  <2>8. \A j \in D \ {i} : ids[n].ipcs_idr[j] # s
    BY <2>1, <2>2 DEF TableInv
  <2>9. ids' = [ids EXCEPT ![n] = [@ EXCEPT !.ipcs_idr = p, !.in_use = u]]
    BY DEF shm_destroy, ipc_rmid, Restrict
  <2>10. p \in [D \ {i} -> Segs] /\ DOMAIN p = D \ {i} /\ \A j \in D \ {i} : p[j] = ids[n].ipcs_idr[j]
    BY <2>3
  <2> HIDE DEF p, u, D
  <2> DEFINE Tab == [ipcs_idr : UNION {[E -> Segs] : E \in SUBSET Indexes}, in_use : Nat, seq : 0..SEQ_MAX]
             q == [ids[n] EXCEPT !.ipcs_idr = p, !.in_use = u]
  <2>11. ids \in [Namespaces -> Tab]
    BY <2>1 DEF TableType
  <2>12. p \in UNION {[E -> Segs] : E \in SUBSET Indexes}
    <3>1. D \ {i} \in SUBSET Indexes
      BY <2>3
    <3> QED BY <2>10, <3>1
  <2>13. q \in Tab /\ q.ipcs_idr = p /\ q.in_use = u /\ q.seq = ids[n].seq
    <3> DEFINE U == UNION {[E -> Segs] : E \in SUBSET Indexes}
    <3>1. p \in U /\ ids[n] \in [ipcs_idr : U, in_use : Nat, seq : 0..SEQ_MAX]
      BY <2>11, <2>12
    <3> HIDE DEF U
    <3>2. q \in [ipcs_idr : U, in_use : Nat, seq : 0..SEQ_MAX] /\ q.ipcs_idr = p /\ q.in_use = u /\ q.seq = ids[n].seq
      BY <2>6, <3>1
    <3> QED BY <3>2 DEF U
  <2> HIDE DEF q, Tab
  <2>14. ids' \in [Namespaces -> Tab] /\ ids'[n] = q /\ \A m \in Namespaces : m # n => ids'[m] = ids[m]
    BY <2>9, <2>11, <2>13 DEF q
  <2>15. /\ DOMAIN ids'[n].ipcs_idr = D \ {i} /\ ids'[n].in_use = u /\ ids'[n].seq = ids[n].seq
         /\ \A j \in D \ {i} : ids'[n].ipcs_idr[j] = ids[n].ipcs_idr[j]
    BY <2>10, <2>13, <2>14
  <2>16. \A m \in Namespaces \ {n} : \A j \in DOMAIN ids[m].ipcs_idr :
           ids[m].ipcs_idr[j] \in Segs /\ ids[m].ipcs_idr[j] # s
    BY <2>1, <2>2, TableFacts, SMTT(30) DEF TableInv, D
  <2>17. Shrinks({s})
    <3>1. \A m \in Namespaces : \A j \in DOMAIN ids[m].ipcs_idr :
            ids[m].ipcs_idr[j] \notin {s} => /\ j \in DOMAIN ids'[m].ipcs_idr
                                             /\ ids'[m].ipcs_idr[j] = ids[m].ipcs_idr[j]
      BY <2>2, <2>14, <2>15 DEF D
    <3>2. \A m \in Namespaces : \A j \in DOMAIN ids'[m].ipcs_idr :
            j \in DOMAIN ids[m].ipcs_idr /\ ids[m].ipcs_idr[j] \notin {s}
      BY <2>8, <2>14, <2>15, <2>16 DEF D
    <3> QED BY <2>1, <2>7, <3>1, <3>2 DEF Shrinks, Keeps
  <2>18. SegsOf(n) \subseteq Segs /\ s \in SegsOf(n) /\ SegsOf(n)' = SegsOf(n) \ {s}
    BY <2>2, <2>3, <2>8, <2>15 DEF SegsOf, D
  <2>19. /\ PagesOf(SegsOf(n)) \in Nat /\ PagesOf(SegsOf(n))' \in Nat /\ seg[s].pages \in Nat
         /\ PagesOf(SegsOf(n))' = PagesOf(SegsOf(n)) - seg[s].pages
    <3>1. seg[s].pages \in Nat
      BY <2>1 DEF SegType
    <3>2. SegsOf(n)' \ {s} = SegsOf(n) \ {s} /\ \A x \in SegsOf(n) \ {s} : seg'[x].pages = seg[x].pages
      BY <2>7, <2>18
    <3>3. SegType /\ SegType' /\ SegsOf(n) \subseteq Segs
      BY <2>1, <2>7, <2>18
    <3>4. /\ PagesOf(SegsOf(n)) \in Nat /\ PagesOf(SegsOf(n))' \in Nat
          /\ PagesOf(SegsOf(n))' = PagesOf(SegsOf(n)) + (IF s \in SegsOf(n)' THEN seg'[s].pages ELSE 0)
                                    - (IF s \in SegsOf(n) THEN seg[s].pages ELSE 0)
      BY <3>2, <3>3, PagesStep
    <3>5. s \in SegsOf(n) /\ s \notin SegsOf(n)'
      BY <2>18
    <3> QED BY <3>1, <3>4, <3>5, SMTT(30)
  <2>20. /\ shm_tot \in [Namespaces -> Nat] /\ shm_tot[n] = PagesOf(SegsOf(n))
         /\ shm_tot' = [shm_tot EXCEPT ![n] = @ - seg[s].pages]
    BY <2>1 DEF TableType, CountsInv, shm_destroy
  <2>21. /\ shm_tot' \in [Namespaces -> Nat] /\ shm_tot'[n] = PagesOf(SegsOf(n))'
         /\ \A m \in Namespaces : m # n => shm_tot'[m] = shm_tot[m]
    BY <2>19, <2>20
  <2>22. TableType'
    BY <2>1, <2>14, <2>21 DEF TableType, Tab
  <2>23. ASSUME NEW m \in Namespaces PROVE CountsInv(m)'
    <3>1. CASE m = n
      <4>1. ns[n].life \notin {"none", "exited"}
        BY <2>1, <2>3, <2>4, <2>6, SMTT(30) DEF CountsInv
      <4> QED BY <2>6, <2>15, <2>21, <3>1, <4>1 DEF CountsInv, LifeKept
    <3>2. CASE m # n
      <4>1. \A j \in DOMAIN ids[m].ipcs_idr : seg'[ids[m].ipcs_idr[j]] = seg[ids[m].ipcs_idr[j]]
        BY <2>7, <2>16, <3>2
      <4> QED BY <2>14, <2>21, <3>2, <4>1, CountsKept DEF LifeKept
    <3> QED BY <3>1, <3>2
  <2>24. \A m \in Namespaces : ids'[m].seq = ids[m].seq
    BY <2>14, <2>15
  <2> QED BY <2>7, <2>17, <2>22, <2>23, <2>24
\* The users of a segment with nattch 1 are one mapping or one do_shmat.
<1>SoleUser.
    ASSUME IInv, NEW s \in Segs, seg[s].mem = "live", seg[s].nattch = 1
    PROVE  /\ \A t \in Tasks : InShmat(t) /\ task[t].shp = s =>
                /\ \A u \in Tasks : InShmat(u) /\ task[u].shp = s => u = t
                /\ \A f \in Files : file[f].vmas > 0 => Mapped(f) # s
           /\ \A f \in Files : file[f].vmas > 0 /\ Mapped(f) = s =>
                /\ file[f].vmas = 1
                /\ \A g \in Files : file[g].vmas > 0 /\ Mapped(g) = s => g = f
                /\ \A t \in Tasks : InShmat(t) => task[t].shp # s
  <2> USE <1>SoleUser
  <2> DEFINE C == Calls(s)
             M == Mappings(s)
  <2>1. FileType /\ Cardinality(M) + Cardinality(C) = 1
    BY IInvIs DEF AttachInv, NsInv
  <2>2. IsFiniteSet(C) /\ IsFiniteSet(M)
    BY <2>1, ShmAssumption, FS_Subset, MappingsFinite DEF Calls
  <2>3. Cardinality(C) \in Nat /\ Cardinality(M) \in Nat
    BY <2>2, FS_CardinalityType
  <2>4. \A t \in Tasks : InShmat(t) /\ task[t].shp = s <=> t \in C
    BY DEF Calls
  <2>5. \A f \in Files : \A k \in 1..file[f].vmas : file[f].vmas > 0 /\ Mapped(f) = s => <<f, k>> \in M
    BY MappingsAre
  <2>6. \A f \in Files : file[f].vmas \in Nat
    BY <2>1 DEF FileType
  <2> HIDE DEF C, M
  <2>7. /\ C # {} => Cardinality(C) # 0
        /\ M # {} => Cardinality(M) # 0
        /\ Cardinality(C) = 1 => \A x, y \in C : x = y
        /\ Cardinality(M) = 1 => \A x, y \in M : x = y
    BY <2>2, FS_EmptySet, FS_Singleton, SMTT(30)
  <2>8. /\ C # {} => M = {} /\ \A x, y \in C : x = y
        /\ M # {} => C = {} /\ \A x, y \in M : x = y
    BY <2>1, <2>3, <2>7, SMTT(30)
  <2>9. ASSUME NEW t \in Tasks, InShmat(t), task[t].shp = s
        PROVE  /\ \A u \in Tasks : InShmat(u) /\ task[u].shp = s => u = t
               /\ \A f \in Files : file[f].vmas > 0 => Mapped(f) # s
    <3>1. t \in C /\ M = {}
      BY <2>4, <2>8, <2>9
    <3>2. \A f \in Files : file[f].vmas > 0 => 1 \in 1..file[f].vmas
      BY <2>6, SMTT(30)
    <3> QED BY <2>4, <2>5, <2>8, <3>1, <3>2
  <2>10. ASSUME NEW f \in Files, file[f].vmas > 0, Mapped(f) = s
         PROVE  /\ file[f].vmas = 1
                /\ \A g \in Files : file[g].vmas > 0 /\ Mapped(g) = s => g = f
                /\ \A t \in Tasks : InShmat(t) => task[t].shp # s
    <3>1. \A g \in Files : file[g].vmas > 0 => 1 \in 1..file[g].vmas /\ file[g].vmas \in 1..file[g].vmas
      BY <2>6, SMTT(30)
    <3>2. <<f, 1>> \in M /\ <<f, file[f].vmas>> \in M
      BY <2>5, <2>10, <3>1
    <3>3. C = {} /\ \A x, y \in M : x = y
      BY <2>8, <3>2
    <3>4. <<f, 1>> = <<f, file[f].vmas>>
      BY <3>2, <3>3
    <3>5. ASSUME NEW g \in Files, file[g].vmas > 0, Mapped(g) = s PROVE g = f
      <4>1. <<g, 1>> \in M
        BY <2>5, <3>1, <3>5
      <4>2. <<g, 1>> = <<f, 1>>
        BY <3>2, <3>3, <4>1
      <4> QED BY <4>2
    <3> QED BY <2>4, <3>3, <3>4, <3>5
  <2> QED BY <2>9, <2>10
\* A segment without users is destroyed.
<1>DestroyStep.
    ASSUME IInv, NsInv', NEW n \in Namespaces, NEW s \in Segs, At(s, n, seg[s].id), shm_destroy(n, s),
           UNCHANGED <<made, scope, ns>>,
           \A t \in Tasks : /\ task'[t].ns = task[t].ns /\ task'[t].shmid = task[t].shmid
                            /\ task'[t].meant = task[t].meant
                            /\ task'[t].pc = "found" => task[t].pc = "found" /\ task'[t].shp = task[t].shp
                            /\ InShmat(t)' => InShmat(t) /\ task'[t].shp = task[t].shp /\ task[t].shp # s
                            /\ InShmat(t) /\ task[t].shp # s => InShmat(t)',
           \A f \in Files : /\ file'[f].ns = file[f].ns /\ file'[f].id = file[f].id
                            /\ file'[f].vmas > 0 => file[f].vmas > 0 /\ Mapped(f) # s
                            /\ file[f].vmas > 0 /\ Mapped(f) # s => file'[f].vmas = file[f].vmas
    PROVE  IInv'
  <2> USE <1>DestroyStep
  <2>0. /\ \A t \in Tasks : /\ task[t].ns \in Namespaces /\ LocalsOK(task[t]) /\ FoundInv(t) /\ PinInv(t)
        /\ \A f \in Files : MapInv(f) /\ (file[f].vmas > 0 => file[f].ns \in Namespaces)
        /\ \A x \in Segs : AttachInv(x)
        /\ SegType
    BY IInvIs, Alive DEF NsInv, CallInv
  <2>1. LifeKept
    BY DEF LifeKept
  <2>2. /\ SegType' /\ TableType' /\ Shrinks({s})
        /\ \A m \in Namespaces : CountsInv(m)' /\ ids'[m].seq = ids[m].seq
        /\ \A x \in Segs : x # s => seg'[x] = seg[x]
    BY <2>1, <1>SegDestroyed
  <2>3. TableInv' /\ KeyInv' /\ \A m \in Namespaces : SeqInv(m)'
    BY <2>2, ShrinkKeeps
  <2>4. Keeps({s}) /\ seg'[s].mem = "deleted"
    BY <2>2 DEF Shrinks
  <2>5. ASSUME NEW t \in Tasks PROVE MeantInv(t)'
    BY <2>0, <2>2, MeantKept
  <2>6. ASSUME NEW t \in Tasks PROVE FoundInv(t)'
    <3>1. task'[t].pc = "found" => /\ task[t].pc = "found" /\ task'[t].ns = task[t].ns
                                   /\ task'[t].shmid = task[t].shmid /\ task'[t].shp = task[t].shp
                                   /\ task[t].shp \in Segs /\ seg'[task[t].shp].mem # "free"
      BY <2>0, <2>2, <2>4 DEF LocalsOK, FoundInv
    <3> QED BY <2>0, <2>2, <3>1, FoundKept
  <2>7. ASSUME NEW t \in Tasks, InShmat(t)'
        PROVE  task'[t].shp \in Segs \ {s} /\ At(task'[t].shp, task'[t].ns, task'[t].shmid)
    <3>1. task[t].shp \in Segs /\ At(task[t].shp, task[t].ns, task[t].shmid)
      BY <2>0, <2>7 DEF PinInv, LocalsOK, InShmat
    <3> QED BY <2>7, <3>1
  <2>8. ASSUME NEW f \in Files, file[f].vmas > 0 PROVE At(Mapped(f), file[f].ns, file[f].id) /\ Mapped(f) \in Segs
    <3>1. At(Mapped(f), file[f].ns, file[f].id)
      BY <2>0, <2>8 DEF MapInv
    <3> QED BY <2>0, <2>8, <3>1, TableFacts DEF At, Mapped, shm_lock
  <2>9. ASSUME NEW f \in Files, file'[f].vmas > 0 PROVE \E x \in Segs \ {s} : At(x, file'[f].ns, file'[f].id)
    BY <2>8, <2>9
  <2>10. ASSUME NEW x \in Segs PROVE AttachInv(x)'
    <3>1. CASE x = s
      BY <2>4, <3>1 DEF AttachInv
    <3>2. CASE x # s
      <4>1. ASSUME NEW f \in Files PROVE SameMaps(f, x)
        <5>1. CASE file[f].vmas > 0 /\ Mapped(f) # s
          <6>1. At(Mapped(f), file[f].ns, file[f].id) /\ file[f].ns \in Namespaces
            BY <2>0, <2>8, <5>1
          <6>2. Mapped(f)' = Mapped(f)
            BY <2>4, <5>1, <6>1 DEF Keeps, At, shm_lock, Mapped
          <6> QED BY <5>1, <6>2 DEF SameMaps
        <5>2. CASE ~(file[f].vmas > 0 /\ Mapped(f) # s)
          BY <3>2, <5>2 DEF SameMaps
        <5> QED BY <5>1, <5>2
      <4>2. Mappings(x)' = Mappings(x)
        BY <4>1, MappingsSame
      <4>3. Calls(x)' = Calls(x)
        BY <3>2 DEF Calls
      <4> QED BY <2>0, <2>2, <3>2, <4>2, <4>3 DEF AttachInv
    <3> QED BY <3>1, <3>2
  <2> HIDE DEF LifeKept
  <2> QED BY <2>2, <2>3, <2>4, <2>5, <2>6, <2>7, <2>9, <2>10, Assemble
\* A segment is attached, detached or marked.
<1>AdjustStep.
    ASSUME IInv, NsInv', NEW s \in Segs, NEW r \in SegRec, seg' = [seg EXCEPT ![s] = r],
           r.mem = seg[s].mem, r.id = seg[s].id, r.pages = seg[s].pages, r.made = seg[s].made,
           r.key \in {seg[s].key, IPC_PRIVATE}, UNCHANGED <<ids, shm_tot, made, scope, ns>>,
           \A x \in Segs : AttachInv(x)',
           \A t \in Tasks : /\ task'[t].ns = task[t].ns /\ task'[t].shmid = task[t].shmid
                            /\ task'[t].meant = task[t].meant
                            /\ task'[t].pc = "found" => task[t].pc = "found" /\ task'[t].shp = task[t].shp
                            /\ InShmat(t)' => \/ InShmat(t) /\ task'[t].shp = task[t].shp
                                              \/ /\ task'[t].shp \in Segs
                                                 /\ At(task'[t].shp, task[t].ns, task[t].shmid),
           \A f \in Files : /\ file'[f].ns = file[f].ns /\ file'[f].id = file[f].id
                            /\ file'[f].vmas > 0 => \/ file[f].vmas > 0
                                                    \/ \E x \in Segs : At(x, file[f].ns, file[f].id)
    PROVE  IInv'
  <2> USE <1>AdjustStep
  <2>0. /\ \A t \in Tasks : task[t].ns \in Namespaces /\ LocalsOK(task[t]) /\ FoundInv(t) /\ PinInv(t)
        /\ \A f \in Files : MapInv(f) /\ (file[f].vmas > 0 => file[f].ns \in Namespaces)
    BY IInvIs, Alive DEF NsInv, CallInv
  <2>1. LifeKept
    BY DEF LifeKept
  <2>2. /\ SegType' /\ TableType' /\ Shrinks({}) /\ \A n \in Namespaces : CountsInv(n)'
        /\ seg'[s] = r /\ \A x \in Segs : x # s => seg'[x] = seg[x]
    BY <2>1, <1>SegAdjusted
  <2>3. TableInv' /\ KeyInv' /\ \A m \in Namespaces : SeqInv(m)'
    BY <2>2, ShrinkKeeps
  <2>4. Keeps({})
    BY <2>2 DEF Shrinks
  <2>5. ASSUME NEW t \in Tasks PROVE MeantInv(t)'
    BY <2>0, <2>2, MeantKept
  <2>6. ASSUME NEW t \in Tasks PROVE FoundInv(t)'
    <3>1. task'[t].pc = "found" => /\ task[t].pc = "found" /\ task'[t].ns = task[t].ns
                                   /\ task'[t].shmid = task[t].shmid /\ task'[t].shp = task[t].shp
                                   /\ task[t].shp \in Segs /\ seg'[task[t].shp].mem # "free"
      BY <2>0, <2>2, SMTT(30) DEF LocalsOK, FoundInv
    <3> QED BY <2>0, <2>2, <3>1, FoundKept
  <2>7. ASSUME NEW t \in Tasks, InShmat(t)'
        PROVE  task'[t].shp \in Segs \ {} /\ At(task'[t].shp, task'[t].ns, task'[t].shmid)
    <3>1. InShmat(t) => task[t].shp \in Segs /\ At(task[t].shp, task[t].ns, task[t].shmid)
      BY <2>0 DEF PinInv, LocalsOK, InShmat
    <3> QED BY <2>7, <3>1
  <2>8. ASSUME NEW f \in Files, file'[f].vmas > 0 PROVE \E x \in Segs \ {} : At(x, file'[f].ns, file'[f].id)
    <3>1. file[f].vmas > 0 => At(Mapped(f), file[f].ns, file[f].id)
      BY <2>0 DEF MapInv
    <3>2. file[f].vmas > 0 => Mapped(f) \in Segs
      BY <2>0, <3>1, TableFacts DEF At, Mapped, shm_lock
    <3> QED BY <2>8, <3>1, <3>2
  <2> HIDE DEF LifeKept
  <2> QED BY <2>2, <2>3, <2>4, <2>5, <2>6, <2>7, <2>8, Assemble
\* nattch follows the users of a segment, one more or one less.
<1>AttachAdjusted.
    ASSUME IInv, NEW s \in Segs, NEW r \in SegRec, seg' = [seg EXCEPT ![s] = r],
           r.mem = seg[s].mem, NEW d \in {-1, 0, 1}, r.nattch = seg[s].nattch + d,
           r.dest => r.nattch > 0,
           \A x \in Segs : /\ Cardinality(Mappings(x)) \in Nat /\ Cardinality(Mappings(x))' \in Nat
                           /\ Cardinality(Calls(x)) \in Nat /\ Cardinality(Calls(x))' \in Nat
                           /\ Cardinality(Mappings(x))' + Cardinality(Calls(x))' =
                                Cardinality(Mappings(x)) + Cardinality(Calls(x)) + (IF x = s THEN d ELSE 0)
    PROVE  \A x \in Segs : AttachInv(x)'
  <2> USE <1>AttachAdjusted
  <2>1. SegType /\ \A x \in Segs : AttachInv(x)
    BY IInvIs
  <2>2. seg'[s] = r /\ \A x \in Segs : x # s => seg'[x] = seg[x]
    BY <2>1 DEF SegType
  <2>3. AttachInv(s)'
    <3> SUFFICES ASSUME r.mem = "live" PROVE r.nattch = Cardinality(Mappings(s))' + Cardinality(Calls(s))'
      BY <2>2 DEF AttachInv
    <3>1. seg[s].nattch = Cardinality(Mappings(s)) + Cardinality(Calls(s))
      BY <2>1 DEF AttachInv
    <3> QED BY <3>1
  <2>4. ASSUME NEW x \in Segs, x # s PROVE AttachInv(x)'
    <3>1. seg'[x] = seg[x] /\ AttachInv(x)
      BY <2>1, <2>2, <2>4
    <3>2. Cardinality(Mappings(x))' + Cardinality(Calls(x))' = Cardinality(Mappings(x)) + Cardinality(Calls(x))
      BY <2>4, SMTT(30)
    <3> QED BY <3>1, <3>2 DEF AttachInv
  <2> QED BY <2>3, <2>4
\* a segment with another nattch
<1>SegValue.
    ASSUME SegType, NEW s \in Segs, NEW c \in Nat, NEW r, r = [seg[s] EXCEPT !.nattch = c]
    PROVE  /\ r \in SegRec /\ r.nattch = c /\ r.mem = seg[s].mem /\ r.id = seg[s].id /\ r.pages = seg[s].pages
           /\ r.made = seg[s].made /\ r.key \in {seg[s].key, IPC_PRIVATE}
           /\ r.dest => seg[s].dest
  <2> USE <1>SegValue
  <2>1. seg[s] \in SegRec
    BY DEF SegType, SegRec
  <2> QED BY <2>1 DEF SegRec
\* shm_open: fork, or the mmap of do_shmat.
<1>OpenStep.
    ASSUME IInv, NsInv', NEW f \in Files, shm_open(f), Mapped(f) \in Segs,
           At(Mapped(f), file[f].ns, file[f].id), UNCHANGED <<ns, ids, shm_tot, made, scope>>,
           \A t \in Tasks : /\ task'[t].ns = task[t].ns /\ task'[t].shmid = task[t].shmid
                            /\ task'[t].meant = task[t].meant /\ task'[t].shp = task[t].shp
                            /\ task'[t].pc = "found" => task[t].pc = "found"
                            /\ InShmat(t)' <=> InShmat(t)
    PROVE  IInv'
  <2> USE <1>OpenStep
  <2> DEFINE s == Mapped(f)
             c == seg[s].nattch + 1
             r == [seg[s] EXCEPT !.nattch = c]
             v == file[f].vmas + 1
  <2>1. SegType /\ FileType /\ FileType' /\ (\A x \in Segs : AttachInv(x)) /\ seg[s].nattch \in Nat /\ file[f].vmas \in Nat
    BY IInvIs DEF SegType, NsInv, FileType
  <2>2. c \in Nat /\ c > 0 /\ v \in Nat \ {0}
    BY <2>1, SMTT(30)
  <2>3. seg' = [seg EXCEPT ![s] = r]
    BY DEF shm_open, Mapped
  <2>4. /\ file'[f].vmas = v /\ file'[f].ns = file[f].ns /\ file'[f].id = file[f].id
        /\ \A g \in Files : g # f => file'[g] = file[g]
    BY <2>1 DEF shm_open, FileType
  <2> HIDE DEF c
  <2>5. /\ r \in SegRec /\ r.nattch = c /\ r.mem = seg[s].mem /\ r.id = seg[s].id /\ r.pages = seg[s].pages
        /\ r.made = seg[s].made /\ r.key \in {seg[s].key, IPC_PRIVATE}
    BY <2>1, <2>2, <1>SegValue, SMTT(30)
  <2> HIDE DEF r, v
  <2>6. Mapped(f)' = s /\ \A g \in Files : g # f => Mapped(g)' = Mapped(g) /\ file'[g].vmas = file[g].vmas
    BY <2>4 DEF Mapped, shm_lock
  <2> HIDE DEF s
  <2>7. ASSUME NEW x \in Segs
        PROVE  /\ Cardinality(Mappings(x)) \in Nat /\ Cardinality(Mappings(x))' \in Nat
               /\ Cardinality(Calls(x)) \in Nat /\ Cardinality(Calls(x))' \in Nat
               /\ Cardinality(Mappings(x))' + Cardinality(Calls(x))' =
                    Cardinality(Mappings(x)) + Cardinality(Calls(x)) + (IF x = s THEN 1 ELSE 0)
    <3>1. \A g \in Files \ {f} : SameMaps(g, x)
      BY <2>6 DEF SameMaps
    <3>2. Mapped(f) = s /\ file[f].vmas = v - 1 /\ file[f].vmas # v
      BY <2>1, SMTT(30) DEF s, v
    <3>3. /\ Cardinality(Mappings(x)) \in Nat /\ Cardinality(Mappings(x))' \in Nat
          /\ Cardinality(Mappings(x))' = Cardinality(Mappings(x))
               + One(file'[f].vmas = v /\ Mapped(f)' = x) - One(file[f].vmas = v /\ Mapped(f) = x)
      BY <2>1, <2>2, <2>4, <2>6, <3>1, <3>2, MappingsStep, SMTT(30)
    <3>4. Calls(x)' = Calls(x) /\ Cardinality(Calls(x)) \in Nat
      BY <2>1, CallsSame, Users
    <3> QED BY <2>4, <2>6, <3>2, <3>3, <3>4, SMTT(30) DEF One
  <2>8. \A x \in Segs : AttachInv(x)'
    <3>1. s \in Segs /\ r.nattch = seg[s].nattch + 1 /\ r.nattch > 0 /\ 1 \in {-1, 0, 1}
      BY <2>2, <2>5 DEF c, s
    <3> QED BY <2>3, <2>5, <2>7, <3>1, <1>AttachAdjusted
  <2>9. s \in Segs /\ At(s, file[f].ns, file[f].id)
    BY DEF s
  <2>10. \A g \in Files : /\ file'[g].ns = file[g].ns /\ file'[g].id = file[g].id
                          /\ file'[g].vmas > 0 => \/ file[g].vmas > 0
                                                  \/ \E x \in Segs : At(x, file[g].ns, file[g].id)
    BY <2>4, <2>9
  <2> QED BY <2>3, <2>5, <2>8, <2>9, <2>10, <1>AdjustStep
\* fork of a mapping, and do_mmap in do_shmat.
<1>MapSteps.
    ASSUME IInv, NsInv',
           (\E f \in Files : Fork(f)) \/ (\E t \in Tasks : ShmatMap(t))
    PROVE  IInv'
  <2> USE <1>MapSteps
  <2>1. ASSUME NEW f \in Files, Fork(f) PROVE IInv'
    <3>1. /\ file[f].vmas > 0 /\ shm_open(f) /\ UNCHANGED <<ns, ids, shm_tot, made, scope, task>>
      BY <2>1 DEF Fork, nsVars
    <3>2. \A t \in Tasks : InShmat(t)' <=> InShmat(t)
      BY <3>1 DEF InShmat
    <3>3. Mapped(f) \in Segs /\ At(Mapped(f), file[f].ns, file[f].id)
      BY <3>1, MappedAt
    <3> QED BY <3>1, <3>2, <3>3, <1>OpenStep
  <2>2. ASSUME NEW t \in Tasks, ShmatMap(t) PROVE IInv'
    <3> DEFINE f == task[t].file
    <3>1. /\ task[t].pc = "filed" /\ shm_open(f) /\ UNCHANGED <<ns, ids, shm_tot, made, scope>>
          /\ task' = [task EXCEPT ![t].pc = "mapped"]
      BY <2>2 DEF ShmatMap, nsVars
    <3>2. task \in [Tasks -> TaskRec] /\ LocalsOK(task[t]) /\ PinInv(t)
      BY IInvIs DEF NsInv, TaskType, CallInv
    <3>3. f \in Files /\ task[t].shp \in Segs /\ file[f].ns = task[t].ns /\ file[f].id = task[t].shmid
      BY <3>1, <3>2 DEF LocalsOK, TaskRec
    <3>4. At(task[t].shp, file[f].ns, file[f].id) /\ Mapped(f) = task[t].shp
      BY <3>1, <3>2, <3>3 DEF PinInv, InShmat, At, Mapped
    <3>5. \A u \in Tasks : /\ task'[u].ns = task[u].ns /\ task'[u].shmid = task[u].shmid
                           /\ task'[u].meant = task[u].meant /\ task'[u].shp = task[u].shp
                           /\ task'[u].pc = "found" => task[u].pc = "found"
                           /\ InShmat(u)' <=> InShmat(u)
      BY <3>1, <3>2 DEF TaskRec, InShmat
    <3> HIDE DEF f
    <3> QED BY <3>1, <3>3, <3>4, <3>5, <1>OpenStep
  <2> QED BY <2>1, <2>2
\* do_shmat pins the segment it found.
<1>PinStep. ASSUME IInv, NsInv', NEW t \in Tasks, ShmatPin(t) PROVE IInv'
  <2> USE <1>PinStep
  <2> DEFINE s == task[t].shp
             c == seg[s].nattch + 1
             r == [seg[s] EXCEPT !.nattch = c]
  <2>1. /\ SegType /\ FileType /\ task \in [Tasks -> TaskRec] /\ LocalsOK(task[t]) /\ FoundInv(t) /\ TableInv
        /\ task[t].ns \in Namespaces /\ task[t].shmid \in Nat
    BY IInvIs DEF NsInv, TaskType, TaskRec, CallInv
  <2>2. /\ task[t].pc = "found" /\ seg[s].mem # "deleted" /\ ipc_checkid(seg[s], task[t].shmid)
        /\ seg' = [seg EXCEPT ![s] = r] /\ task' = [task EXCEPT ![t].pc = "pinned"]
        /\ UNCHANGED <<ns, ids, shm_tot, file, made, scope>>
    BY DEF ShmatPin, IpcLocked, nsVars
  <2>3. s \in Segs /\ seg[s].mem = "live" /\ seg[s].nattch \in Nat /\ seg[s].id \in Nat
    <3>1. s \in Segs
      BY <2>1, <2>2 DEF LocalsOK
    <3> QED BY <2>1, <2>2, <3>1 DEF FoundInv, SegType
  <2>4. At(s, task[t].ns, task[t].shmid)
    <3> DEFINE i == ipcid_to_idx(task[t].shmid)
    <3>1. i \in DOMAIN ids[task[t].ns].ipcs_idr /\ shm_lock(task[t].ns, task[t].shmid) = s
      BY <2>1, <2>2, <2>3 DEF FoundInv
    <3>2. seg[s].id % IPCMNI = task[t].shmid % IPCMNI
      BY <2>1, <3>1, SMTT(30) DEF TableInv, shm_lock, ipcid_to_idx
    <3>3. seg[s].id \div IPCMNI = task[t].shmid \div IPCMNI
      BY <2>2 DEF ipc_checkid
    <3>4. IPCMNI \in Nat \ {0}
      BY ShmAssumption
    <3>5. seg[s].id = task[t].shmid
      BY <2>1, <2>3, <3>2, <3>3, <3>4, DivModUnique
    <3> QED BY <2>3, <3>1, <3>5 DEF At
  <2>5. c \in Nat /\ c > 0
    BY <2>3, SMTT(30)
  <2> HIDE DEF c
  <2>6. /\ r \in SegRec /\ r.nattch = c /\ r.mem = seg[s].mem /\ r.id = seg[s].id /\ r.pages = seg[s].pages
        /\ r.made = seg[s].made /\ r.key \in {seg[s].key, IPC_PRIVATE}
    BY <2>1, <2>3, <2>5, <1>SegValue, SMTT(30)
  <2> HIDE DEF r
  <2>7. /\ task'[t].ns = task[t].ns /\ task'[t].shmid = task[t].shmid /\ task'[t].meant = task[t].meant
        /\ task'[t].shp = s /\ task'[t].pc = "pinned" /\ \A u \in Tasks : u # t => task'[u] = task[u]
    BY <2>1, <2>2 DEF TaskRec
  <2>8. ASSUME NEW x \in Segs
        PROVE  /\ Cardinality(Mappings(x)) \in Nat /\ Cardinality(Mappings(x))' \in Nat
               /\ Cardinality(Calls(x)) \in Nat /\ Cardinality(Calls(x))' \in Nat
               /\ Cardinality(Mappings(x))' + Cardinality(Calls(x))' =
                    Cardinality(Mappings(x)) + Cardinality(Calls(x)) + (IF x = s THEN 1 ELSE 0)
    <3>1. \A f \in Files : SameMaps(f, x)
      BY <2>2 DEF SameMaps, Mapped, shm_lock
    <3>2. Mappings(x)' = Mappings(x) /\ Cardinality(Mappings(x)) \in Nat
      BY <2>1, <3>1, MappingsSame, MappingsFinite
    <3>3. ~InShmat(t) /\ InShmat(t)'
      BY <2>2, <2>7 DEF InShmat
    <3>4. /\ Cardinality(Calls(x)) \in Nat /\ Cardinality(Calls(x))' \in Nat
          /\ Cardinality(Calls(x))' = Cardinality(Calls(x))
               + One(InShmat(t)' /\ task'[t].shp = x) - One(InShmat(t) /\ task[t].shp = x)
      BY <2>7, CallsStep
    <3> QED BY <2>7, <3>2, <3>3, <3>4, SMTT(30) DEF One
  <2>9. \A x \in Segs : AttachInv(x)'
    <3>1. r.nattch = seg[s].nattch + 1 /\ r.nattch > 0 /\ 1 \in {-1, 0, 1}
      BY <2>5, <2>6 DEF c
    <3> QED BY <2>2, <2>3, <2>6, <2>8, <3>1, <1>AttachAdjusted
  <2>10. \A u \in Tasks : /\ task'[u].ns = task[u].ns /\ task'[u].shmid = task[u].shmid
                          /\ task'[u].meant = task[u].meant
                          /\ task'[u].pc = "found" => task[u].pc = "found" /\ task'[u].shp = task[u].shp
                          /\ InShmat(u)' => \/ InShmat(u) /\ task'[u].shp = task[u].shp
                                            \/ /\ task'[u].shp \in Segs
                                               /\ At(task'[u].shp, task[u].ns, task[u].shmid)
    BY <2>3, <2>4, <2>7 DEF InShmat
  <2> QED BY <2>2, <2>3, <2>6, <2>9, <2>10, <1>AdjustStep
\* out_nattch: do_shmat gives up its own reference to the segment.
<1>OutStep. ASSUME IInv, NsInv', NEW t \in Tasks, ShmatOut(t) PROVE IInv'
  <2> USE <1>OutStep
  <2> DEFINE s == task[t].shp
             n == task[t].ns
  <2>1. /\ SegType /\ FileType /\ task \in [Tasks -> TaskRec] /\ LocalsOK(task[t]) /\ PinInv(t)
        /\ n \in Namespaces /\ \A x \in Segs : AttachInv(x)
    BY IInvIs DEF NsInv, TaskType, TaskRec, CallInv
  <2>2. /\ task[t].pc = "out" /\ detach(n, shm_lock(n, task[t].shmid))
        /\ task' = [task EXCEPT ![t].pc = "idle", ![t].shp = NONE] /\ UNCHANGED <<ns, file, made, scope>>
    BY DEF ShmatOut, nsVars
  <2>3. InShmat(t) /\ s \in Segs /\ At(s, n, task[t].shmid)
    BY <2>1, <2>2 DEF InShmat, LocalsOK, PinInv
  <2>4. detach(n, s) /\ seg[s].mem = "live" /\ At(s, n, seg[s].id) /\ seg[s].nattch \in Nat
    BY <2>1, <2>2, <2>3 DEF At, SegType
  <2>5. /\ task'[t].ns = n /\ task'[t].shmid = task[t].shmid /\ task'[t].meant = task[t].meant
        /\ task'[t].pc = "idle" /\ \A u \in Tasks : u # t => task'[u] = task[u]
    BY <2>1, <2>2 DEF TaskRec
  <2>6. ~InShmat(t)' /\ \A u \in Tasks : u # t => (InShmat(u)' <=> InShmat(u))
    BY <2>5 DEF InShmat
  <2> HIDE DEF s, n
  <2>7. CASE seg[s].nattch = 1 /\ seg[s].dest
    <3>1. shm_destroy(n, s)
      BY <2>4, <2>7 DEF detach
    <3>2. /\ \A u \in Tasks : InShmat(u) /\ task[u].shp = s => u = t
          /\ \A f \in Files : file[f].vmas > 0 => Mapped(f) # s
      BY <2>3, <2>4, <2>7, <1>SoleUser DEF s
    <3>3. \A u \in Tasks : /\ task'[u].ns = task[u].ns /\ task'[u].shmid = task[u].shmid
                           /\ task'[u].meant = task[u].meant
                           /\ task'[u].pc = "found" => task[u].pc = "found" /\ task'[u].shp = task[u].shp
                           /\ InShmat(u)' => InShmat(u) /\ task'[u].shp = task[u].shp /\ task[u].shp # s
                           /\ InShmat(u) /\ task[u].shp # s => InShmat(u)'
      BY <2>5, <2>6, <3>2 DEF s, n
    <3>4. \A f \in Files : /\ file'[f].ns = file[f].ns /\ file'[f].id = file[f].id
                           /\ file'[f].vmas > 0 => file[f].vmas > 0 /\ Mapped(f) # s
                           /\ file[f].vmas > 0 /\ Mapped(f) # s => file'[f].vmas = file[f].vmas
      BY <2>2, <3>2
    <3> QED BY <2>1, <2>2, <2>3, <2>4, <3>1, <3>3, <3>4, <1>DestroyStep
  <2>8. CASE ~(seg[s].nattch = 1 /\ seg[s].dest)
    <3> DEFINE c == seg[s].nattch - 1
               r == [seg[s] EXCEPT !.nattch = c]
    <3>1. seg' = [seg EXCEPT ![s] = r] /\ UNCHANGED <<ids, shm_tot>>
      BY <2>4, <2>8 DEF detach
    <3>2. /\ seg[s].nattch = Cardinality(Mappings(s)) + Cardinality(Calls(s))
          /\ Cardinality(Calls(s)) \in Nat /\ Cardinality(Mappings(s)) \in Nat /\ Cardinality(Calls(s)) # 0
      BY <2>1, <2>3, <2>4, Users DEF AttachInv, s
    <3>3. c \in Nat /\ (seg[s].dest => c > 0)
      BY <2>4, <2>8, <3>2, SMTT(30)
    <3> HIDE DEF c
    <3>4. /\ r \in SegRec /\ r.nattch = c /\ r.mem = seg[s].mem /\ r.id = seg[s].id /\ r.pages = seg[s].pages
          /\ r.made = seg[s].made /\ r.key \in {seg[s].key, IPC_PRIVATE}
          /\ r.dest => seg[s].dest
      BY <2>1, <2>3, <3>3, <1>SegValue
    <3> HIDE DEF r
    <3>5. ASSUME NEW x \in Segs
          PROVE  /\ Cardinality(Mappings(x)) \in Nat /\ Cardinality(Mappings(x))' \in Nat
                 /\ Cardinality(Calls(x)) \in Nat /\ Cardinality(Calls(x))' \in Nat
                 /\ Cardinality(Mappings(x))' + Cardinality(Calls(x))' =
                      Cardinality(Mappings(x)) + Cardinality(Calls(x)) + (IF x = s THEN -1 ELSE 0)
      <4>1. \A f \in Files : SameMaps(f, x)
        BY <2>2, <3>1 DEF SameMaps, Mapped, shm_lock
      <4>2. Mappings(x)' = Mappings(x) /\ Cardinality(Mappings(x)) \in Nat
        BY <2>1, <4>1, MappingsSame, MappingsFinite
      <4>3. /\ Cardinality(Calls(x)) \in Nat /\ Cardinality(Calls(x))' \in Nat
            /\ Cardinality(Calls(x))' = Cardinality(Calls(x))
                 + One(InShmat(t)' /\ task'[t].shp = x) - One(InShmat(t) /\ task[t].shp = x)
        BY <2>5, CallsStep
      <4> QED BY <2>3, <2>6, <4>2, <4>3, SMTT(30) DEF One, s
    <3>6. \A x \in Segs : AttachInv(x)'
      <4>1. r.nattch = seg[s].nattch + (-1) /\ (r.dest => r.nattch > 0) /\ -1 \in {-1, 0, 1}
        BY <2>4, <3>3, <3>4 DEF c
      <4> QED BY <2>3, <3>1, <3>4, <3>5, <4>1, <1>AttachAdjusted
    <3>7. \A u \in Tasks : /\ task'[u].ns = task[u].ns /\ task'[u].shmid = task[u].shmid
                           /\ task'[u].meant = task[u].meant
                           /\ task'[u].pc = "found" => task[u].pc = "found" /\ task'[u].shp = task[u].shp
                           /\ InShmat(u)' => InShmat(u) /\ task'[u].shp = task[u].shp
      BY <2>5, <2>6 DEF n
    <3> QED BY <2>2, <2>3, <3>1, <3>4, <3>6, <3>7, <1>AdjustStep
  <2> QED BY <2>7, <2>8
\* shm_close: a mapping is gone.
<1>CloseStep. ASSUME IInv, NsInv', NEW f \in Files, shm_close(f) PROVE IInv'
  <2> USE <1>CloseStep
  <2> DEFINE s == Mapped(f)
             n == file[f].ns
             v == file[f].vmas
  <2>1. SegType /\ FileType /\ FileType' /\ v \in Nat /\ \A x \in Segs : AttachInv(x)
    BY IInvIs DEF NsInv, FileType
  <2>2. /\ v > 0 /\ detach(n, s) /\ file' = [file EXCEPT ![f].vmas = @ - 1]
        /\ UNCHANGED <<ns, task, made, scope>>
    BY DEF shm_close, nsVars, Mapped
  <2>3. At(s, n, file[f].id) /\ s \in Segs /\ n \in Namespaces
    BY <2>2, MappedAt
  <2>4. seg[s].mem = "live" /\ At(s, n, seg[s].id) /\ seg[s].nattch \in Nat
    BY <2>1, <2>3 DEF At, SegType
  <2>5. /\ file'[f].vmas = v - 1 /\ \A g \in Files : g # f => file'[g] = file[g]
        /\ \A g \in Files : file'[g].ns = file[g].ns /\ file'[g].id = file[g].id
    BY <2>1, <2>2 DEF FileType
  <2>6. \A u \in Tasks : InShmat(u)' <=> InShmat(u)
    BY <2>2 DEF InShmat
  <2> HIDE DEF s, n, v
  <2>7. CASE seg[s].nattch = 1 /\ seg[s].dest
    <3>1. shm_destroy(n, s)
      BY <2>2, <2>7 DEF detach
    <3>2. /\ v = 1
          /\ \A g \in Files : file[g].vmas > 0 /\ Mapped(g) = s => g = f
          /\ \A u \in Tasks : InShmat(u) => task[u].shp # s
      BY <2>2, <2>3, <2>4, <2>7, <1>SoleUser DEF s, v
    <3>3. \A u \in Tasks : /\ task'[u].ns = task[u].ns /\ task'[u].shmid = task[u].shmid
                           /\ task'[u].meant = task[u].meant
                           /\ task'[u].pc = "found" => task[u].pc = "found" /\ task'[u].shp = task[u].shp
                           /\ InShmat(u)' => InShmat(u) /\ task'[u].shp = task[u].shp /\ task[u].shp # s
                           /\ InShmat(u) /\ task[u].shp # s => InShmat(u)'
      BY <2>2, <2>6, <3>2
    <3>4. \A g \in Files : /\ file'[g].ns = file[g].ns /\ file'[g].id = file[g].id
                           /\ file'[g].vmas > 0 => file[g].vmas > 0 /\ Mapped(g) # s
                           /\ file[g].vmas > 0 /\ Mapped(g) # s => file'[g].vmas = file[g].vmas
      BY <2>5, <3>2, SMTT(30) DEF s
    <3> QED BY <2>2, <2>3, <2>4, <3>1, <3>3, <3>4, <1>DestroyStep
  <2>8. CASE ~(seg[s].nattch = 1 /\ seg[s].dest)
    <3> DEFINE c == seg[s].nattch - 1
               r == [seg[s] EXCEPT !.nattch = c]
    <3>1. seg' = [seg EXCEPT ![s] = r] /\ UNCHANGED <<ids, shm_tot>>
      BY <2>2, <2>8 DEF detach
    <3>2. /\ seg[s].nattch = Cardinality(Mappings(s)) + Cardinality(Calls(s))
          /\ Cardinality(Calls(s)) \in Nat /\ Cardinality(Mappings(s)) \in Nat /\ Cardinality(Mappings(s)) # 0
      BY <2>1, <2>2, <2>3, <2>4, Users DEF AttachInv, s, v
    <3>3. c \in Nat /\ (seg[s].dest => c > 0)
      BY <2>4, <2>8, <3>2, SMTT(30)
    <3> HIDE DEF c
    <3>4. /\ r \in SegRec /\ r.nattch = c /\ r.mem = seg[s].mem /\ r.id = seg[s].id /\ r.pages = seg[s].pages
          /\ r.made = seg[s].made /\ r.key \in {seg[s].key, IPC_PRIVATE}
          /\ r.dest => seg[s].dest
      BY <2>1, <2>3, <3>3, <1>SegValue
    <3> HIDE DEF r
    <3>5. \A g \in Files : Mapped(g)' = Mapped(g)
      BY <2>5, <3>1 DEF Mapped, shm_lock
    <3>6. ASSUME NEW x \in Segs
          PROVE  /\ Cardinality(Mappings(x)) \in Nat /\ Cardinality(Mappings(x))' \in Nat
                 /\ Cardinality(Calls(x)) \in Nat /\ Cardinality(Calls(x))' \in Nat
                 /\ Cardinality(Mappings(x))' + Cardinality(Calls(x))' =
                      Cardinality(Mappings(x)) + Cardinality(Calls(x)) + (IF x = s THEN -1 ELSE 0)
      <4>1. \A g \in Files \ {f} : SameMaps(g, x)
        BY <2>5, <3>5 DEF SameMaps
      <4>2. v \in Nat \ {0} /\ file[f].vmas = v /\ file'[f].vmas = v - 1 /\ file'[f].vmas # v /\ Mapped(f) = s
        BY <2>1, <2>2, <2>5, SMTT(30) DEF v, s
      <4>3. /\ Cardinality(Mappings(x)) \in Nat /\ Cardinality(Mappings(x))' \in Nat
            /\ Cardinality(Mappings(x))' = Cardinality(Mappings(x))
                 + One(file'[f].vmas = v /\ Mapped(f)' = x) - One(file[f].vmas = v /\ Mapped(f) = x)
        BY <2>1, <3>5, <4>1, <4>2, MappingsStep, SMTT(30)
      <4>4. Calls(x)' = Calls(x) /\ Cardinality(Calls(x)) \in Nat
        BY <2>1, <2>2, <2>6, CallsSame, Users
      <4> QED BY <4>2, <4>3, <4>4, SMTT(30) DEF One
    <3>7. \A x \in Segs : AttachInv(x)'
      <4>1. r.nattch = seg[s].nattch + (-1) /\ (r.dest => r.nattch > 0) /\ -1 \in {-1, 0, 1}
        BY <2>4, <3>3, <3>4 DEF c
      <4> QED BY <2>3, <3>1, <3>4, <3>6, <4>1, <1>AttachAdjusted
    <3>8. \A g \in Files : /\ file'[g].ns = file[g].ns /\ file'[g].id = file[g].id
                           /\ file'[g].vmas > 0 => file[g].vmas > 0
      BY <2>1, <2>2, <2>5 DEF v
    <3> QED BY <2>2, <2>3, <2>6, <3>1, <3>4, <3>7, <3>8, <1>AdjustStep
  <2> QED BY <2>7, <2>8
\* IPC_RMID: the segment is destroyed, or marked if it has users.
<1>RmidStep. ASSUME IInv, NsInv', NEW t \in Tasks, ShmctlRmid(t) PROVE IInv'
  <2> USE <1>RmidStep
  <2> DEFINE n == task[t].ns
  <2>1. SegType /\ FileType /\ n \in Namespaces /\ TableInv /\ \A x \in Segs : AttachInv(x)
    BY IInvIs, Alive DEF NsInv
  <2>2. PICK s \in shm_lock_check(n, task[t].shmid) : do_shm_rmid(n, s)
    BY DEF ShmctlRmid
  <2>3. UNCHANGED <<ns, file, task, made, scope>>
    BY DEF ShmctlRmid, nsVars
  <2>4. s \in Segs /\ seg[s].mem = "live" /\ At(s, n, seg[s].id)
    <3>1. PICK i \in DOMAIN ids[n].ipcs_idr : ids[n].ipcs_idr[i] = s
      BY DEF shm_lock_check, idr_find
    <3> QED BY <2>1, <3>1, TableFacts DEF TableInv, At, shm_lock
  <2>5. \A u \in Tasks : InShmat(u)' <=> InShmat(u)
    BY <2>3 DEF InShmat
  <2>6. seg[s].nattch \in Nat /\ seg[s].nattch = Cardinality(Mappings(s)) + Cardinality(Calls(s))
    BY <2>1, <2>4 DEF SegType, AttachInv
  <2> HIDE DEF n
  <2>7. CASE seg[s].nattch = 0
    <3>1. shm_destroy(n, s)
      BY <2>2, <2>7 DEF do_shm_rmid
    <3>2. /\ \A u \in Tasks : InShmat(u) => task[u].shp # s
          /\ \A f \in Files : file[f].vmas > 0 => Mapped(f) # s
      <4>1. Cardinality(Calls(s)) \in Nat /\ Cardinality(Mappings(s)) \in Nat
        BY <2>1, Users
      <4>2. Cardinality(Calls(s)) = 0 /\ Cardinality(Mappings(s)) = 0
        BY <2>6, <2>7, <4>1, SMTT(30)
      <4> QED BY <2>1, <4>2, Users
    <3>3. \A u \in Tasks : /\ task'[u].ns = task[u].ns /\ task'[u].shmid = task[u].shmid
                           /\ task'[u].meant = task[u].meant
                           /\ task'[u].pc = "found" => task[u].pc = "found" /\ task'[u].shp = task[u].shp
                           /\ InShmat(u)' => InShmat(u) /\ task'[u].shp = task[u].shp /\ task[u].shp # s
                           /\ InShmat(u) /\ task[u].shp # s => InShmat(u)'
      BY <2>3, <2>5, <3>2
    <3>4. \A f \in Files : /\ file'[f].ns = file[f].ns /\ file'[f].id = file[f].id
                           /\ file'[f].vmas > 0 => file[f].vmas > 0 /\ Mapped(f) # s
                           /\ file[f].vmas > 0 /\ Mapped(f) # s => file'[f].vmas = file[f].vmas
      BY <2>3, <3>2
    <3> QED BY <2>1, <2>3, <2>4, <3>1, <3>3, <3>4, <1>DestroyStep DEF n
  <2>8. CASE seg[s].nattch # 0
    <3> DEFINE r == [seg[s] EXCEPT !.dest = TRUE, !.key = IPC_PRIVATE]
    <3>1. seg' = [seg EXCEPT ![s] = r] /\ UNCHANGED <<ids, shm_tot>>
      BY <2>2, <2>8 DEF do_shm_rmid
    <3>2. /\ r \in SegRec /\ r.nattch = seg[s].nattch /\ r.mem = seg[s].mem /\ r.id = seg[s].id
          /\ r.pages = seg[s].pages /\ r.made = seg[s].made /\ r.key \in {seg[s].key, IPC_PRIVATE}
      <4>1. seg[s] \in SegRec
        BY <2>1, <2>4 DEF SegType, SegRec
      <4> QED BY <4>1 DEF SegRec
    <3> HIDE DEF r
    <3>3. ASSUME NEW x \in Segs
          PROVE  /\ Cardinality(Mappings(x)) \in Nat /\ Cardinality(Mappings(x))' \in Nat
                 /\ Cardinality(Calls(x)) \in Nat /\ Cardinality(Calls(x))' \in Nat
                 /\ Cardinality(Mappings(x))' + Cardinality(Calls(x))' =
                      Cardinality(Mappings(x)) + Cardinality(Calls(x)) + (IF x = s THEN 0 ELSE 0)
      <4>1. \A f \in Files : SameMaps(f, x)
        BY <2>3, <3>1 DEF SameMaps, Mapped, shm_lock
      <4>2. Mappings(x)' = Mappings(x) /\ Calls(x)' = Calls(x)
        BY <2>3, <2>5, <4>1, MappingsSame, CallsSame
      <4>3. Cardinality(Mappings(x)) \in Nat /\ Cardinality(Calls(x)) \in Nat
        BY <2>1, Users
      <4> QED BY <4>2, <4>3, SMTT(30)
    <3>4. \A x \in Segs : AttachInv(x)'
      <4>1. r.nattch = seg[s].nattch + 0 /\ r.nattch > 0 /\ 0 \in {-1, 0, 1}
        BY <2>6, <2>8, <3>2, SMTT(30)
      <4> QED BY <2>4, <3>1, <3>2, <3>3, <4>1, <1>AttachAdjusted
    <3> QED BY <2>3, <2>4, <2>5, <3>1, <3>2, <3>4, <1>AdjustStep
  <2> QED BY <2>7, <2>8
<1> QED BY <1>MapSteps, <1>PinStep, <1>OutStep, <1>CloseStep, <1>RmidStep

-----------------------------------------------------------------------------
(* The table of a namespace comes and goes *)

\* A loop that counts in_use objects visits the whole table.
LEMMA VisitsAll == ASSUME IInv, NEW n \in Namespaces PROVE Visited(ids[n]) = DOMAIN ids[n].ipcs_idr
<1> DEFINE D == DOMAIN ids[n].ipcs_idr
<1>1. IsFiniteSet(D) /\ ids[n].in_use = Cardinality(D) /\ D \subseteq Indexes
  BY TableFacts
<1>2. ASSUME NEW i \in D PROVE Cardinality({j \in D : j < i}) < Cardinality(D)
  <2> DEFINE L == {j \in D : j < i}
  <2>1. L \in SUBSET D
    OBVIOUS
  <2>2. i \notin L
    <3>1. i \in Int
      BY <1>1, ShmAssumption, SMTT(30) DEF Indexes
    <3> QED BY <3>1, SMTT(30)
  <2> HIDE DEF L, D
  <2>3. Cardinality(L) <= Cardinality(D) /\ Cardinality(D) # Cardinality(L) /\ IsFiniteSet(L)
    BY <1>1, <2>1, <2>2, FS_Subset
  <2>4. Cardinality(L) \in Nat /\ Cardinality(D) \in Nat
    BY <1>1, <2>3, FS_CardinalityType
  <2>5. Cardinality(L) < Cardinality(D)
    BY <2>3, <2>4, SMTT(30)
  <2> QED BY <2>5 DEF L
<1> QED BY <1>1, <1>2 DEF Visited

\* ipc_init_ids: an empty table.
LEMMA EmptyTable ==
  /\ DOMAIN ipc_init_ids.ipcs_idr = {} /\ ipc_init_ids.in_use = 0 /\ ipc_init_ids.seq = 0
  /\ ipc_init_ids \in [ipcs_idr : UNION {[E -> Segs] : E \in SUBSET Indexes}, in_use : Nat, seq : 0..SEQ_MAX]
<1>1. << >> \in [{} -> Segs] /\ DOMAIN << >> = {}
  BY SMTT(30)
<1>2. << >> \in UNION {[E -> Segs] : E \in SUBSET Indexes}
  BY <1>1
<1>3. 0 \in Nat /\ 0 \in 0..SEQ_MAX
  BY ShmAssumption, SMTT(30)
<1> QED BY <1>1, <1>2, <1>3 DEF ipc_init_ids

\* copy_ipcs, shm_exit_ns and the RCU callback of a destroyed segment keep the
\* invariant.
LEMMA TableSteps ==
  /\ IInv /\ NsInv'
  /\ \/ \E s \in Segs : RcuFree(s)
     \/ \E n \in Namespaces : shm_exit_ns(n) \/ \E t \in Tasks : copy_ipcs(t, n)
  => IInv'
\* A table has as many segments as indexes.
<1>TableSize.
    ASSUME IInv, NEW n \in Namespaces
    PROVE  /\ Cardinality(SegsOf(n)) = ids[n].in_use /\ Cardinality(SegsOf(n)) \in Nat
           /\ SegsOf(n) \subseteq Segs
  <2> USE <1>TableSize
  <2> DEFINE D == DOMAIN ids[n].ipcs_idr
             h == [i \in D |-> ids[n].ipcs_idr[i]]
  <2>1. /\ IsFiniteSet(D) /\ ids[n].in_use = Cardinality(D) /\ SegsOf(n) \subseteq Segs
    BY TableFacts DEF SegsOf
  <2>2. h \in Surjection(D, SegsOf(n))
    BY DEF Surjection, SegsOf
  <2>3. h \in Injection(D, SegsOf(n))
    <3>1. \A i, j \in D : ids[n].ipcs_idr[i] = ids[n].ipcs_idr[j] => i = j
      BY SMTT(30) DEF IInv, TableInv
    <3>2. h \in [D -> SegsOf(n)]
      BY DEF SegsOf
    <3> QED BY <3>1, <3>2 DEF Injection, IsInjective
  <2> HIDE DEF h, D
  <2>4. Cardinality(SegsOf(n)) = Cardinality(D)
    BY <2>1, <2>2, <2>3, FS_Surjection
  <2> QED BY <2>1, <2>4, FS_CardinalityType
\* The segments of a namespace that is going away have no users.
<1>Abandoned.
    ASSUME IInv, NEW n \in Namespaces, ns[n].life \notin {"live", "new"}
    PROVE  /\ \A t \in Tasks : task[t].ns # n /\ (InShmat(t) => task[t].shp \notin SegsOf(n))
           /\ \A f \in Files : file[f].vmas > 0 => file[f].ns # n /\ Mapped(f) \notin SegsOf(n)
           /\ \A s \in SegsOf(n) : s \in Segs /\ seg[s].mem = "live" /\ seg[s].nattch = 0
  <2> USE <1>Abandoned
  <2>1. /\ TableInv /\ FileType /\ (\A x \in Segs : AttachInv(x))
        /\ \A t \in Tasks : PinInv(t) /\ task[t].ns \in Namespaces /\ task[t].ns # n
        /\ \A f \in Files : MapInv(f) /\ (file[f].vmas > 0 => file[f].ns \in Namespaces /\ file[f].ns # n)
    BY IInvIs, Alive DEF NsInv
  <2>2. \A s \in SegsOf(n) : s \in Segs /\ seg[s].mem = "live"
    BY <2>1, TableFacts, SMTT(30) DEF SegsOf, TableInv
  <2>3. \A m \in Namespaces \ {n} : \A s, id : At(s, m, id) => s \notin SegsOf(n)
    BY <2>1, SMTT(30) DEF At, shm_lock, SegsOf, TableInv
  <2>4. ASSUME NEW t \in Tasks, InShmat(t) PROVE task[t].shp \notin SegsOf(n)
    BY <2>1, <2>3, <2>4 DEF PinInv
  <2>5. ASSUME NEW f \in Files, file[f].vmas > 0 PROVE Mapped(f) \notin SegsOf(n)
    BY <2>1, <2>3, <2>5 DEF MapInv
  <2>6. ASSUME NEW s \in SegsOf(n) PROVE seg[s].nattch = 0
    <3>1. Calls(s) = {}
      BY <2>4 DEF Calls
    <3>2. Mappings(s) = {}
      BY <2>5, MappingsAre
    <3>3. seg[s].nattch = Cardinality(Mappings(s)) + Cardinality(Calls(s))
      BY <2>1, <2>2 DEF AttachInv
    <3>4. Cardinality({}) = 0
      BY FS_EmptySet
    <3> QED BY <3>1, <3>2, <3>3, <3>4, SMTT(30)
  <2> QED BY <2>1, <2>2, <2>4, <2>5, <2>6
\* A step of namespaces, after which nothing is left in the tables of those it
\* touches.
<1>TableStep.
    ASSUME IInv, NsInv', NEW n \in Namespaces, ns[n].life \notin {"live", "new"},
           SegType', TableType', UNCHANGED <<file, scope>>,
           DOMAIN ids'[n].ipcs_idr = {}, ids'[n].in_use = 0, shm_tot'[n] = 0, SeqInv(n)',
           \A m \in Namespaces \ {n} : /\ ids'[m] = ids[m] /\ shm_tot'[m] = shm_tot[m] /\ made'[m] = made[m]
                                       /\ ns'[m] = ns[m],
           \A s \in Segs : /\ s \in SegsOf(n) => seg'[s].mem = "deleted"
                           /\ s \notin SegsOf(n) => seg'[s] = seg[s],
           \A t \in Tasks : /\ task'[t].ns = task[t].ns /\ task'[t].shmid = task[t].shmid
                            /\ task'[t].meant = task[t].meant /\ task'[t].shp = task[t].shp
                            /\ task'[t].pc = "found" => task[t].pc = "found"
                            /\ InShmat(t)' <=> InShmat(t)
    PROVE  IInv'
  <2> USE <1>TableStep
  <2> DEFINE gone == SegsOf(n)
  <2>1. /\ TableInv /\ (\A x \in Segs : AttachInv(x))
        /\ \A t \in Tasks : LocalsOK(task[t]) /\ FoundInv(t) /\ PinInv(t) /\ task[t].ns \in Namespaces
    BY IInvIs, Alive DEF NsInv, CallInv
  <2>2. /\ \A t \in Tasks : task[t].ns # n /\ (InShmat(t) => task[t].shp \notin gone)
        /\ \A f \in Files : file[f].vmas > 0 => file[f].ns # n /\ Mapped(f) \notin gone
    BY <1>Abandoned
  <2>3. \A m \in Namespaces \ {n} : \A i \in DOMAIN ids[m].ipcs_idr :
          ids[m].ipcs_idr[i] \in Segs \ gone
    BY <2>1, TableFacts, SMTT(30) DEF TableInv, SegsOf
  <2>4. Keeps(gone)
    <3>1. \A i \in DOMAIN ids[n].ipcs_idr : ids[n].ipcs_idr[i] \in gone
      BY DEF SegsOf
    <3> QED BY <3>1 DEF Keeps
  <2>5. Shrinks(gone)
    <3>1. \A m \in Namespaces : \A i \in DOMAIN ids'[m].ipcs_idr :
            i \in DOMAIN ids[m].ipcs_idr /\ ids[m].ipcs_idr[i] \notin gone
      BY <2>3
    <3> QED BY <2>4, <3>1 DEF Shrinks
  <2> HIDE DEF gone
  <2>6. TableInv' /\ KeyInv' /\ \A m \in Namespaces : SeqInv(m)'
    BY <2>5, ShrinkKeeps
  <2>7. ASSUME NEW m \in Namespaces PROVE CountsInv(m)'
    <3>1. CASE m = n
      BY <3>1, CountsEmpty
    <3>2. CASE m # n
      <4>1. \A i \in DOMAIN ids[m].ipcs_idr : seg'[ids[m].ipcs_idr[i]] = seg[ids[m].ipcs_idr[i]]
        BY <2>3, <3>2 DEF gone
      <4> QED BY <3>2, <4>1, CountsKept
    <3> QED BY <3>1, <3>2
  <2>8. ASSUME NEW t \in Tasks PROVE MeantInv(t)' /\ FoundInv(t)'
    <3>1. MeantInv(t)'
      BY <2>1, <2>2, <2>5, MeantKept
    <3>2. task'[t].pc = "found" => /\ task[t].pc = "found" /\ task'[t].ns = task[t].ns
                                   /\ task'[t].shmid = task[t].shmid /\ task'[t].shp = task[t].shp
                                   /\ task[t].shp \in Segs /\ seg'[task[t].shp].mem # "free"
      BY <2>1, SMTT(30) DEF LocalsOK, FoundInv
    <3> QED BY <2>1, <2>5, <3>1, <3>2, FoundKept
  <2>9. ASSUME NEW x \in Segs PROVE AttachInv(x)'
    <3>1. CASE x \in gone
      BY <3>1 DEF AttachInv, gone
    <3>2. CASE x \notin gone
      <4>1. ASSUME NEW f \in Files PROVE SameMaps(f, x)
        <5>1. file[f].vmas > 0 => file[f].ns \in Namespaces \ {n}
          BY <2>2, MappedAt
        <5> QED BY <5>1 DEF SameMaps, Mapped, shm_lock
      <4>2. Mappings(x)' = Mappings(x) /\ Calls(x)' = Calls(x)
        BY <4>1, MappingsSame, CallsSame
      <4> QED BY <2>1, <3>2, <4>2 DEF AttachInv, gone
    <3> QED BY <3>1, <3>2
  <2>10. ASSUME NEW t \in Tasks, InShmat(t)'
         PROVE  task'[t].shp \in Segs \ gone /\ At(task'[t].shp, task'[t].ns, task'[t].shmid)
    BY <2>1, <2>2, <2>10 DEF PinInv, LocalsOK, InShmat
  <2>11. ASSUME NEW f \in Files, file'[f].vmas > 0 PROVE \E x \in Segs \ gone : At(x, file'[f].ns, file'[f].id)
    BY <2>2, <2>11, MappedAt
  <2> QED BY <2>4, <2>6, <2>7, <2>8, <2>9, <2>10, <2>11, Assemble
\* A deleted segment nobody holds is freed.
<1>FreeStep. ASSUME IInv, NsInv', NEW s \in Segs, RcuFree(s) PROVE IInv'
  <2> USE <1>FreeStep
  <2>1. /\ SegType /\ TableType /\ TableInv /\ FileType /\ (\A x \in Segs : AttachInv(x))
        /\ \A t \in Tasks : task[t].ns \in Namespaces /\ LocalsOK(task[t]) /\ FoundInv(t) /\ PinInv(t)
        /\ \A f \in Files : MapInv(f)
    BY IInvIs, Alive DEF NsInv, CallInv
  <2>2. /\ seg[s].mem = "deleted" /\ \A t \in Tasks : task[t].pc = "found" => task[t].shp # s
        /\ seg' = [seg EXCEPT ![s] = NoSeg] /\ UNCHANGED <<ns, ids, shm_tot, file, task, made, scope>>
    BY DEF RcuFree, nsVars
  <2>3. NoSeg \in SegRec /\ NoSeg.mem = "free"
    BY DEF NoSeg, SegRec
  <2>4. SegType' /\ seg'[s].mem = "free" /\ \A x \in Segs : x # s => seg'[x] = seg[x]
    BY <2>1, <2>2, <2>3 DEF SegType, SegRec
  <2>5. TableType'
    BY <2>1, <2>2 DEF TableType
  <2>6. Shrinks({}) /\ Keeps({})
    BY <2>2, <2>4 DEF Shrinks, Keeps
  <2>7. TableInv' /\ KeyInv' /\ \A m \in Namespaces : SeqInv(m)'
    BY <2>2, <2>6, ShrinkKeeps
  <2>8. ASSUME NEW n \in Namespaces PROVE CountsInv(n)'
    <3>1. \A i \in DOMAIN ids[n].ipcs_idr : ids[n].ipcs_idr[i] \in Segs /\ ids[n].ipcs_idr[i] # s
      BY <2>1, <2>2, TableFacts DEF TableInv
    <3>2. \A i \in DOMAIN ids[n].ipcs_idr : seg'[ids[n].ipcs_idr[i]].pages = seg[ids[n].ipcs_idr[i]].pages
      BY <2>4, <3>1
    <3> QED BY <2>2, <3>2, CountsKept
  <2>9. ASSUME NEW t \in Tasks PROVE MeantInv(t)' /\ FoundInv(t)'
    <3>1. MeantInv(t)'
      BY <2>1, <2>2, <2>6, MeantKept
    <3>2. task'[t].pc = "found" => /\ task[t].pc = "found" /\ task'[t].ns = task[t].ns
                                   /\ task'[t].shmid = task[t].shmid /\ task'[t].shp = task[t].shp
                                   /\ task[t].shp \in Segs /\ seg'[task[t].shp].mem # "free"
      BY <2>1, <2>2, <2>4 DEF LocalsOK, FoundInv
    <3> QED BY <2>1, <2>6, <3>1, <3>2, FoundKept
  <2>10. \A t \in Tasks : InShmat(t)' <=> InShmat(t)
    BY <2>2 DEF InShmat
  <2>11. ASSUME NEW x \in Segs PROVE AttachInv(x)'
    <3>1. \A f \in Files : SameMaps(f, x)
      BY <2>2 DEF SameMaps, Mapped, shm_lock
    <3>2. Mappings(x)' = Mappings(x) /\ Calls(x)' = Calls(x)
      BY <2>2, <2>10, <3>1, MappingsSame, CallsSame
    <3> QED BY <2>1, <2>4, <3>2 DEF AttachInv
  <2>12. ASSUME NEW t \in Tasks, InShmat(t)'
         PROVE  task'[t].shp \in Segs \ {} /\ At(task'[t].shp, task'[t].ns, task'[t].shmid)
    BY <2>1, <2>2, <2>10, <2>12 DEF PinInv, LocalsOK, InShmat
  <2>13. ASSUME NEW f \in Files, file'[f].vmas > 0 PROVE \E x \in Segs \ {} : At(x, file'[f].ns, file'[f].id)
    BY <2>2, <2>13, MappedAt
  <2> QED BY <2>4, <2>5, <2>6, <2>7, <2>8, <2>9, <2>11, <2>12, <2>13, Assemble
\* shm_exit_ns: every segment of the namespace is unused, and destroyed.
<1>ExitStep. ASSUME IInv, NsInv', NEW n \in Namespaces, shm_exit_ns(n) PROVE IInv'
  <2> USE <1>ExitStep
  <2> DEFINE D == DOMAIN ids[n].ipcs_idr
             p == RestrictValues(ids[n].ipcs_idr, LAMBDA s : s \notin SegsOf(n))
             u == ids[n].in_use - Cardinality(SegsOf(n))
             v == shm_tot[n] - PagesOf(SegsOf(n))
  <2>1. /\ NsType /\ SegType /\ TableType /\ ns[n].life \notin {"live", "new"} /\ CountsInv(n) /\ SeqInv(n)
    BY IInvIs DEF NsInv, shm_exit_ns
  <2>2. \A s \in SegsOf(n) : s \in Segs /\ seg[s].mem = "live" /\ seg[s].nattch = 0
    BY <2>1, <1>Abandoned
  <2>3. {ids[n].ipcs_idr[i] : i \in Visited(ids[n])} = SegsOf(n)
    BY VisitsAll DEF SegsOf
  <2>4. {s \in SegsOf(n) : seg[s].nattch = 0} = SegsOf(n)
    BY <2>2
  <2>5. /\ ids' = [ids EXCEPT ![n].ipcs_idr = p, ![n].in_use = u]
        /\ shm_tot' = [shm_tot EXCEPT ![n] = v]
        /\ seg' = [s \in Segs |-> IF s \in SegsOf(n) THEN [seg[s] EXCEPT !.mem = "deleted"]
                                  ELSE IF s \in SegsOf(n) THEN [seg[s] EXCEPT !.dest = TRUE, !.key = IPC_PRIVATE]
                                  ELSE seg[s]]
        /\ ns' = [ns EXCEPT ![n].life = "exited"] /\ UNCHANGED <<file, task, made, scope>>
    <3> DEFINE all == {ids[n].ipcs_idr[i] : i \in Visited(ids[n])}
               gone == {s \in all : seg[s].nattch = 0}
    <3>1. /\ ids' = [ids EXCEPT ![n].ipcs_idr = [x \in {x \in D : ids[n].ipcs_idr[x] \notin gone} |-> ids[n].ipcs_idr[x]],
                                ![n].in_use = ids[n].in_use - Cardinality(gone)]
          /\ shm_tot' = [shm_tot EXCEPT ![n] = shm_tot[n] - PagesOf(gone)]
          /\ seg' = [s \in Segs |-> IF s \in gone THEN [seg[s] EXCEPT !.mem = "deleted"]
                                    ELSE IF s \in all THEN [seg[s] EXCEPT !.dest = TRUE, !.key = IPC_PRIVATE]
                                    ELSE seg[s]]
      BY <2>1 DEF shm_exit_ns, RestrictValues, Restrict, TableType
    <3>2. all = SegsOf(n) /\ gone = SegsOf(n)
      BY <2>3, <2>4
    <3> HIDE DEF all, gone
    <3>3. p = [x \in {x \in D : ids[n].ipcs_idr[x] \notin gone} |-> ids[n].ipcs_idr[x]]
      BY <3>2 DEF RestrictValues, Restrict
    <3>4. u = ids[n].in_use - Cardinality(gone) /\ v = shm_tot[n] - PagesOf(gone)
      BY <3>2
    <3>5. ns' = [ns EXCEPT ![n].life = "exited"] /\ UNCHANGED <<file, task, made, scope>>
      BY DEF shm_exit_ns
    <3> HIDE DEF p, u, v
    <3> QED BY <3>1, <3>2, <3>3, <3>4, <3>5
  <2>6. p \in [{} -> Segs] /\ DOMAIN p = {}
    <3>1. {x \in DOMAIN ids[n].ipcs_idr : ids[n].ipcs_idr[x] \notin SegsOf(n)} = {}
      BY DEF SegsOf
    <3>2. p = [x \in {} |-> ids[n].ipcs_idr[x]]
      BY <3>1 DEF RestrictValues, Restrict
    <3> QED BY <3>2
  <2>7. u = 0
    BY <1>TableSize, SMTT(30)
  <2>8. v = 0
    <3>1. shm_tot[n] = PagesOf(SegsOf(n)) /\ shm_tot[n] \in Nat
      BY <2>1 DEF CountsInv, TableType
    <3> QED BY <3>1, SMTT(30)
  <2> HIDE DEF p, u, v
  <2>9. /\ DOMAIN ids'[n].ipcs_idr = {} /\ ids'[n].in_use = 0 /\ ids'[n].seq = ids[n].seq /\ shm_tot'[n] = 0
        /\ \A m \in Namespaces \ {n} : ids'[m] = ids[m] /\ shm_tot'[m] = shm_tot[m] /\ ns'[m] = ns[m]
    BY <2>1, <2>5, <2>6, <2>7, <2>8 DEF TableType, NsType
  <2>10. SegType'
    <3>1. seg' = [s \in Segs |-> IF s \in SegsOf(n) THEN [seg[s] EXCEPT !.mem = "deleted"] ELSE seg[s]]
      BY <2>5
    <3>2. \A s \in Segs : [seg[s] EXCEPT !.mem = "deleted"] \in SegRec /\ seg[s] \in SegRec
      <4>1. \A s \in Segs : seg[s] \in SegRec
        BY <2>1 DEF SegType, SegRec
      <4>2. \A r \in SegRec : [r EXCEPT !.mem = "deleted"] \in SegRec
        BY DEF SegRec
      <4> QED BY <4>1, <4>2
    <3> HIDE DEF SegRec
    <3>3. seg' \in [Segs -> SegRec]
      BY <3>1, <3>2
    <3> QED BY <3>3 DEF SegType, SegRec
  <2>11. TableType'
    <3>1. p \in UNION {[E -> Segs] : E \in SUBSET Indexes}
      BY <2>6
    <3>2. u \in Nat /\ v \in Nat
      BY <2>7, <2>8
    <3> QED BY <2>1, <2>5, <3>1, <3>2 DEF TableType
  <2>12. SeqInv(n)'
    BY <2>1, <2>5, <2>9 DEF SeqInv
  <2>13. \A s \in Segs : /\ s \in SegsOf(n) => seg'[s].mem = "deleted"
                         /\ s \notin SegsOf(n) => seg'[s] = seg[s]
    BY <2>1, <2>5 DEF SegType
  <2>14. \A t \in Tasks : InShmat(t)' <=> InShmat(t)
    BY <2>5 DEF InShmat
  <2> QED BY <2>1, <2>5, <2>9, <2>10, <2>11, <2>12, <2>13, <2>14, <1>TableStep
\* copy_ipcs: the new namespace starts with an empty table.
<1>CopyStep. ASSUME IInv, NsInv', NEW t \in Tasks, NEW n \in Namespaces, copy_ipcs(t, n) PROVE IInv'
  <2> USE <1>CopyStep
  <2>1. /\ NsType /\ TaskType /\ SegType /\ TableType /\ ns[n].life = "none" /\ CountsInv(n)
    BY IInvIs DEF NsInv, copy_ipcs, create_ipc_ns
  <2>2. /\ ids' = [ids EXCEPT ![n] = ipc_init_ids] /\ shm_tot' = [shm_tot EXCEPT ![n] = 0]
        /\ made' = [made EXCEPT ![n] = 0] /\ UNCHANGED <<seg, file, scope>>
        /\ task[t].pc = "idle" /\ task' = [task EXCEPT ![t].pc = "creating", ![t].pns = n]
        /\ \A m \in Namespaces \ {n} : ns'[m] = ns[m]
    BY <2>1 DEF copy_ipcs, create_ipc_ns, NsType
  <2>3. SegsOf(n) = {}
    <3>1. IsFiniteSet(DOMAIN ids[n].ipcs_idr) /\ Cardinality(DOMAIN ids[n].ipcs_idr) = 0
      BY <2>1, TableFacts DEF CountsInv
    <3>2. DOMAIN ids[n].ipcs_idr = {}
      BY <3>1, FS_EmptySet
    <3> QED BY <3>2 DEF SegsOf
  <2>4. /\ DOMAIN ipc_init_ids.ipcs_idr = {} /\ ipc_init_ids.in_use = 0 /\ ipc_init_ids.seq = 0
        /\ ipc_init_ids \in [ipcs_idr : UNION {[E -> Segs] : E \in SUBSET Indexes}, in_use : Nat, seq : 0..SEQ_MAX]
    BY EmptyTable
  <2> HIDE DEF ipc_init_ids
  <2>5. TableType' /\ SegType'
    BY <2>1, <2>2, <2>4 DEF TableType, SegType
  <2>6. /\ DOMAIN ids'[n].ipcs_idr = {} /\ ids'[n].in_use = 0 /\ ids'[n].seq = 0 /\ shm_tot'[n] = 0 /\ made'[n] = 0
        /\ \A m \in Namespaces \ {n} : ids'[m] = ids[m] /\ shm_tot'[m] = shm_tot[m] /\ made'[m] = made[m]
    BY <2>1, <2>2, <2>4 DEF TableType
  <2>7. SeqInv(n)'
    <3>1. 0 % (SEQ_MAX + 1) = 0
      BY ShmAssumption, SMTT(30)
    <3> QED BY <2>6, <3>1 DEF SeqInv
  <2>8. \A x \in Tasks : /\ task'[x].ns = task[x].ns /\ task'[x].shmid = task[x].shmid
                         /\ task'[x].meant = task[x].meant /\ task'[x].shp = task[x].shp
                         /\ task'[x].pc = "found" => task[x].pc = "found"
                         /\ InShmat(x)' <=> InShmat(x)
    BY <2>1, <2>2 DEF TaskType, TaskRec, InShmat
  <2> QED BY <2>1, <2>2, <2>3, <2>5, <2>6, <2>7, <2>8, <1>TableStep
<1> QED BY <1>FreeStep, <1>ExitStep, <1>CopyStep

-----------------------------------------------------------------------------
(* shmget makes a segment *)

\* newseg keeps the invariant.
LEMMA NewSteps ==
  /\ IInv /\ NsInv'
  /\ \E t \in Tasks, s \in Segs, p \in Pages, key \in Keys \cup {IPC_PRIVATE} : ShmgetNew(t, s, key, p)
  => IInv'
\* The sequence number after the one of the a-th object.
<1>NextSeq.
    ASSUME NEW M \in Nat \ {0}, NEW a \in Nat
    PROVE  (a + 1) % M = IF (a % M) + 1 > M - 1 THEN 0 ELSE (a % M) + 1
  <2> USE <1>NextSeq
  <2> DEFINE q == a \div M
  <2>1. a = M * q + (a % M) /\ a % M \in 0..M - 1 /\ q \in Nat
    BY DivModUnique
  <2>2. CASE (a % M) + 1 > M - 1
    <3>1. a + 1 = M * (q + 1) + 0
      BY <2>1, <2>2, SMTT(30)
    <3>2. (M * (q + 1) + 0) % M = 0
      BY <2>1, DivMod, SMTT(30)
    <3> QED BY <2>2, <3>1, <3>2
  <2>3. CASE ~((a % M) + 1 > M - 1)
    <3>1. a + 1 = M * q + ((a % M) + 1)
      BY <2>1, <2>3, SMTT(30)
    <3>2. (M * q + ((a % M) + 1)) % M = (a % M) + 1
      <4>1. (a % M) + 1 \in 0..M - 1
        BY <2>1, <2>3, SMTT(30)
      <4> QED BY <2>1, <4>1, DivMod
    <3> QED BY <2>3, <3>1, <3>2
  <2> QED BY <2>2, <2>3
\* newseg: the segment enters the table at a free index, under the next
\* sequence number, and is counted.
<1>NewTables.
    ASSUME IInv, NEW n \in Namespaces, NEW s \in Segs, seg[s].mem = "free",
           ns[n].life \in {"live", "new"}, NEW key \in Keys \cup {IPC_PRIVATE}, NEW pages \in Pages, newseg(n, s, key, pages),
           made' = [made EXCEPT ![n] = @ + 1], UNCHANGED <<ns, scope>>,
           NEW i, i = idr_get_new(ids[n].ipcs_idr)
    PROVE  /\ i \in Indexes \ DOMAIN ids[n].ipcs_idr
           /\ ids'[n].ipcs_idr[i] = s /\ DOMAIN ids'[n].ipcs_idr = DOMAIN ids[n].ipcs_idr \cup {i}
           /\ \A j \in DOMAIN ids[n].ipcs_idr : ids'[n].ipcs_idr[j] = ids[n].ipcs_idr[j]
           /\ \A m \in Namespaces \ {n} : ids'[m] = ids[m] /\ made'[m] = made[m]
           /\ ids'[n].seq = (IF ids[n].seq + 1 > SEQ_MAX THEN 0 ELSE ids[n].seq + 1)
           /\ made'[n] = made[n] + 1 /\ made[n] \in Nat
           /\ \A x \in Segs : x # s => seg'[x] = seg[x]
           /\ seg'[s].mem = "live" /\ seg'[s].key = key /\ seg'[s].id = NewId(ids[n]) /\ seg'[s].nattch = 0
           /\ ~seg'[s].dest /\ seg'[s].made = made[n] + 1 /\ NewId(ids[n]) \in Nat
           /\ SegType' /\ TableType' /\ \A m \in Namespaces : CountsInv(m)'
  <2> USE <1>NewTables
  <2> DEFINE D == DOMAIN ids[n].ipcs_idr
             p == idr_set(ids[n].ipcs_idr, i, s)
             u == ids[n].in_use + 1
             v == IF ids[n].seq + 1 > SEQ_MAX THEN 0 ELSE ids[n].seq + 1
             q == [ipcs_idr |-> p, in_use |-> u, seq |-> v]
             r == [mem |-> "live", key |-> key, id |-> NewId(ids[n]), pages |-> pages, nattch |-> 0,
                   dest |-> FALSE, made |-> made[n] + 1]
  <2>1. SegType /\ TableType /\ TableInv /\ (\A m \in Namespaces : CountsInv(m))
    BY IInvIs
  <2>2. /\ ids' = [ids EXCEPT ![n] = q] /\ seg' = [seg EXCEPT ![s] = r]
        /\ shm_tot' = [shm_tot EXCEPT ![n] = shm_tot[n] + pages]
    BY DEF newseg, ipc_addid
  <2>3. i \in Indexes /\ i \notin D /\ NewId(ids[n]) \in Nat
    BY FreeIndex DEF newseg
  <2>4. /\ D \subseteq Indexes /\ (\A j \in D : ids[n].ipcs_idr[j] \in Segs) /\ IsFiniteSet(D)
        /\ ids[n].in_use = Cardinality(D) /\ ids[n].seq \in Nat /\ made[n] \in Nat /\ pages \in Nat
    BY TableFacts, ShmAssumption
  <2>5. p = [j \in D \cup {i} |-> IF j = i THEN s ELSE ids[n].ipcs_idr[j]]
    BY DEF idr_set
  <2>6. /\ p \in [D \cup {i} -> Segs] /\ DOMAIN p = D \cup {i} /\ p[i] = s
        /\ \A j \in D : p[j] = ids[n].ipcs_idr[j]
    BY <2>3, <2>4, <2>5
  <2>7. u \in Nat /\ u = Cardinality(D \cup {i})
    <3>1. Cardinality(D) \in Nat /\ Cardinality(D \cup {i}) = Cardinality(D) + 1
      BY <2>3, TableCount
    <3> QED BY <2>4, <3>1, SMTT(30)
  <2>8. v \in 0..SEQ_MAX
    BY <2>4, ShmAssumption, SMTT(30)
  <2>9. r \in SegRec /\ r.mem = "live" /\ r.key = key /\ r.id = NewId(ids[n]) /\ r.pages = pages
        /\ r.nattch = 0 /\ r.dest = FALSE /\ r.made = made[n] + 1
    <3>1. made[n] + 1 \in Nat /\ FALSE \in BOOLEAN
      BY <2>4, SMTT(30)
    <3> QED BY <2>3, <2>4, <3>1 DEF SegRec
  <2> HIDE DEF p, u, v, r
  <2>10. q.ipcs_idr = p /\ q.in_use = u /\ q.seq = v
    OBVIOUS
  <2>11. q \in [ipcs_idr : UNION {[E -> Segs] : E \in SUBSET Indexes}, in_use : Nat, seq : 0..SEQ_MAX]
    <3>1. D \cup {i} \in SUBSET Indexes
      BY <2>3, <2>4
    <3>2. p \in UNION {[E -> Segs] : E \in SUBSET Indexes}
      BY <2>6, <3>1
    <3> QED BY <2>7, <2>8, <3>2
  <2> HIDE DEF q
  <2>12. SegType' /\ seg'[s] = r /\ \A x \in Segs : x # s => seg'[x] = seg[x]
    <3>1. seg \in [Segs -> SegRec]
      BY <2>1 DEF SegType, SegRec
    <3>2. seg' \in [Segs -> SegRec] /\ seg'[s] = r /\ \A x \in Segs : x # s => seg'[x] = seg[x]
      BY <2>2, <2>9, <3>1
    <3> QED BY <3>2 DEF SegType, SegRec
  <2>13. /\ TableType' /\ ids'[n] = q /\ made'[n] = made[n] + 1 /\ shm_tot'[n] = shm_tot[n] + pages
         /\ \A m \in Namespaces \ {n} : ids'[m] = ids[m] /\ made'[m] = made[m] /\ shm_tot'[m] = shm_tot[m]
    BY <2>1, <2>2, <2>4, <2>11, SMTT(30) DEF TableType
  <2>14. /\ DOMAIN ids'[n].ipcs_idr = D \cup {i} /\ ids'[n].in_use = u /\ ids'[n].seq = v
         /\ ids'[n].ipcs_idr[i] = s /\ \A j \in D : ids'[n].ipcs_idr[j] = ids[n].ipcs_idr[j]
    BY <2>6, <2>10, <2>13
  <2>15. \A m \in Namespaces : \A j \in DOMAIN ids[m].ipcs_idr :
           ids[m].ipcs_idr[j] \in Segs /\ ids[m].ipcs_idr[j] # s
    BY <2>1, TableFacts DEF TableInv
  <2>16. CountsInv(n)'
    <3>1. SegsOf(n) \subseteq Segs /\ s \notin SegsOf(n) /\ SegsOf(n)' = SegsOf(n) \cup {s}
      BY <2>3, <2>14, <2>15, SMTT(30) DEF SegsOf
    <3>2. SegsOf(n)' \ {s} = SegsOf(n) \ {s} /\ \A x \in SegsOf(n) \ {s} : seg'[x].pages = seg[x].pages
      BY <2>12, <3>1
    <3>3. SegType /\ SegType' /\ SegsOf(n) \subseteq Segs
      BY <2>1, <2>12, <3>1
    <3>4. /\ PagesOf(SegsOf(n)) \in Nat /\ PagesOf(SegsOf(n))' \in Nat
          /\ PagesOf(SegsOf(n))' = PagesOf(SegsOf(n)) + (IF s \in SegsOf(n)' THEN seg'[s].pages ELSE 0)
                                    - (IF s \in SegsOf(n) THEN seg[s].pages ELSE 0)
      BY <3>2, <3>3, PagesStep
    <3>5. PagesOf(SegsOf(n))' = PagesOf(SegsOf(n)) + pages
      BY <2>4, <2>9, <2>12, <3>1, <3>4, SMTT(30)
    <3>6. shm_tot[n] = PagesOf(SegsOf(n)) /\ ns[n].life \notin {"none", "exited"}
      BY <2>1 DEF CountsInv
    <3> QED BY <2>7, <2>13, <2>14, <3>5, <3>6 DEF CountsInv
  <2>17. ASSUME NEW m \in Namespaces, m # n PROVE CountsInv(m)'
    <3>1. \A j \in DOMAIN ids[m].ipcs_idr : seg'[ids[m].ipcs_idr[j]] = seg[ids[m].ipcs_idr[j]]
      BY <2>12, <2>15
    <3> QED BY <2>13, <2>17, <3>1, CountsKept
  <2> QED BY <2>3, <2>4, <2>9, <2>12, <2>13, <2>14, <2>16, <2>17 DEF v
\* The tables stay in order when a segment enters one.
<1>NewOrder.
    ASSUME IInv, NEW n \in Namespaces, NEW s \in Segs, NEW i \in Indexes \ DOMAIN ids[n].ipcs_idr,
           NEW key \in Keys \cup {IPC_PRIVATE}, key = IPC_PRIVATE \/ ipc_findkey(ids[n], seg, key) = {},
           seg[s].mem = "free", i = idr_get_new(ids[n].ipcs_idr),
           ids'[n].ipcs_idr[i] = s, DOMAIN ids'[n].ipcs_idr = DOMAIN ids[n].ipcs_idr \cup {i},
           \A j \in DOMAIN ids[n].ipcs_idr : ids'[n].ipcs_idr[j] = ids[n].ipcs_idr[j],
           \A m \in Namespaces \ {n} : ids'[m] = ids[m] /\ made'[m] = made[m],
           ids'[n].seq = (IF ids[n].seq + 1 > SEQ_MAX THEN 0 ELSE ids[n].seq + 1),
           made'[n] = made[n] + 1,
           \A x \in Segs : x # s => seg'[x] = seg[x],
           seg'[s].mem = "live", seg'[s].key = key, seg'[s].id = NewId(ids[n]), seg'[s].made = made[n] + 1
    PROVE  /\ ipcid_to_idx(NewId(ids[n])) = i /\ NewId(ids[n]) \div IPCMNI = made[n] % (SEQ_MAX + 1)
           /\ TableInv' /\ KeyInv' /\ (\A m \in Namespaces : SeqInv(m)') /\ Keeps({})
  <2>1. TableInv /\ KeyInv /\ \A m \in Namespaces : SeqInv(m)
    BY <1>NewOrder DEF IInv
  <2>2. ids[n].seq \in Nat /\ made[n] \in Nat /\ ids[n].seq = made[n] % (SEQ_MAX + 1)
    BY <1>NewOrder, <2>1, TableFacts DEF SeqInv
  <2>3. ipcid_to_idx(NewId(ids[n])) = i /\ NewId(ids[n]) \div IPCMNI = ids[n].seq
    <3>1. IPCMNI \in Nat \ {0} /\ i \in 0..IPCMNI - 1
      BY ShmAssumption DEF Indexes
    <3>2. (IPCMNI * ids[n].seq + i) % IPCMNI = i /\ (IPCMNI * ids[n].seq + i) \div IPCMNI = ids[n].seq
      BY <2>2, <3>1, DivMod
    <3> QED BY <1>NewOrder, <3>2 DEF NewId, ipc_buildid, ipcid_to_idx
  <2>4. ASSUME NEW m \in Namespaces, NEW j \in DOMAIN ids[m].ipcs_idr
        PROVE  /\ ids[m].ipcs_idr[j] \in Segs /\ ids[m].ipcs_idr[j] # s /\ j \in DOMAIN ids'[m].ipcs_idr
               /\ ids'[m].ipcs_idr[j] = ids[m].ipcs_idr[j] /\ seg'[ids[m].ipcs_idr[j]] = seg[ids[m].ipcs_idr[j]]
    <3>1. ids[m].ipcs_idr[j] \in Segs /\ seg[ids[m].ipcs_idr[j]].mem = "live"
      BY <1>NewOrder, <2>1, TableFacts DEF TableInv
    <3>2. ids[m].ipcs_idr[j] # s
      BY <1>NewOrder, <3>1
    <3>3. seg'[ids[m].ipcs_idr[j]] = seg[ids[m].ipcs_idr[j]]
      BY <1>NewOrder, <3>1, <3>2
    <3>4. j \in DOMAIN ids'[m].ipcs_idr /\ ids'[m].ipcs_idr[j] = ids[m].ipcs_idr[j]
      <4>1. CASE m = n
        BY <1>NewOrder, <4>1
      <4>2. CASE m # n
        BY <1>NewOrder, <4>2
      <4> QED BY <4>1, <4>2
    <3> QED BY <3>1, <3>2, <3>3, <3>4
  <2>5. ASSUME NEW m \in Namespaces, NEW j \in DOMAIN ids'[m].ipcs_idr
        PROVE  \/ j \in DOMAIN ids[m].ipcs_idr
               \/ m = n /\ j = i /\ ids'[m].ipcs_idr[j] = s
    BY <1>NewOrder
  <2>6. TableInv'
    <3>1. ASSUME NEW m \in Namespaces, NEW j \in DOMAIN ids'[m].ipcs_idr
          PROVE  seg'[ids'[m].ipcs_idr[j]].mem = "live" /\ ipcid_to_idx(seg'[ids'[m].ipcs_idr[j]].id) = j
      <4>1. CASE j \in DOMAIN ids[m].ipcs_idr
        <5>1. seg'[ids'[m].ipcs_idr[j]] = seg[ids[m].ipcs_idr[j]]
          BY <2>4, <4>1, SMTT(30)
        <5> QED BY <2>1, <4>1, <5>1 DEF TableInv
      <4>2. CASE m = n /\ j = i /\ ids'[m].ipcs_idr[j] = s
        BY <1>NewOrder, <2>3, <4>2
      <4> QED BY <2>5, <4>1, <4>2
    <3>2. ASSUME NEW m \in Namespaces, NEW k \in Namespaces, NEW j \in DOMAIN ids'[m].ipcs_idr,
                 NEW l \in DOMAIN ids'[k].ipcs_idr, ids'[m].ipcs_idr[j] = ids'[k].ipcs_idr[l]
          PROVE  m = k
      <4>1. CASE j \in DOMAIN ids[m].ipcs_idr /\ l \in DOMAIN ids[k].ipcs_idr
        <5>1. ids[m].ipcs_idr[j] = ids[k].ipcs_idr[l]
          BY <2>4, <3>2, <4>1
        <5> QED BY <2>1, <4>1, <5>1 DEF TableInv
      <4>2. CASE j \in DOMAIN ids[m].ipcs_idr /\ l \notin DOMAIN ids[k].ipcs_idr
        <5>1. ids'[k].ipcs_idr[l] = s /\ ids'[m].ipcs_idr[j] # s
          BY <2>4, <2>5, <4>2, SMTT(30)
        <5> QED BY <3>2, <5>1
      <4>3. CASE j \notin DOMAIN ids[m].ipcs_idr /\ l \in DOMAIN ids[k].ipcs_idr
        <5>1. ids'[m].ipcs_idr[j] = s /\ ids'[k].ipcs_idr[l] # s
          BY <2>4, <2>5, <4>3, SMTT(30)
        <5> QED BY <3>2, <5>1
      <4>4. CASE j \notin DOMAIN ids[m].ipcs_idr /\ l \notin DOMAIN ids[k].ipcs_idr
        BY <2>5, <4>4, SMTT(30)
      <4> QED BY <4>1, <4>2, <4>3, <4>4
    <3> QED BY <3>1, <3>2 DEF TableInv
  <2>7. KeyInv'
    <3>1. key # IPC_PRIVATE => \A j \in DOMAIN ids[n].ipcs_idr : seg[ids[n].ipcs_idr[j]].key # key
      <4>1. Visited(ids[n]) = DOMAIN ids[n].ipcs_idr
        BY <1>NewOrder, VisitsAll
      <4>2. key # IPC_PRIVATE => ipc_findkey(ids[n], seg, key) = {}
        BY <1>NewOrder
      <4> QED BY <4>1, <4>2 DEF ipc_findkey
    <3> SUFFICES ASSUME NEW m \in Namespaces, NEW j \in DOMAIN ids'[m].ipcs_idr, NEW k \in DOMAIN ids'[m].ipcs_idr,
                        seg'[ids'[m].ipcs_idr[j]].key = seg'[ids'[m].ipcs_idr[k]].key,
                        seg'[ids'[m].ipcs_idr[j]].key # IPC_PRIVATE
                 PROVE  j = k
      BY DEF KeyInv
    <3>2. CASE j \in DOMAIN ids[m].ipcs_idr /\ k \in DOMAIN ids[m].ipcs_idr
      <4>1. /\ seg'[ids'[m].ipcs_idr[j]] = seg[ids[m].ipcs_idr[j]]
            /\ seg'[ids'[m].ipcs_idr[k]] = seg[ids[m].ipcs_idr[k]]
        BY <2>4, <3>2, SMTT(30)
      <4> QED BY <2>1, <3>2, <4>1 DEF KeyInv
    <3>3. ASSUME NEW a \in DOMAIN ids'[m].ipcs_idr, NEW b \in DOMAIN ids'[m].ipcs_idr,
                 seg'[ids'[m].ipcs_idr[a]].key = seg'[ids'[m].ipcs_idr[b]].key,
                 seg'[ids'[m].ipcs_idr[a]].key # IPC_PRIVATE, a \notin DOMAIN ids[m].ipcs_idr
          PROVE  a = b
      <4>1. m = n /\ a = i /\ ids'[m].ipcs_idr[a] = s /\ seg'[s].key = key
        BY <1>NewOrder, <2>5, <3>3
      <4>2. ASSUME b \in DOMAIN ids[m].ipcs_idr PROVE FALSE
        <5>1. seg'[ids'[m].ipcs_idr[b]] = seg[ids[m].ipcs_idr[b]]
          BY <2>4, <4>2, SMTT(30)
        <5> QED BY <3>1, <3>3, <4>1, <4>2, <5>1
      <4> QED BY <2>5, <4>1, <4>2
    <3> QED BY <3>2, <3>3
  <2>8. SeqInv(n)'
    <3>1. ids'[n].seq = made'[n] % (SEQ_MAX + 1)
      <4>1. SEQ_MAX + 1 \in Nat \ {0} /\ (SEQ_MAX + 1) - 1 = SEQ_MAX /\ SEQ_MAX \in Nat
        BY ShmAssumption, SMTT(30)
      <4>2. (made[n] + 1) % (SEQ_MAX + 1) =
              IF (made[n] % (SEQ_MAX + 1)) + 1 > (SEQ_MAX + 1) - 1 THEN 0 ELSE (made[n] % (SEQ_MAX + 1)) + 1
        BY <2>2, <4>1, <1>NextSeq
      <4> QED BY <1>NewOrder, <2>2, <4>1, <4>2, SMTT(30)
    <3>2. ASSUME NEW j \in DOMAIN ids[n].ipcs_idr
          PROVE  /\ seg'[ids'[n].ipcs_idr[j]].made \in 1..made'[n]
                 /\ seg'[ids'[n].ipcs_idr[j]].id \div IPCMNI = (seg'[ids'[n].ipcs_idr[j]].made - 1) % (SEQ_MAX + 1)
      <4>1. /\ seg[ids[n].ipcs_idr[j]].made \in 1..made[n]
            /\ seg[ids[n].ipcs_idr[j]].id \div IPCMNI = (seg[ids[n].ipcs_idr[j]].made - 1) % (SEQ_MAX + 1)
        BY <2>1 DEF SeqInv
      <4>2. seg'[ids'[n].ipcs_idr[j]] = seg[ids[n].ipcs_idr[j]]
        BY <2>4, SMTT(30)
      <4>3. \A x \in 1..made[n] : x \in 1..made'[n]
        BY <1>NewOrder, <2>2, SMTT(30)
      <4> QED BY <4>1, <4>2, <4>3
    <3>3. /\ seg'[s].made \in 1..made'[n] /\ seg'[s].id \div IPCMNI = (seg'[s].made - 1) % (SEQ_MAX + 1)
      <4>1. (made[n] + 1) - 1 = made[n] /\ made[n] + 1 \in 1..made[n] + 1
        BY <2>2, SMTT(30)
      <4> QED BY <1>NewOrder, <2>2, <2>3, <4>1
    <3> QED BY <2>5, <3>1, <3>2, <3>3 DEF SeqInv
  <2>9. ASSUME NEW m \in Namespaces, m # n PROVE SeqInv(m)'
    <3>1. SeqInv(m) /\ ids'[m] = ids[m] /\ made'[m] = made[m]
      BY <1>NewOrder, <2>1, <2>9
    <3>2. \A j \in DOMAIN ids[m].ipcs_idr : seg'[ids[m].ipcs_idr[j]] = seg[ids[m].ipcs_idr[j]]
      BY <2>4
    <3> QED BY <3>1, <3>2 DEF SeqInv
  <2>10. Keeps({})
    <3>1. \A x \in Segs : seg[x].mem = "live" => seg'[x] = seg[x]
      BY <1>NewOrder
    <3> QED BY <2>4, <3>1 DEF Keeps
  <2> QED BY <2>2, <2>3, <2>6, <2>7, <2>8, <2>9, <2>10
\* shmget with a key not in use, or IPC_PRIVATE.
<1>NewStep.
    ASSUME IInv, NsInv', NEW t \in Tasks, NEW s \in Segs, NEW key \in Keys \cup {IPC_PRIVATE},
           NEW pages \in Pages, ShmgetNew(t, s, key, pages)
    PROVE  IInv'
  <2> USE <1>NewStep
  <2> DEFINE n == task[t].ns
             i == idr_get_new(ids[n].ipcs_idr)
             D == DOMAIN ids[n].ipcs_idr
             id == NewId(ids[n])
  <2>1. /\ TaskType /\ TableInv /\ n \in Namespaces /\ ns[n].life \in {"live", "new"}
        /\ \A x \in Segs : AttachInv(x)
        /\ \A u \in Tasks : /\ FoundInv(u) /\ MeantInv(u) /\ PinInv(u) /\ LocalsOK(task[u])
                            /\ task[u].ns \in Namespaces
    BY IInvIs, Alive DEF NsInv, CallInv
  <2>2. /\ task[t].pc = "idle" /\ seg[s].mem = "free" /\ newseg(n, s, key, pages)
        /\ key = IPC_PRIVATE \/ ipc_findkey(ids[n], seg, key) = {}
        /\ made' = [made EXCEPT ![n] = @ + 1] /\ UNCHANGED <<ns, file, scope>>
        /\ task' = [task EXCEPT ![t].shmid = id, ![t].meant = made[n] + 1]
    BY DEF ShmgetNew, nsVars
  <2> HIDE DEF i, n, D
  <2>3. /\ i \in Indexes \ D
        /\ ids'[n].ipcs_idr[i] = s /\ DOMAIN ids'[n].ipcs_idr = D \cup {i}
        /\ \A j \in D : ids'[n].ipcs_idr[j] = ids[n].ipcs_idr[j]
        /\ \A m \in Namespaces \ {n} : ids'[m] = ids[m] /\ made'[m] = made[m]
        /\ ids'[n].seq = (IF ids[n].seq + 1 > SEQ_MAX THEN 0 ELSE ids[n].seq + 1)
        /\ made'[n] = made[n] + 1 /\ made[n] \in Nat
        /\ \A x \in Segs : x # s => seg'[x] = seg[x]
        /\ seg'[s].mem = "live" /\ seg'[s].key = key /\ seg'[s].id = id /\ seg'[s].nattch = 0
        /\ ~seg'[s].dest /\ seg'[s].made = made[n] + 1 /\ id \in Nat
        /\ SegType' /\ TableType' /\ \A m \in Namespaces : CountsInv(m)'
    BY <2>1, <2>2, <1>NewTables DEF i, D
  <2>4. /\ ipcid_to_idx(id) = i /\ id \div IPCMNI = made[n] % (SEQ_MAX + 1)
        /\ TableInv' /\ KeyInv' /\ (\A m \in Namespaces : SeqInv(m)') /\ Keeps({})
    BY <2>1, <2>2, <2>3, <1>NewOrder DEF i, D
  <2> HIDE DEF id
  <2>5. /\ task'[t].ns = n /\ task'[t].shmid = id /\ task'[t].meant = made[n] + 1 /\ task'[t].pc = "idle"
        /\ task'[t].shp = task[t].shp /\ \A u \in Tasks : u # t => task'[u] = task[u]
    BY <2>1, <2>2 DEF TaskType, TaskRec, n
  <2>6. \A u \in Tasks : /\ InShmat(u)' <=> InShmat(u)
                         /\ InShmat(u) => task'[u] = task[u]
    BY <2>2, <2>5 DEF InShmat
  <2>7. ASSUME NEW m \in Namespaces, NEW j \in DOMAIN ids[m].ipcs_idr
        PROVE  /\ ids[m].ipcs_idr[j] \in Segs /\ ids[m].ipcs_idr[j] # s /\ j \in DOMAIN ids'[m].ipcs_idr
               /\ ids'[m].ipcs_idr[j] = ids[m].ipcs_idr[j] /\ seg'[ids[m].ipcs_idr[j]] = seg[ids[m].ipcs_idr[j]]
    <3>1. ids[m].ipcs_idr[j] \in Segs /\ seg[ids[m].ipcs_idr[j]].mem = "live"
      BY <2>1, TableFacts DEF TableInv
    <3>2. ids[m].ipcs_idr[j] # s
      BY <2>2, <3>1
    <3>3. seg'[ids[m].ipcs_idr[j]] = seg[ids[m].ipcs_idr[j]]
      BY <2>3, <3>1, <3>2
    <3>4. j \in DOMAIN ids'[m].ipcs_idr /\ ids'[m].ipcs_idr[j] = ids[m].ipcs_idr[j]
      <4>1. CASE m = n
        BY <2>3, <4>1 DEF D
      <4>2. CASE m # n
        BY <2>3, <4>2
      <4> QED BY <4>1, <4>2
    <3> QED BY <3>1, <3>2, <3>3, <3>4
  <2>8. ASSUME NEW u \in Tasks PROVE MeantInv(u)'
    <3>1. CASE u = t
      <4>1. (made[n] + 1) - 1 = made[n] /\ made[n] + 1 \in 1..made[n] + 1 /\ made[n] + 1 >= made[n] + 1
        BY <2>3, SMTT(30)
      <4>2. \A j \in D : j # ipcid_to_idx(id)
        BY <2>3, <2>4
      <4>3. \A j \in DOMAIN ids'[n].ipcs_idr :
              j = ipcid_to_idx(id) => seg'[ids'[n].ipcs_idr[j]].made >= made[n] + 1
        BY <2>3, <4>1, <4>2
      <4>4. /\ task'[u].ns = n /\ task'[u].shmid = id /\ task'[u].meant = made[n] + 1 /\ made'[n] = made[n] + 1
            /\ id \div IPCMNI = made[n] % (SEQ_MAX + 1)
        BY <2>3, <2>4, <2>5, <3>1
      <4> QED BY <4>1, <4>3, <4>4 DEF MeantInv
    <3>2. CASE u # t /\ task[u].ns # n
      <4> DEFINE m == task[u].ns
      <4>1. m \in Namespaces /\ ids'[m] = ids[m] /\ made'[m] = made[m] /\ task'[u] = task[u] /\ MeantInv(u)
        BY <2>1, <2>3, <2>5, <3>2
      <4>2. \A j \in DOMAIN ids[m].ipcs_idr : seg'[ids[m].ipcs_idr[j]] = seg[ids[m].ipcs_idr[j]]
        BY <2>7, <4>1
      <4> QED BY <4>1, <4>2 DEF MeantInv
    <3>3. CASE u # t /\ task[u].ns = n /\ task[u].meant # 0
      <4>1. /\ task[u].meant \in 1..made[n] /\ task[u].shmid \div IPCMNI = (task[u].meant - 1) % (SEQ_MAX + 1)
            /\ \A j \in D : j = ipcid_to_idx(task[u].shmid) => seg[ids[n].ipcs_idr[j]].made >= task[u].meant
        BY <2>1, <3>3 DEF MeantInv, D
      <4>2. task[u].meant \in 1..made'[n] /\ made[n] + 1 >= task[u].meant
        BY <2>3, <4>1, SMTT(30)
      <4>3. \A j \in D : seg'[ids'[n].ipcs_idr[j]] = seg[ids[n].ipcs_idr[j]]
        BY <2>1, <2>7, SMTT(30) DEF D
      <4>4. \A j \in D \cup {i} : j = ipcid_to_idx(task[u].shmid) => seg'[ids'[n].ipcs_idr[j]].made >= task[u].meant
        BY <2>3, <4>1, <4>2, <4>3
      <4>5. /\ task'[u].meant = task[u].meant /\ task'[u].ns = n /\ task'[u].shmid = task[u].shmid
            /\ DOMAIN ids'[n].ipcs_idr = D \cup {i}
        BY <2>3, <2>5, <3>3
      <4> QED BY <4>1, <4>2, <4>4, <4>5 DEF MeantInv
    <3>4. CASE u # t /\ task[u].meant = 0
      BY <2>5, <3>4 DEF MeantInv
    <3> QED BY <3>1, <3>2, <3>3, <3>4
  <2>9. ASSUME NEW u \in Tasks PROVE FoundInv(u)'
    <3> SUFFICES ASSUME task'[u].pc = "found" PROVE FoundInv(u)'
      BY DEF FoundInv
    <3>1. task'[u] = task[u] /\ task[u].pc = "found"
      BY <2>5
    <3>2. task[u].shp \in Segs /\ seg[task[u].shp].mem # "free" /\ task[u].shp # s
      BY <2>1, <2>2, <3>1 DEF FoundInv, LocalsOK
    <3> DEFINE m == task[u].ns
               j == ipcid_to_idx(task[u].shmid)
    <3>3. m \in Namespaces /\ seg'[task[u].shp] = seg[task[u].shp]
      BY <2>1, <2>3, <3>2
    <3>4. seg[task[u].shp].mem = "live" => j \in DOMAIN ids[m].ipcs_idr /\ ids[m].ipcs_idr[j] = task[u].shp
      BY <2>1, <3>1 DEF FoundInv, shm_lock
    <3>5. seg[task[u].shp].mem = "live" => j \in DOMAIN ids'[m].ipcs_idr /\ ids'[m].ipcs_idr[j] = task[u].shp
      <4> HIDE DEF m, j
      <4> QED BY <2>7, <3>3, <3>4
    <3> QED BY <3>1, <3>2, <3>3, <3>5 DEF FoundInv, shm_lock
  <2>10. ASSUME NEW x \in Segs PROVE AttachInv(x)'
    <3>1. ASSUME NEW f \in Files PROVE SameMaps(f, x)
      <4>1. file[f].vmas > 0 => Mapped(f)' = Mapped(f)
        BY <2>2, <2>7, MappedAt DEF Mapped, At, shm_lock
      <4> QED BY <2>2, <4>1 DEF SameMaps
    <3>2. Mappings(x)' = Mappings(x) /\ Calls(x)' = Calls(x)
      BY <2>6, <3>1, MappingsSame, CallsSame
    <3>3. CASE x # s
      BY <2>1, <2>3, <3>2, <3>3 DEF AttachInv
    <3>4. CASE x = s
      <4>1. Calls(s) = {}
        BY <2>1, <2>2 DEF Calls, PinInv, At
      <4>2. Mappings(s) = {}
        BY <2>2, MappedAt, MappingsAre DEF At
      <4>3. Cardinality({}) = 0
        BY FS_EmptySet
      <4> QED BY <2>3, <3>2, <3>4, <4>1, <4>2, <4>3, SMTT(30) DEF AttachInv
    <3> QED BY <3>3, <3>4
  <2>11. ASSUME NEW u \in Tasks, InShmat(u)'
         PROVE  task'[u].shp \in Segs \ {} /\ At(task'[u].shp, task'[u].ns, task'[u].shmid)
    BY <2>1, <2>6, <2>11 DEF PinInv, LocalsOK, InShmat
  <2>12. ASSUME NEW f \in Files, file'[f].vmas > 0 PROVE \E x \in Segs \ {} : At(x, file'[f].ns, file'[f].id)
    BY <2>2, <2>12, MappedAt
  <2> QED BY <2>3, <2>4, <2>8, <2>9, <2>10, <2>11, <2>12, Assemble
<1> QED BY <1>NewStep

-----------------------------------------------------------------------------
(* The invariant holds *)

\* The system starts with one namespace, empty tables and no segment.
LEMMA InitIInv == Init => IInv
<1> SUFFICES ASSUME Init PROVE IInv
  OBVIOUS
<1>1. /\ ns = [n \in Namespaces |-> [life |-> IF n = InitNs THEN "live" ELSE "none",
                                     count |-> IF n = InitNs THEN 1 + Cardinality(Tasks) ELSE 0,
                                     sb |-> n = InitNs, mq |-> 0]]
      /\ chain = {InitNs} /\ walk = [w \in Notifiers |-> {}]
      /\ ids = [n \in Namespaces |-> ipc_init_ids] /\ shm_tot = [n \in Namespaces |-> 0]
      /\ seg = [s \in Segs |-> NoSeg] /\ file = [f \in Files |-> NoFile]
      /\ task = [t \in Tasks |-> NewTask] /\ made = [n \in Namespaces |-> 0] /\ scope \in Scopes
  BY DEF Init, NsInit
<1>2. /\ Cardinality(Tasks) \in Nat /\ Cardinality({}) = 0 /\ NONE \notin Namespaces \cup Segs \cup Files
      /\ InitNs \in Namespaces
  BY ShmAssumption, FS_CardinalityType, FS_EmptySet
<1>3. NsType
  <2>1. \A n \in Namespaces : [life |-> IF n = InitNs THEN "live" ELSE "none",
                               count |-> IF n = InitNs THEN 1 + Cardinality(Tasks) ELSE 0,
                               sb |-> n = InitNs, mq |-> 0]
                              \in [life : Lives, count : Nat, sb : BOOLEAN, mq : {0, 1}]
    <3> TAKE n \in Namespaces
    <3> DEFINE l == IF n = InitNs THEN "live" ELSE "none"
               c == IF n = InitNs THEN 1 + Cardinality(Tasks) ELSE 0
               b == n = InitNs
    <3>1. l \in Lives /\ c \in Nat
      BY <1>2, SMTT(30) DEF Lives
    <3>2. b \in BOOLEAN
      BY Zenon
    <3> HIDE DEF l, c, b
    <3>3. [life |-> l, count |-> c, sb |-> b, mq |-> 0] \in [life : Lives, count : Nat, sb : BOOLEAN, mq : {0, 1}]
      BY <3>1, <3>2
    <3> QED BY <3>3 DEF l, c, b
  <2> QED BY <1>1, <1>2, <2>1 DEF NsType
<1>4. NewTask \in TaskRec /\ NewTask.ns = InitNs /\ NewTask.nsfd = NONE /\ NewTask.pns = NONE
      /\ NewTask.pc = "idle" /\ NewTask.file = NONE /\ NewTask.meant = 0
  BY <1>2 DEF NewTask, TaskRec, Pcs
<1>5. NoFile \in [ns : Namespaces \cup {NONE}, id : Nat, vmas : Nat, refs : Nat] /\ NoFile.vmas = 0 /\ NoFile.refs = 0
  BY DEF NoFile
<1>6. NoSeg \in SegRec /\ NoSeg.mem = "free"
  BY DEF NoSeg, SegRec
<1> HIDE DEF NewTask, NoFile, NoSeg, SegRec, TaskRec
<1>7. TaskType /\ FileType /\ SegType
  <2>1. seg \in [Segs -> SegRec]
    BY <1>1, <1>6
  <2> QED BY <1>1, <1>4, <1>5, <2>1 DEF TaskType, FileType, SegType, SegRec
<1>8. \A t \in Tasks : LocalsOK(task[t]) /\ ~InShmat(t) /\ FoundInv(t) /\ MeantInv(t)
  BY <1>1, <1>2, <1>4 DEF LocalsOK, InShmat, FoundInv, MeantInv
<1>9. CallInv
  <2>1. \A f \in Files : Holders(f) = 0
    <3>1. \A f \in Files : {t \in Tasks : task[t].file = f} = {}
      BY <1>1, <1>2, <1>4
    <3> QED BY <1>2, <3>1 DEF Holders
  <2> QED BY <1>1, <1>5, <1>8, <2>1, SMTT(30) DEF CallInv
<1>10. ChainInv /\ WalkInv
  BY <1>1, <1>2 DEF ChainInv, WalkInv
<1>11. ASSUME NEW n \in Namespaces PROVE CountInv(n)
  <2>1. InNs(n) = (IF n = InitNs THEN Tasks ELSE {}) /\ WithFd(n) = {} /\ WithPns(n) = {} /\ FilesIn(n) = {}
    BY <1>1, <1>2, <1>4, <1>5, SMTT(30) DEF InNs, WithFd, WithPns, FilesIn
  <2>2. /\ ns[n].life = (IF n = InitNs THEN "live" ELSE "none") /\ ns[n].mq = 0
        /\ ns[n].count = (IF n = InitNs THEN 1 + Cardinality(Tasks) ELSE 0)
        /\ ns[n].sb => n = InitNs
    BY <1>1
  <2>3. Counted(n) = ns[n].count
    BY <1>2, <2>1, <2>2, SMTT(30) DEF Counted, One
  <2> QED BY <1>2, <2>2, <2>3, SMTT(30) DEF CountInv
<1>12. NsInv
  BY <1>3, <1>7, <1>9, <1>10, <1>11, ReachableIs DEF NsInv
<1>13. /\ DOMAIN ipc_init_ids.ipcs_idr = {} /\ ipc_init_ids.in_use = 0 /\ ipc_init_ids.seq = 0
       /\ ipc_init_ids \in [ipcs_idr : UNION {[E -> Segs] : E \in SUBSET Indexes}, in_use : Nat, seq : 0..SEQ_MAX]
  BY EmptyTable
<1> HIDE DEF ipc_init_ids
<1>14. TableType /\ \A n \in Namespaces : /\ DOMAIN ids[n].ipcs_idr = {} /\ ids[n].in_use = 0 /\ ids[n].seq = 0
                                          /\ shm_tot[n] = 0 /\ made[n] = 0
  BY <1>1, <1>13 DEF TableType
<1>15. TableInv /\ KeyInv
  BY <1>14 DEF TableInv, KeyInv
<1>16. ASSUME NEW n \in Namespaces PROVE SeqInv(n) /\ CountsInv(n)
  <2>1. 0 % (SEQ_MAX + 1) = 0
    BY ShmAssumption, SMTT(30)
  <2>2. SegsOf(n) = {}
    BY <1>14 DEF SegsOf
  <2>3. UNION {{s} \X (1..seg[s].pages) : s \in {}} = {}
    OBVIOUS
  <2>4. PagesOf({}) = 0
    BY <1>2, <2>3 DEF PagesOf
  <2> QED BY <1>2, <1>14, <2>1, <2>2, <2>4 DEF SeqInv, CountsInv
<1>17. \A s \in Segs : AttachInv(s)
  BY <1>1, <1>6 DEF AttachInv
<1>18. (\A t \in Tasks : PinInv(t)) /\ (\A f \in Files : MapInv(f))
  BY <1>1, <1>5, <1>8, SMTT(30) DEF PinInv, MapInv
<1> QED BY <1>7, <1>8, <1>12, <1>14, <1>15, <1>16, <1>17, <1>18, IInvIs

\* Every step keeps the invariant.
LEMMA IInvStep == IInv /\ [Next]_vars => IInv'
<1> SUFFICES ASSUME IInv, [Next]_vars PROVE IInv'
  OBVIOUS
<1>1. NsInv'
  BY NsInvStep
<1>2. CASE UNCHANGED vars
  BY <1>1, <1>2, QuietSteps
<1>3. CASE Next
  BY <1>1, <1>3, QuietSteps, AttachSteps, TableSteps, NewSteps DEF Next
<1> QED BY <1>2, <1>3

\* The invariant holds in every state.
LEMMA Inductive == Spec => []IInv
  BY InitIInv, IInvStep, PTL DEF Spec

-----------------------------------------------------------------------------
(* The properties *)

\* Sequence numbers tell the segments of an index apart, for SEQ_MAX + 1 of
\* them.
LEMMA IdentityHolds == IInv => ShmIdentity
\* Two objects with the same sequence number are far apart.
<1>FarApart.
    ASSUME NEW M \in Nat \ {0}, NEW a \in Nat, NEW b \in Nat, a % M = b % M, a < b
    PROVE  b - a > M - 1
  <2> USE <1>FarApart
  <2>1. a = M * (a \div M) + (a % M) /\ (a \div M) \in Nat /\ a % M \in 0..M - 1
    BY DivModUnique
  <2>2. b = M * (b \div M) + (b % M) /\ (b \div M) \in Nat /\ b % M \in 0..M - 1
    BY DivModUnique
  <2> DEFINE x == a \div M
             y == b \div M
             r == a % M
  <2>3. a = M * x + r /\ b = M * y + r /\ x \in Nat /\ y \in Nat /\ r \in Nat
    BY <2>1, <2>2, SMTT(30)
  <2> HIDE DEF x, y, r
  <2>4. b - a = M * (y - x)
    BY <2>3, SMTT(30)
  <2>5. y - x > 0
    BY <2>3, <2>4, SMTT(30)
  <2> QED BY <2>3, <2>4, <2>5, SMTT(30)
<1> SUFFICES ASSUME IInv PROVE ShmIdentity
  OBVIOUS
<1>1. ASSUME NEW n \in Namespaces, NEW key \in Keys PROVE Cardinality(ipc_findkey(ids[n], seg, key)) <= 1
  <2> DEFINE F == ipc_findkey(ids[n], seg, key)
  <2>1. \A x, y \in F : x = y
    BY ShmAssumption DEF ipc_findkey, Visited, IInv, KeyInv
  <2> HIDE DEF F
  <2>2. CASE F = {}
    BY <2>2, FS_EmptySet, SMTT(30) DEF F
  <2>3. CASE F # {}
    <3>1. PICK x : F = {x}
      BY <2>1, <2>3, SMTT(30)
    <3>2. Cardinality(F) = 1
      BY <3>1, FS_Singleton
    <3> QED BY <3>2, SMTT(30) DEF F
  <2> QED BY <2>2, <2>3
<1>2. ASSUME NEW t \in Tasks, InShmat(t)
      PROVE  \/ seg[task[t].shp].made = task[t].meant
             \/ seg[task[t].shp].made - task[t].meant > SEQ_MAX
  <2> DEFINE n == task[t].ns
             i == ipcid_to_idx(task[t].shmid)
             a == task[t].meant - 1
             b == seg[task[t].shp].made - 1
  <2>1. /\ n \in Namespaces /\ PinInv(t) /\ MeantInv(t) /\ LocalsOK(task[t]) /\ SeqInv(task[t].ns)
    BY IInvIs, Alive DEF NsInv, CallInv
  <2>2. i \in DOMAIN ids[n].ipcs_idr /\ ids[n].ipcs_idr[i] = task[t].shp /\ seg[task[t].shp].id = task[t].shmid
    BY <1>2, <2>1 DEF PinInv, At, shm_lock
  <2>3. /\ task[t].meant \in 1..made[n] /\ task[t].shmid \div IPCMNI = (task[t].meant - 1) % (SEQ_MAX + 1)
        /\ seg[task[t].shp].made >= task[t].meant
    BY <1>2, <2>1, <2>2 DEF MeantInv, LocalsOK, InShmat
  <2>4. /\ seg[task[t].shp].made \in 1..made[n]
        /\ task[t].shmid \div IPCMNI = (seg[task[t].shp].made - 1) % (SEQ_MAX + 1)
    BY <2>1, <2>2 DEF SeqInv
  <2>5. made[n] \in Nat /\ SEQ_MAX \in Nat
    BY <2>1, TableFacts, ShmAssumption
  <2>6. a \in Nat /\ b \in Nat /\ SEQ_MAX + 1 \in Nat \ {0} /\ a % (SEQ_MAX + 1) = b % (SEQ_MAX + 1) /\ a <= b
    BY <2>3, <2>4, <2>5, SMTT(30)
  <2>7. a < b => b - a > (SEQ_MAX + 1) - 1
    BY <2>6, <1>FarApart
  <2> QED BY <2>3, <2>4, <2>5, <2>6, <2>7, SMTT(30)
<1> QED BY <1>1, <1>2 DEF ShmIdentity

\* The lookups of shm_open, shm_close and do_shmat's out_nattch find the segment
\* that was attached: nothing between do_shmat's shm_unlock and out_nattch, or
\* while a mapping exists, destroys it, reuses its index or frees its namespace.
THEOREM SegmentsPinned == Spec => []ShmPinned
  BY Inductive, PTL DEF IInv

\* nattch, in_use and shm_tot are exact in every state, a segment marked
\* SHM_DEST is still attached, and free_ipcs leaves nothing in a namespace.
THEOREM CountsExact == Spec => []ShmAccounting
  BY Inductive, PTL DEF IInv

\* A key finds at most one segment, and shmat attaches the segment its
\* identifier was returned for, unless SEQ_MAX + 1 were made since.
THEOREM IdentifiersHold == Spec => []ShmIdentity
  BY Inductive, IdentityHolds, PTL

\* The count of a namespace is the number of its users, and neither the
\* notifier chain nor the mqueue superblock reaches one that has none.
THEOREM NamespacesCounted == Spec => []NsReachable
<1>1. IInv => NsReachable
  BY DEF IInv, NsInv
<1> QED BY <1>1, Inductive, PTL
=============================================================================
