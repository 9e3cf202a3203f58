------------------------------- MODULE IpcIds -------------------------------
(***************************************************************************)
(* The identifier tables of ipc/util.c, as operators on one struct         *)
(* ipc_ids: ipcs_idr maps an index to the object stored there, in_use      *)
(* counts the objects and seq numbers the next one.  All of them run under *)
(* the table's rw_mutex; what reads the table without it is in the modules *)
(* that use this one.                                                      *)
(***************************************************************************)
EXTENDS Integers, FiniteSets, FiniteSetsExt, Functions

CONSTANTS IPCMNI,      \* entries of a table; SEQ_MULTIPLIER in identifiers
          SEQ_MAX,     \* ids->seq_max
          IPC_PRIVATE

ipc_init_ids == [ipcs_idr |-> <<>>, in_use |-> 0, seq |-> 0]

ipc_buildid(idx, seq) == IPCMNI * seq + idx

ipcid_to_idx(id) == id % IPCMNI

\* ipc_checkid: the sequence number in the identifier is the object's
ipc_checkid(perm, id) == id \div IPCMNI = perm.id \div IPCMNI

\* the lowest free index (lib/idr.c)
idr_get_new(idr) == Min(0..IPCMNI - 1 \ DOMAIN idr)

\* ... and the table with an object at that index
idr_set(idr, idx, ptr) ==
  [i \in DOMAIN idr \cup {idx} |-> IF i = idx THEN ptr ELSE idr[i]]

\* idr_find: the objects at the index of an identifier, at most one
idr_find(ids, id) ==
  {ids.ipcs_idr[i] : i \in {ipcid_to_idx(id)} \cap DOMAIN ids.ipcs_idr}

\* The indexes a loop visits that counts in_use objects from index 0 up.
Visited(ids) ==
  {i \in DOMAIN ids.ipcs_idr :
     Cardinality({j \in DOMAIN ids.ipcs_idr : j < i}) < ids.in_use}

ipc_findkey(ids, perm, key) ==
  {ids.ipcs_idr[i] : i \in {j \in Visited(ids) : perm[ids.ipcs_idr[j]].key = key}}

ipc_addid_ok(ids, size) == ids.in_use < (IF size > IPCMNI THEN IPCMNI ELSE size)

\* mutant: the sequence number is not advanced
ipc_addid_same_seq(ids, new) ==
  [ids EXCEPT !.ipcs_idr = idr_set(@, idr_get_new(@), new), !.in_use = @ + 1]

ipc_addid(ids, new) ==
  [ipcs_idr |-> idr_set(ids.ipcs_idr, idr_get_new(ids.ipcs_idr), new),
   in_use   |-> ids.in_use + 1,
   seq      |-> IF ids.seq + 1 > SEQ_MAX THEN 0 ELSE ids.seq + 1]

\* new->id of the object ipc_addid adds
NewId(ids) == ipc_buildid(idr_get_new(ids.ipcs_idr), ids.seq)

ipc_rmid(ids, id) ==
  [ids EXCEPT !.ipcs_idr = Restrict(@, DOMAIN @ \ {ipcid_to_idx(id)}), !.in_use = @ - 1]
=============================================================================
