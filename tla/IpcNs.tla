------------------------------- MODULE IpcNs -------------------------------
(***************************************************************************)
(* IPC namespaces: reference counts, creation and teardown of              *)
(* ipc/namespace.c, the notifier chain of ipc/ipcns_notifier.c, and the    *)
(* mqueue superblock that reaches a namespace without a reference of its   *)
(* own.  The tasks, mappings and files that hold references are in         *)
(* SysvShm, which extends this module.                                     *)
(***************************************************************************)
EXTENDS IpcIds

CONSTANTS Namespaces, InitNs

VARIABLES
  ns,     \* per namespace: life, count, sb (the mqueue superblock's
          \* s_fs_info points to it) and mq (references held by mqueuefs)
  chain,  \* ipcns_chain: the registered namespaces
  walk    \* per notification in progress: namespaces still to be called.
          \* "mem" is ipc_memory_wq, a namespace is its creator or destroyer

nsVars == <<ns, chain, walk>>

Notifiers == Namespaces \cup {"mem"}

\* The lifetime of a namespace; "none" is memory not allocated.
Lives == {"none", "new", "live", "dying", "unregistered", "exited"}

\* users: the processes, all in the initial namespace
NsInit(users) ==
  /\ ns = [n \in Namespaces |->
             [life |-> IF n = InitNs THEN "live" ELSE "none",
              count |-> IF n = InitNs THEN 1 + users ELSE 0,   \* one is never put
              sb |-> n = InitNs, mq |-> 0]]
  /\ chain = {InitNs}
  /\ walk = [w \in Notifiers |-> {}]

get_ipc_ns(f, n) == [f EXCEPT ![n].count = @ + 1]

\* atomic_dec_and_lock with mq_lock, and mq_clear_sbinfo in the same section
put_ipc_ns(f, n) ==
  [f EXCEPT ![n].count = @ - 1,
            ![n].life = IF f[n].count = 1 THEN "dying" ELSE @,
            ![n].sb = IF f[n].count = 1 THEN FALSE ELSE @]

\* No notification is reading the chain: its rwsem can be had for writing.
ChainWritable == \A w \in Notifiers : walk[w] = {}

\* create_ipc_ns up to ipcns_notify(IPCNS_CREATED)
create_ipc_ns(n) ==
  /\ ns[n].life = "none"
  /\ ns' = [ns EXCEPT ![n] = [life |-> "new", count |-> 1, sb |-> TRUE, mq |-> 0]]
  /\ walk' = [walk EXCEPT ![n] = chain]
  /\ UNCHANGED chain

register_ipcns_notifier(n) ==
  /\ ns[n].life = "new" /\ ChainWritable
  /\ ns' = [ns EXCEPT ![n].life = "live"]
  /\ chain' = chain \cup {n}
  /\ UNCHANGED walk

\* mutant: the namespace leaves the chain without waiting for its readers
unregister_at_once(n) ==
  /\ ns[n].life = "dying"
  /\ ns' = [ns EXCEPT ![n].life = "unregistered"]
  /\ chain' = chain \ {n}
  /\ UNCHANGED walk

unregister_ipcns_notifier(n) ==
  /\ ns[n].life = "dying" /\ ChainWritable
  /\ ns' = [ns EXCEPT ![n].life = "unregistered"]
  /\ chain' = chain \ {n}
  /\ UNCHANGED walk

\* free_ipc_ns after the tables are gone: IPCNS_REMOVED, then kfree
NotifyRemoved(n) ==
  /\ ns[n].life = "exited" /\ walk[n] = {}
  /\ ns' = [ns EXCEPT ![n].life = "none"]
  /\ UNCHANGED <<chain, walk>>

\* ipc_memory_callback queues the work, ipc_memory_notifier notifies
ipc_memory_notifier ==
  /\ walk["mem"] = {}
  /\ walk' = [walk EXCEPT !["mem"] = chain]
  /\ UNCHANGED <<ns, chain>>

\* one call of ipcns_callback, for namespace n
ipcns_callback(w, n) ==
  /\ n \in walk[w]
  /\ walk' = [walk EXCEPT ![w] = @ \ {n}]
  /\ UNCHANGED <<ns, chain>>

\* an operation on an mqueuefs inode takes a reference through s_fs_info,
\* which is NULL once the namespace is going away
get_ns_from_inode(n) ==
  /\ ns[n].sb /\ ns[n].mq = 0
  /\ ns' = [get_ipc_ns(ns, n) EXCEPT ![n].mq = 1]
  /\ UNCHANGED <<chain, walk>>

mqueue_put_ns(n) ==
  /\ ns[n].mq = 1
  /\ ns' = put_ipc_ns([ns EXCEPT ![n].mq = 0], n)
  /\ UNCHANGED <<chain, walk>>
=============================================================================
