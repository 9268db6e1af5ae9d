-------------------------------- MODULE Tree --------------------------------
(***************************************************************************)
(* The search trees with atomic move of CodeSamples/datastruct/Issaquah:   *)
(* tree.c, the existence groups of existence.c and the locks of            *)
(* spinlockmult.c.  Data is in the leaves; internal nodes stay for ever.   *)
(* Searches take no lock; what they find is locked and looked at again.    *)
(* A move marks the leaf outgoing, inserts an incoming one into the other  *)
(* tree, and switches both in one store to the group.                      *)
(*                                                                         *)
(* Lookups and maps are called in a read-side critical section, as the     *)
(* comments of tree.c ask; RCU is the one of liburcu.                      *)
(***************************************************************************)
EXTENDS Integers, Sequences, FiniteSets, TLC

CONSTANTS
  Threads,             \* naturals
  Groups,              \* the memory of existence groups
  NULL,
  MaxCalls             \* bound: calls

Trees == {0, 1}
TreeKeys == {1, 2}
INT_MIN == 0
INT_MAX == 3

\* struct treeroot: min before max.  The memory for other nodes is above; a node is its address.
min(tr) == -4 + 2 * tr
max(tr) == -3 + 2 * tr
Nodes == 1 .. 6

Roots == {min(tr) : tr \in Trees} \union {max(tr) : tr \in Trees}
AllNodes == Nodes \union Roots

VARIABLES
  Lookers,             \* the threads that look up and map; the others update
  node,                \* per node: key, lc, rc, deleted, data (is there any?), existence
  lock,                \* per node: the holder, or NULL
  existence_switch,    \* per group: its place in existence_array
  mem,                 \* per node and group: "free", "live", or "waiting" for a grace period
  waits,               \* per node and group that waits: the sections it waits for
  pc, reg,             \* per thread
  calls,               \* how many calls there have been
  present,             \* the keys in each tree
  ever, steady         \* per thread: the keys in its tree at some time, and at all times, of its call

treevars == <<node, lock, existence_switch>>
memvars == <<mem, waits>>
vars == <<Lookers, treevars, memvars, pc, reg, calls, present, ever, steady>>

init_treenode(k, d, e) == [key |-> k, lc |-> NULL, rc |-> NULL, deleted |-> FALSE, data |-> d, existence |-> e]

\* What freed memory holds is not modelled.
Blank == init_treenode(INT_MIN, FALSE, NULL)

\* The locals; sub is the function that the thread is in, ret what its call says of the key
Registers ==
  [op |-> "none", sub |-> "none", key |-> 0, tree |-> 0, par |-> NULL, cur |-> NULL, new |-> NULL,
   eg |-> NULL, ep |-> NULL, ret |-> "none", todo |-> <<>>]

\* tree_alloc(), of both trees
tree_alloc ==
  [n \in AllNodes |->
     IF n \in {max(tr) : tr \in Trees} THEN [init_treenode(INT_MAX, FALSE, NULL) EXCEPT !.lc = n - 1] ELSE Blank]

\* What insertions and deletions have made of a tree: its keys, and whether there is an internal
\* node, which once two keys were there never goes.
Shapes == {sh \in [keys : SUBSET TreeKeys, split : BOOLEAN] : sh.keys = TreeKeys => sh.split}

Grown(tr, sh) ==
  LET leaf(k) == 3 * tr + k
      internal == 3 * tr + 3
      At(k) == IF k \in sh.keys THEN leaf(k) ELSE NULL
      top == IF sh.split THEN internal ELSE IF sh.keys = {} THEN NULL ELSE leaf(CHOOSE k \in sh.keys : TRUE)
  IN  min(tr) :> [Blank EXCEPT !.rc = top]
      @@ [n \in {leaf(k) : k \in sh.keys} |-> init_treenode(n - 3 * tr, TRUE, NULL)]
      @@ [n \in IF sh.split THEN {internal} ELSE {} |-> [init_treenode(1, FALSE, NULL) EXCEPT !.lc = At(1), !.rc = At(2)]]

\* Bound: the other tree begins with one leaf.
OtherShape == [keys |-> {2}, split |-> FALSE]

\* Both threads update, or one of them looks.
Roles == {{}, {CHOOSE t \in Threads : \A u \in Threads : u <= t}}

Init ==
  /\ \E shape \in Shapes :
       LET grown == Grown(0, shape) @@ Grown(1, OtherShape)
       IN  /\ node = grown @@ tree_alloc
           /\ present = (0 :> shape.keys @@ 1 :> OtherShape.keys)
           /\ mem = [x \in Nodes \union Groups |-> IF x \in DOMAIN grown THEN "live" ELSE "free"]
  /\ lock = [n \in AllNodes |-> NULL]
  /\ existence_switch = [g \in Groups |-> 0]
  /\ waits = [x \in Nodes \union Groups |-> {}]
  /\ reg = [t \in Threads |-> Registers]
  /\ ever = [t \in Threads |-> {}]
  /\ steady = [t \in Threads |-> {}]
  /\ calls = 0

-----------------------------------------------------------------------------
Goto(t, from, to) ==
  /\ pc[t] = from
  /\ pc' = [pc EXCEPT ![t] = to]

Set(t, r) == reg' = [reg EXCEPT ![t] = r]

\* A section ends with each attempt of an update, and with the caller's for lookups.
LeaveSection(t) == waits' = [x \in DOMAIN waits |-> waits[x] \ {t}]

Inside(t) == pc[t] \notin {"idle", "switch", "return"} \/ (pc[t] = "return" /\ t \in Lookers)

\* call_rcu() by a thread whose own section does not matter
call_rcu(t, x) ==
  /\ mem' = [mem EXCEPT ![x] = "waiting"]
  /\ waits' = [y \in DOMAIN waits |-> IF y = x THEN {u \in Threads \ {t} : Inside(u)} ELSE waits[y] \ {t}]

\* tree_rcu_free_cb(), existence_free_rcu()
Callback(x) ==
  /\ mem[x] = "waiting" /\ waits[x] = {}
  /\ mem' = [mem EXCEPT ![x] = "free"]
  /\ node' = IF x \in Nodes THEN [node EXCEPT ![x] = Blank] ELSE node
  /\ UNCHANGED <<Lookers, lock, existence_switch, waits, pc, reg>>

\* What alloc_treenode_cache() returns: the lowest node that is free, if there is one
Free == {n \in Nodes : mem[n] = "free" /\ \A m \in Nodes : m < n => mem[m] # "free"}

\* tree_leaf_node(), tree_empty_node(): a node with data never gets children.
tree_leaf_node(n) == node[n].data
tree_empty_node(n) == node[n].lc = NULL /\ node[n].rc = NULL /\ ~ node[n].data

tree_existence_changing(n) == node[n].existence # NULL

\* A pointer to struct existence: a group and the offset in it
existence_get_outgoing(g) == <<g, 0>>

\* Mutant: existence_alloc() gives both the same offset.
SameOffset(g) == <<g, 0>>

existence_get_incoming(g) == <<g, 1>>

existence_array == <<1, 0, 0, 1>>

\* What is outgoing is there before the switch, what is incoming after it.
existence_exists(ep) == ep = NULL \/ existence_array[existence_switch[ep[1]] + ep[2] + 1] = 1

\* The child of a node on whose side a key is
Child(n, k) == IF k <= node[n].key THEN node[n].lc ELSE node[n].rc

\* A search from the top
Begin(r, sub, tr) == [r EXCEPT !.sub = sub, !.tree = tr, !.par = max(tr), !.cur = min(tr)]

\* goto retry
Retry(t) == pc' = [pc EXCEPT ![t] = "walk"] /\ Set(t, Begin(reg[t], reg[t].sub, reg[t].tree))

\* _tree_lookup(): one level down.  The child on the other side makes no difference.
_tree_lookup(t) ==
  LET child == Child(reg[t].cur, reg[t].key)
  IN  /\ pc[t] = "walk"
      /\ pc' = [pc EXCEPT ![t] = IF child = NULL THEN reg[t].sub ELSE "walk"]
      /\ Set(t, IF child = NULL THEN reg[t] ELSE [reg[t] EXCEPT !.par = reg[t].cur, !.cur = child])
      /\ UNCHANGED <<Lookers, treevars, memvars>>

Answer(b) == IF b THEN "found" ELSE "absent"

\* The result, for the caller to take
Returns(t, ret) ==
  /\ pc' = [pc EXCEPT ![t] = "return"]
  /\ Set(t, [Registers EXCEPT !.op = reg[t].op, !.key = reg[t].key, !.tree = reg[t].tree, !.ret = ret])

Return(t) ==
  /\ Goto(t, "return", "idle")
  /\ Set(t, Registers)
  /\ LeaveSection(t)
  /\ UNCHANGED <<Lookers, treevars, mem>>

-----------------------------------------------------------------------------
\* Lookups and maps

tree_lookup(t) ==
  LET n == reg[t].cur
      found == tree_leaf_node(n) /\ node[n].key = reg[t].key
  IN  /\ pc[t] = "lookup" /\ lock[n] = NULL
      /\ IF node[n].deleted \/ (found /\ tree_existence_changing(n)) THEN Retry(t) ELSE Returns(t, Answer(found))
      /\ UNCHANGED <<Lookers, treevars, memvars>>

tree_lookup_relaxed(t) ==
  LET n == reg[t].cur
  IN  /\ pc[t] = "relaxed"
      /\ IF tree_leaf_node(n) /\ node[n].key = reg[t].key /\ ~ node[n].deleted
           THEN pc' = [pc EXCEPT ![t] = "existence"] /\ UNCHANGED reg
           ELSE Returns(t, "absent")
      /\ UNCHANGED <<Lookers, treevars, memvars>>

\* existence_exists(): the pointer to the group
LoadExistence(t) ==
  /\ Goto(t, "existence", "exists")
  /\ Set(t, [reg[t] EXCEPT !.ep = node[reg[t].cur].existence])
  /\ UNCHANGED <<Lookers, treevars, memvars>>

\* A leaf has been looked at; calling the function or not changes nothing here.
Visited(t) == pc' = [pc EXCEPT ![t] = "map"] /\ Set(t, [reg[t] EXCEPT !.cur = NULL, !.ep = NULL])

\* _existence_exists(): its switch
LoadSwitch(t) ==
  /\ pc[t] = "exists"
  /\ IF reg[t].op = "map_relaxed" THEN Visited(t) ELSE Returns(t, Answer(existence_exists(reg[t].ep)))
  /\ UNCHANGED <<Lookers, treevars, memvars>>

\* tree_map_node(): the next child to be loaded is the first of todo.
tree_map_node(t) ==
  LET r == reg[t]
      next == Head(r.todo)
      child == IF next[2] = "lc" THEN node[next[1]].lc ELSE node[next[1]].rc
      leaf == child # NULL /\ tree_leaf_node(child)
      below == IF child = NULL \/ leaf THEN <<>> ELSE <<<<child, "lc">>, <<child, "rc">>>>
  IN  /\ pc[t] = "map"
      /\ IF r.todo = <<>> THEN Returns(t, "none")
         ELSE /\ pc' = [pc EXCEPT ![t] = IF leaf THEN "leaf" ELSE "map"]
              /\ Set(t, [r EXCEPT !.todo = below \o Tail(r.todo), !.cur = IF leaf THEN child ELSE NULL])
      /\ UNCHANGED <<Lookers, treevars, memvars>>

\* ... and a leaf, which tree_map() locks
MapLeaf(t) ==
  LET n == reg[t].cur
  IN  /\ pc[t] = "leaf"
      /\ \/ reg[t].op = "map" /\ lock[n] = NULL /\ Visited(t)
         \/ reg[t].op = "map_relaxed" /\ node[n].deleted /\ Visited(t)
         \/ reg[t].op = "map_relaxed" /\ ~ node[n].deleted /\ pc' = [pc EXCEPT ![t] = "existence"] /\ UNCHANGED reg
      /\ UNCHANGED <<Lookers, treevars, memvars>>

-----------------------------------------------------------------------------
\* spin_lock_mult(): the lock with the lower address
Lower(t) == IF reg[t].par < reg[t].cur THEN reg[t].par ELSE reg[t].cur
Higher(t) == IF reg[t].par < reg[t].cur THEN reg[t].cur ELSE reg[t].par

spin_lock_mult(t) ==
  /\ pc[t] \in {"insert", "delete"}
  /\ lock[Lower(t)] = NULL
  /\ lock' = [lock EXCEPT ![Lower(t)] = t]
  /\ pc' = [pc EXCEPT ![t] = IF @ = "insert" THEN "insert2" ELSE "delete2"]
  /\ UNCHANGED <<Lookers, node, existence_switch, memvars, reg>>

spin_unlock_mult(t) == lock' = [n \in AllNodes |-> IF lock[n] = t THEN NULL ELSE lock[n]]

\* The search has been overtaken.
Stale(r) == node[r.par].deleted \/ node[r.cur].deleted \/ r.cur \notin {node[r.par].lc, node[r.par].rc}

tree_grew(r) == Child(r.cur, r.key) # NULL

WithChild(n, k, c) == IF k <= node[n].key THEN [node[n] EXCEPT !.lc = c] ELSE [node[n] EXCEPT !.rc = c]

\* new_internal_node()
new_internal_node(k, old, new) ==
  IF node[old].key <= k THEN [init_treenode(node[old].key, FALSE, NULL) EXCEPT !.lc = old, !.rc = new]
  ELSE [init_treenode(k, FALSE, NULL) EXCEPT !.lc = new, !.rc = old]

\* tree_insert_existence() is left: with its result a move goes on, or backs out.
Inserted(t) ==
  LET r == reg[t]
  IN  IF r.op = "move" THEN pc' = [pc EXCEPT ![t] = "switch"] /\ Set(t, [r EXCEPT !.new = NULL, !.par = NULL, !.cur = NULL])
      ELSE Returns(t, "none")

NotInserted(t, why) ==
  LET r == reg[t]
  IN  IF r.op = "move"
        THEN /\ pc' = [pc EXCEPT ![t] = "walk"]
             /\ Set(t, [Begin(r, "remove", 1 - r.tree) EXCEPT !.new = NULL, !.ep = existence_get_outgoing(r.eg)])
        ELSE Returns(t, IF why = "EEXIST" THEN "found" ELSE "none")

\* The leaf is linked where there is room, or shares the place of another one.
parent_insert(t, par) ==
  LET r == reg[t]
      old == Child(par, r.key)
  IN  \/ /\ old = NULL
         /\ node' = [node EXCEPT ![par] = WithChild(par, r.key, r.new)]
         /\ UNCHANGED mem
      \/ /\ old # NULL
         /\ \E newint \in Free :
              /\ node' = [node EXCEPT ![newint] = new_internal_node(r.key, old, r.new),
                                      ![par] = WithChild(par, r.key, newint)]
              /\ mem' = [mem EXCEPT ![newint] = "live"]

\* tree_insert_existence(), under both locks
tree_insert_existence(t) ==
  LET r == reg[t]
      leaf == tree_leaf_node(r.cur)
      same == leaf /\ node[r.cur].key = r.key
      wait == r.op = "insert"
      retry == Stale(r) \/ (same /\ wait /\ tree_existence_changing(r.cur)) \/ (~ leaf /\ tree_grew(r))
      par == IF leaf THEN r.par ELSE r.cur
      nomem == ~ same /\ Child(par, r.key) # NULL /\ Free = {}
  IN  /\ pc[t] = "insert2" /\ lock[Higher(t)] = NULL
      /\ spin_unlock_mult(t)
      /\ LeaveSection(t)
      /\ \/ retry /\ Retry(t) /\ UNCHANGED <<node, mem>>
         \/ ~ retry /\ ~ same /\ parent_insert(t, par) /\ Inserted(t)
         \/ /\ ~ retry /\ (same \/ nomem)
            /\ NotInserted(t, IF nomem THEN "ENOMEM" ELSE IF tree_existence_changing(r.cur) THEN "EBUSY" ELSE "EEXIST")
            /\ mem' = [mem EXCEPT ![r.new] = "free"]
            /\ node' = [node EXCEPT ![r.new] = Blank]
      /\ UNCHANGED <<Lookers, existence_switch>>

-----------------------------------------------------------------------------
\* tree_delete_existence(), under both locks, up to the store to the parent
tree_delete_existence(t) ==
  LET r == reg[t]
      match == IF r.op = "move" THEN existence_get_outgoing(r.eg) ELSE NULL
      empty == tree_empty_node(r.cur)
      other == node[r.cur].existence # match
      absent == ~ tree_leaf_node(r.cur) \/ node[r.cur].key # r.key
      retry == Stale(r) \/ (~ empty /\ other /\ match = NULL) \/ (~ empty /\ ~ other /\ absent /\ tree_grew(r))
  IN  /\ pc[t] = "delete2" /\ lock[Higher(t)] = NULL
      /\ \/ retry /\ Retry(t) /\ spin_unlock_mult(t) /\ LeaveSection(t) /\ UNCHANGED node
         \/ /\ ~ retry /\ (empty \/ other \/ absent)
            /\ IF r.op = "move" THEN pc' = [pc EXCEPT ![t] = "bug"] /\ UNCHANGED reg ELSE Returns(t, "absent")
            /\ spin_unlock_mult(t) /\ LeaveSection(t) /\ UNCHANGED node
         \/ /\ ~ retry /\ ~ (empty \/ other \/ absent)
            /\ node' = [node EXCEPT ![r.par] = WithChild(r.par, r.key, NULL)]
            /\ pc' = [pc EXCEPT ![t] = "unlinked"]
            /\ lock' = [lock EXCEPT ![r.par] = t, ![r.cur] = t]
            /\ UNCHANGED <<reg, waits>>
      /\ UNCHANGED <<Lookers, existence_switch, mem>>

\* ... and what follows it
MarkDeleted(t) ==
  LET r == reg[t]
  IN  /\ pc[t] = "unlinked"
      /\ node' = [node EXCEPT ![r.cur].deleted = TRUE]
      /\ call_rcu(t, r.cur)
      /\ spin_unlock_mult(t)
      /\ IF r.op = "move"
           THEN /\ pc' = [pc EXCEPT ![t] = "walk"]
                /\ Set(t, [Begin(r, "remove", 1 - r.tree) EXCEPT !.ep = existence_get_incoming(r.eg)])
           ELSE Returns(t, "none")
      /\ UNCHANGED <<Lookers, existence_switch>>

-----------------------------------------------------------------------------
\* tree_atomic_move()

\* existence_free(): the end of a move
EndMove(t, ret) ==
  /\ call_rcu(t, reg[t].eg)
  /\ Returns(t, ret)

\* tree_change_existence_find() has to search again.
FindAgain(t) ==
  /\ pc[t] \in {"add", "remove"} /\ lock[reg[t].cur] = NULL
  /\ node[reg[t].cur].deleted
  /\ Retry(t) /\ LeaveSection(t)
  /\ UNCHANGED <<Lookers, treevars, mem>>

Found(t) ==
  /\ lock[reg[t].cur] = NULL /\ ~ node[reg[t].cur].deleted
  /\ tree_leaf_node(reg[t].cur) /\ node[reg[t].cur].key = reg[t].key

\* tree_existence_add(), then the node for the other tree
tree_existence_add(t) ==
  LET r == reg[t]
      there == Found(t)
      busy == there /\ tree_existence_changing(r.cur)
  IN  /\ pc[t] = "add" /\ lock[r.cur] = NULL /\ ~ node[r.cur].deleted
      /\ \/ /\ ~ there \/ busy
            /\ EndMove(t, IF there THEN "none" ELSE "absent")
            /\ UNCHANGED node
         \/ /\ there /\ ~ busy /\ Free # {}
            /\ pc' = [pc EXCEPT ![t] = "walk"]
            /\ \E new \in Free :
                 /\ node' = [node EXCEPT ![r.cur].existence = existence_get_outgoing(r.eg),
                                         ![new] = init_treenode(r.key, TRUE, existence_get_incoming(r.eg))]
                 /\ mem' = [mem EXCEPT ![new] = "live"]
                 /\ Set(t, [Begin(r, "insert", 1 - r.tree) EXCEPT !.new = new])
            /\ LeaveSection(t)
         \/ /\ there /\ ~ busy /\ Free = {}
            /\ pc' = [pc EXCEPT ![t] = "walk"]
            /\ node' = [node EXCEPT ![r.cur].existence = existence_get_outgoing(r.eg)]
            /\ Set(t, [Begin(r, "remove", r.tree) EXCEPT !.ep = existence_get_outgoing(r.eg)])
            /\ LeaveSection(t) /\ UNCHANGED mem
      /\ UNCHANGED <<Lookers, lock, existence_switch>>

\* existence_switch(): the old leaf goes and the new one comes.
Switch(t) ==
  LET r == reg[t]
  IN  /\ Goto(t, "switch", "walk")
      /\ existence_switch' = [existence_switch EXCEPT ![r.eg] = 2]
      /\ Set(t, Begin(r, "delete", 1 - r.tree))
      /\ UNCHANGED <<Lookers, node, lock, memvars>>

\* tree_existence_remove(), of the new leaf, or of the old one when the move is backed out of;
\* "bug" stands for TREE_BUG_ON(ret1).
tree_existence_remove(t) ==
  LET r == reg[t]
      there == Found(t) /\ node[r.cur].existence = r.ep
  IN  /\ pc[t] = "remove" /\ lock[r.cur] = NULL /\ ~ node[r.cur].deleted
      /\ IF there THEN /\ node' = [node EXCEPT ![r.cur].existence = NULL]
                       /\ EndMove(t, "none")
         ELSE pc' = [pc EXCEPT ![t] = "bug"] /\ UNCHANGED <<node, reg, memvars>>
      /\ UNCHANGED <<Lookers, lock, existence_switch>>

-----------------------------------------------------------------------------
\* Calls

Maps == {"map", "map_relaxed"}

CallRead(t, o, k, tr) ==
  /\ t \in Lookers /\ pc[t] = "idle"
  /\ o \in Maps => k = 1
  /\ pc' = [pc EXCEPT ![t] = IF o \in Maps THEN "map" ELSE "walk"]
  /\ Set(t, IF o \in Maps THEN [Registers EXCEPT !.op = o, !.tree = tr, !.todo = <<<<max(tr), "lc">>, <<max(tr), "rc">>>>]
            ELSE Begin([Registers EXCEPT !.op = o, !.key = k], o, tr))
  /\ UNCHANGED <<Lookers, treevars, memvars>>

\* tree_insert(): alloc_treenode().  Calls that get no memory for what they begin with are left out.
CallInsert(t, k, tr) ==
  /\ t \notin Lookers /\ Goto(t, "idle", "walk")
  /\ \E new \in Free :
       /\ node' = [node EXCEPT ![new] = init_treenode(k, TRUE, NULL)]
       /\ mem' = [mem EXCEPT ![new] = "live"]
       /\ Set(t, [Begin([Registers EXCEPT !.op = "insert", !.key = k], "insert", tr) EXCEPT !.new = new])
  /\ UNCHANGED <<Lookers, lock, existence_switch, waits>>

CallDelete(t, k, tr) ==
  /\ t \notin Lookers /\ Goto(t, "idle", "walk")
  /\ Set(t, Begin([Registers EXCEPT !.op = "delete", !.key = k], "delete", tr))
  /\ UNCHANGED <<Lookers, treevars, memvars>>

\* tree_atomic_move(): existence_alloc()
CallMove(t, k, tr) ==
  /\ t \notin Lookers /\ Goto(t, "idle", "walk")
  /\ \E g \in Groups :
       /\ mem[g] = "free" /\ \A h \in Groups : h < g => mem[h] # "free"
       /\ mem' = [mem EXCEPT ![g] = "live"]
       /\ existence_switch' = [existence_switch EXCEPT ![g] = 0]
       /\ Set(t, Begin([Registers EXCEPT !.op = "move", !.key = k, !.eg = g], "add", tr))
  /\ UNCHANGED <<Lookers, node, lock, waits>>

\* Bound: the first call is about the first tree, and by the first thread if both update.
Call(t) ==
  \E k \in TreeKeys, tr \in Trees :
    /\ calls < MaxCalls /\ calls' = calls + 1
    /\ calls = 0 => tr = 0 /\ (Lookers = {} => t = 0)
    /\ \/ CallInsert(t, k, tr) \/ CallDelete(t, k, tr) \/ CallMove(t, k, tr)
       \/ \E o \in {"lookup", "relaxed"} \union Maps : CallRead(t, o, k, tr)

Step(t) ==
  \/ _tree_lookup(t) \/ Return(t)
  \/ tree_lookup(t) \/ tree_lookup_relaxed(t) \/ LoadExistence(t) \/ LoadSwitch(t) \/ tree_map_node(t) \/ MapLeaf(t)
  \/ spin_lock_mult(t) \/ tree_insert_existence(t) \/ tree_delete_existence(t) \/ MarkDeleted(t)
  \/ FindAgain(t) \/ tree_existence_add(t) \/ Switch(t) \/ tree_existence_remove(t)

-----------------------------------------------------------------------------
Children(S) == ({node[n].lc : n \in S} \union {node[n].rc : n \in S}) \ {NULL}

\* The nodes of a tree, for two keys: the internal node and the leaves, or one leaf
Below(tr) == LET top == Children({min(tr)}) IN top \union Children(top)

\* The keys that are in each tree
Present ==
  [tr \in Trees |->
     {node[n].key : n \in {m \in Below(tr) : node[m].data /\ existence_exists(node[m].existence)}}]

\* History: the keys in the trees, and those that have been in the tree of a call, at some time
\* and at all times
Remember ==
  LET Since(t, old) ==
        IF pc'[t] = "idle" THEN {}
        ELSE IF pc[t] = "idle" \/ reg'[t].tree # reg[t].tree THEN present'[reg'[t].tree]
        ELSE old
  IN  /\ present' = Present'
      /\ ever' = [t \in Threads |-> Since(t, ever[t] \union present'[reg[t].tree])]
      /\ steady' = [t \in Threads |-> Since(t, steady[t] \intersect present'[reg[t].tree])]

ThreadStep(t) == Step(t) /\ UNCHANGED calls /\ Remember

CallbackStep(x) == Callback(x) /\ UNCHANGED calls /\ Remember

Quiescent == \A t \in Threads : pc[t] = "idle"

\* The bound has been reached.
Over == calls = MaxCalls /\ Quiescent /\ UNCHANGED vars

Next ==
  \/ \E t \in Threads : (Call(t) /\ Remember) \/ ThreadStep(t)
  \/ \E x \in Nodes \union Groups : CallbackStep(x)
  \/ Over

-----------------------------------------------------------------------------
\* What a call says of its key was so at some time of it.
AnswerRight(t) ==
  pc[t] = "return" => /\ reg[t].ret = "found" => reg[t].key \in ever[t]
                      /\ reg[t].ret = "absent" => reg[t].key \notin steady[t]

\* What tree_fsck() asks of a node
tree_scan_dup_node(n) ==
  /\ node[n].lc # NULL => node[node[n].lc].key <= node[n].key
  /\ node[n].rc # NULL => node[node[n].rc].key > node[n].key

\* What a thread is at in a tree, and the group whose switch it is about to read
Used(t) == {reg[t].cur, reg[t].par} \union (IF reg[t].ep = NULL THEN {} ELSE {reg[t].ep[1]})

\* ... and the groups that leaves refer to
NothingFreedUsed ==
  /\ \A t \in Threads, x \in Nodes \union Groups : x \in Used(t) => mem[x] # "free"
  /\ \A n \in Nodes : mem[n] = "live" /\ tree_existence_changing(n) => mem[node[n].existence[1]] # "free"

Reached == Roots \union Below(0) \union Below(1)

\* What can be reached from a root is in order and has not been deleted, and a move finds both of
\* its leaves again.
TreeIntact ==
  /\ Children(Reached) \subseteq Reached
  /\ \A n \in Reached : tree_scan_dup_node(n) /\ ~ node[n].deleted
  /\ \A t \in Threads : pc[t] # "bug"

\* All memory is in a tree or free, and no leaf is left as changing.
NothingLeft ==
  /\ \A n \in Reached : ~ tree_existence_changing(n)
  /\ \A x \in Nodes \union Groups : mem[x] = "waiting" \/ (mem[x] = "live" <=> x \in Reached)

\* The trees that hold a key
Holders(k) == {tr \in Trees : k \in present[tr]}

\* A key changes places by an insertion, a deletion or the switch of a move, and by that from one
\* tree to the other at once.
MoveStep ==
  \A k \in TreeKeys :
    \/ Holders(k)' = Holders(k)
    \/ \E t \in Threads :
         LET r == reg[t]
         IN  /\ r.key = k
             /\ \/ r.op = "insert" /\ Holders(k)' = Holders(k) \union {r.tree}
                \/ r.op = "delete" /\ Holders(k)' = Holders(k) \ {r.tree}
                \/ r.op = "move" /\ Holders(k) = {1 - r.tree} /\ Holders(k)' = {r.tree}
=============================================================================
