------------------------------- MODULE Tables -------------------------------
(***************************************************************************)
(* The routing tables, the hash tables, the skip lists and the trees, each *)
(* driven by threads that look up, iterate, add, delete, clear and move as *)
(* they like.                                                              *)
(***************************************************************************)
EXTENDS ListTables, TLC

CONSTANTS
  SL_MAX_LEVELS, HEAD,
  OneOwner,            \* TRUE: in skiplist.c, a key is inserted and deleted by one thread only
  Lowering,            \* TRUE: skiplist_balance_node() is asked for lower levels, too
  MaxSlSeq,            \* bound: sl_seq of skiplist_glock.c
  Groups,              \* the memory of existence groups: naturals
  MaxCalls             \* bound: calls of the functions of tree.c

ASSUME SkiplistAssumption ==
  SL_MAX_LEVELS \in Nat \ {0} /\ HEAD \notin Objects \union {NULL} /\ {OneOwner, Lowering} \subseteq BOOLEAN /\ MaxSlSeq \in Nat

\* Groups are no addresses of tree nodes.
ASSUME TreeAssumption == Groups \subseteq Nat \ 0 .. 6 /\ MaxCalls \in Nat

VARIABLES
  Readers, sl_next, sl_toplevel, sl_deleted, sl_lock, sl_seq, skey, iter, reg, ever, steady,
  node, node_lock, existence_switch, node_mem, node_waits, tree_reg, calls, present, tree_ever, tree_steady

Skip == INSTANCE Skiplist WITH Nodes <- Objects, Keys <- {k + 1 : k \in Keys}, MaxSeq <- MaxSlSeq
Tree == INSTANCE Tree WITH Lookers <- Readers, lock <- node_lock, mem <- node_mem, waits <- node_waits,
                           reg <- tree_reg, ever <- tree_ever, steady <- tree_steady

slvars == <<sl_next, sl_toplevel, sl_deleted, sl_lock, sl_seq, skey, iter, reg, ever, steady>>
treevars == <<node, node_lock, existence_switch, node_mem, node_waits, tree_reg, calls, present, tree_ever, tree_steady>>
allvars == <<vars, Readers, slvars, treevars>>

Skiplists == {"skiplist", "skiplist_glock"}

\* Programs without trees
NoTrees ==
  /\ node = NULL /\ node_lock = NULL /\ existence_switch = NULL /\ node_mem = NULL /\ node_waits = NULL
  /\ tree_reg = NULL /\ calls = NULL /\ present = NULL /\ tree_ever = NULL /\ tree_steady = NULL

Init ==
  /\ impl \in Routes \union Hashes \union Skiplists \union {"tree"}
  /\ EmptyTables
  /\ Skip!skiplist_init
  /\ IF impl = "tree" THEN Tree!Init ELSE NoTrees
  /\ Readers \in CASE impl \in Skiplists -> Skip!Roles [] impl = "tree" -> Tree!Roles [] OTHER -> {{}}

Aborted == \E t \in Threads : pc[t] = "aborted"

\* History: every answer that is right at some time of a lookup may be its answer.
Remember ==
  seen' = [t \in Threads |->
             IF pc'[t] = "idle" \/ (pc[t] = "idle" /\ pc'[t] \notin {"begin", "return"}) THEN {}
             ELSE IF pc[t] = "idle" THEN Answers(loc[t].key)'
             ELSE IF pc[t] \in {"begin", "load", "got", "acquire", "compare", "next", "found", "retry", "check", "lost"}
                  THEN seen[t] \union Answers(loc[t].key)'
             ELSE seen[t]]

Table ==
  /\ impl \in Routes \union Hashes /\ ~ Aborted
  /\ \E t \in Threads : SeqStep(t) \/ RefcntStep(t) \/ SeqlockStep(t) \/ RcuStep(t) \/ HashStep(t)
  /\ Remember
  /\ UNCHANGED <<Readers, slvars, treevars>>

List ==
  /\ impl \in Skiplists
  /\ Skip!Next
  /\ UNCHANGED <<impl, tableVars, lock, seq, refcnt, nesting, loc, seen, treevars>>

Trees ==
  /\ impl = "tree"
  /\ Tree!Next
  /\ UNCHANGED <<impl, tableVars, lock, seq, refcnt, nesting, loc, seen, mem, waits, slvars>>

\* abort() ends the program; the bounds end what threads do to a skip list.
Over ==
  /\ Aborted \/ (impl \in Skiplists /\ \A t \in Threads : pc[t] = "idle")
  /\ UNCHANGED allvars

Next == Table \/ List \/ Trees \/ Over

Spec == Init /\ [][Next]_allvars

\* The entries are interchangeable.
Symmetry == Permutations(Objects)

-----------------------------------------------------------------------------
\* An entry a reader is about to look into has not been given back: not within a read-side
\* critical section, under a lock, or while a reference is held; nor an element of a skip list or
\* a node of a tree to which a reader or an updater holds a pointer, nor the existence group that a
\* reader of a tree has found in a leaf and whose switch it is about to load.
UsedNotFreed ==
  /\ impl \in Skiplists => Skip!NothingFreedUsed
  /\ impl = "tree" => Tree!NothingFreedUsed
  /\ \A t \in Threads :
       /\ impl \in (Routes \union Hashes) \ {"route_refcnt", "route_seqlock"} =>
            /\ pc[t] \in {"compare", "found", "check"} /\ loc[t].cur # NULL => mem[loc[t].cur] # "free"
            /\ pc[t] = "load" /\ loc[t].from # NULL => mem[loc[t].from] # "free"
       /\ impl = "route_refcnt" /\ pc[t] \in {"compare", "next", "found"} => mem[loc[t].cur] # "free"

\* The answer of a lookup was the right one at some time between its call and its return: an
\* entry that was in the table for the key, or that there was none.  The sequence lock's retry
\* throws away every walk that went through freed memory.  Not of route_refcnt.c, which reads
\* the next pointer without a reference, nor of a walk that route_rcu.c's route_clear() has
\* led to its other list.  An iterator of a skip list passes over no element that was there all
\* the time, whatever is inserted and deleted around it, hint or no hint.  In a tree the answers
\* of insertions, deletions and moves are as right as those of lookups, also while the leaf is on
\* its way to or from the other tree.
LookupAnswers ==
  \A t \in Threads :
    pc[t] = "return" =>
      CASE impl \in Skiplists -> Skip!AnswerRight(t)
        [] impl = "tree" -> Tree!AnswerRight(t)
        [] impl = "route_refcnt" -> TRUE
        [] OTHER -> /\ loc[t].ret \in seen[t] \/ (impl = "route_rcu" /\ loc[t].tainted)
                    /\ loc[t].tainted => impl = "route_rcu"

\* When nothing is under way, what is allocated is what is linked: whoever was last to use an
\* entry that was deleted gave it back, and nobody gave back one that is linked; of a tree, the
\* existence groups of moves that succeeded or were backed out of are given back, too, and no leaf
\* refers to one.
NoLeak ==
  (\A t \in Threads : pc[t] = "idle") =>
    IF impl = "tree" THEN Tree!NothingLeft
    ELSE (\A o \in Objects : mem[o] \notin {"callback", "waiting"})
           => \A o \in Objects : (mem[o] = "free") <=> (o \notin IF impl \in Skiplists THEN Skip!Linked ELSE Linked)

\* The assertions of skiplist_fsck() hold whenever no update is under way, whatever updates of
\* neighbouring elements have overlapped: every level leads, in order, to elements of the lowest
\* level that are tall enough.  An element that skiplist_lookup_lock() has locked stays in the
\* list.  In skiplist.c for keys with one owner: see OneOwner.  The order that tree_fsck() asks of
\* a tree holds in every state, nothing that has been deleted can be reached, and a move always
\* finds both of its leaves again, as its TREE_BUG_ON() says.
StructureIntact ==
  /\ impl \in Skiplists => Skip!LockedIsThere /\ (Skip!NoUpdates => Skip!skiplist_fsck)
  /\ impl = "tree" => Tree!TreeIntact

\* tree_atomic_move() is atomic: at every moment a key that is being moved is in one of the two
\* trees, and not in both, to whoever looks at both at once; nothing but an insertion, a deletion
\* and the one store of existence_switch() changes where a key is, neither the leaf in the other
\* tree, nor taking away the old one, nor backing out, nor the next user of the group's memory.
MoveAtomic == [][impl = "tree" => Tree!MoveStep]_allvars
=============================================================================
