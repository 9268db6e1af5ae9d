--------------------------- MODULE TortureDrivers ---------------------------
(***************************************************************************)
(* The programs of CodeSamples that start threads and judge the outcome:   *)
(* the test drivers, each over a structure that is right, and the maze     *)
(* solvers.  One behaviour is one run of one program.                      *)
(***************************************************************************)
EXTENDS TortureBase

\* The maze; its threads use pc and loc too.
VARIABLES
  args, phase, walls, segment, owner, dist, visited, published, next, done, adj,
  see_start, see_end, answer

mazevars ==
  <<args, phase, walls, segment, owner, dist, visited, published, next, done, adj,
    see_start, see_end, answer>>

S == INSTANCE DatastructTorture
D == INSTANCE DeferTorture
C == INSTANCE CounterTorture

-----------------------------------------------------------------------------
\* The maze commands: every start and end of a generated 2 x 2 maze, for each solver; and a maze
\* of 2 x 3 that is read from a file, where antidiagonal puts thread 2 below the start and thread
\* 3 to the right of it, below the end.  They may meet each other before either meets the thread
\* above it, so that what it then learns must be passed on.
Corners == {0, 1} \X {0, 1}
AnyTwo == {w \in Corners \X Corners : w[1] # w[2]}
Across == {<< <<0, 0>>, <<1, 1>> >>}

Square(solvers, threads, threadstarts, ways) ==
  {[solver |-> s, nthreads |-> n, threadstart |-> f, nrows |-> 2, ncols |-> 2, generate |-> TRUE,
    start |-> w[1], end |-> w[2], wall_in |-> b] :
     s \in solvers, n \in threads, f \in threadstarts, w \in ways, b \in BOOLEAN}

Detour ==
  {[solver |-> "part", nthreads |-> 4, threadstart |-> "antidiagonal", nrows |-> 2, ncols |-> 3,
    generate |-> FALSE, input |-> {{<<0, 1>>, <<0, 2>>}, {<<1, 0>>, <<1, 1>>}},
    start |-> <<0, 1>>, end |-> <<0, 2>>, wall_in |-> FALSE]}

MazeCommands ==
  Square({"seq"}, {1}, {"random"}, AnyTwo) \union Square({"2seq"}, {2}, {"random"}, AnyTwo)
  \union Square({"fg", "part"}, 1 .. 3, {"random"}, AnyTwo)
  \union Square({"part"}, {3}, {"antidiagonal", "horizontal", "vertical", "spread"}, Across)
  \union Detour

M == INSTANCE Maze WITH Commands <- MazeCommands

-----------------------------------------------------------------------------
NoMaze ==
  /\ args = <<>> /\ phase = "none" /\ walls = {} /\ segment = <<>> /\ owner = <<>> /\ dist = <<>>
  /\ visited = <<>> /\ published = {} /\ next = 0 /\ done = 0 /\ adj = <<>>
  /\ see_start = {} /\ see_end = {} /\ answer = <<>>

NoTest ==
  /\ driver = "maze" /\ goflag = "init" /\ nthreads_running = 0
  /\ store = {} /\ el = <<>> /\ cbs = {} /\ bug = {}

TestInit ==
  \/ S!HashInit \/ S!TreeInit \/ S!SkiplistInit \/ S!DequeInit \/ S!LogInit
  \/ D!RcuInit \/ D!HazptrInit \/ C!Init \/ D!RouteInit \/ D!SeqlockInit

Init == (TestInit /\ NoMaze) \/ (M!Init /\ NoTest)

\* What a driver only counts and prints
Counted ==
  {"n_mberror", "rcu_stress_count", "hazptr n_mberror", "hazptr_stress_count", "hogtest up", "hogtest down"}

\* BUG_ON(), abort() and exit() end the program.
Aborted == bug \ Counted # {}

Testing == driver # "maze" /\ ~ Aborted

ParentStep ==
  /\ Testing
  /\ \/ S!HashParentStep \/ S!TreeParentStep \/ S!SkiplistParentStep \/ S!DequeParentStep \/ S!LogParentStep
     \/ D!RcuParentStep \/ D!HazptrParentStep \/ C!ParentStep \/ D!RouteParentStep \/ D!SeqlockParentStep

ReaderStep(t) ==
  \/ S!HashReaderStep(t) \/ S!SkiplistReaderStep(t) \/ S!PopperStep(t) \/ S!LogReaderStep(t) \/ D!RcuReaderStep(t)
  \/ D!HazptrReaderStep(t) \/ C!ReaderStep(t) \/ D!RouteReaderStep(t) \/ D!SeqlockReaderStep(t)

UpdaterStep(t) ==
  \/ S!HashUpdaterStep(t) \/ S!TreeUpdaterStep(t) \/ S!SkiplistUpdaterStep(t) \/ S!PusherStep(t) \/ S!LogUpdaterStep(t)
  \/ D!RcuUpdaterStep(t) \/ D!HazptrUpdaterStep(t) \/ C!UpdaterStep(t) \/ D!RouteUpdaterStep(t) \/ D!SeqlockUpdaterStep(t)

ThreadStep(t) ==
  /\ Testing
  /\ (t \in Readers /\ ReaderStep(t)) \/ (t \in Updaters /\ UpdaterStep(t))

CallbackStep == Testing /\ (S!HashCallbackStep \/ S!TreeCallbackStep \/ S!SkiplistCallbackStep)

\* All is done.
Done == driver # "maze" /\ (Aborted \/ pc[Parent] = "done") /\ UNCHANGED vars

TestStep == ParentStep \/ (\E t \in Threads : ThreadStep(t)) \/ CallbackStep \/ Done

MazeStep == driver = "maze" /\ M!Next

Next ==
  \/ TestStep /\ UNCHANGED mazevars
  \/ MazeStep /\ UNCHANGED <<driver, goflag, nthreads_running, store, el, cbs, bug>>

\* The threads of a test are scheduled by the operating system; so is the thread that
\* invokes the callbacks.
Spec ==
  /\ Init /\ [][Next]_<<vars, mazevars>>
  /\ WF_vars(ParentStep /\ UNCHANGED mazevars) /\ WF_vars(CallbackStep /\ UNCHANGED mazevars)
  /\ \A t \in Threads : WF_vars(ThreadStep(t) /\ UNCHANGED mazevars)

-----------------------------------------------------------------------------
\* The alarms that a right structure can set off, because of the driver:
KnownAlarms ==
  { \* hashtorture.h:1183: an element is looked up by a name that is freed by then
    "zoo_updater",
    \* treetorture.h:1147: the callbacks invoked are compared with the attempts to allocate
    "tree_rcumalloc_child",
    \* skiplisttorture.h:603: the readers' warm-up is outside a critical section
    "stresstest_lookup in warm-up",
    \* skiplisttorture.h:543: a scan that ran while elements were replaced
    "stresstest_reader_scan",
    \* skiplisttorture.h:758: an updater leaves while another deletes its elements
    "stresstest_del", "defer_del_rcu",
    \* deqtorture.h and queuetorture.h stop the poppers after a sleep()
    "melee missing",
    \* hazptrtorture.h: the current element is retired as soon as it is published
    "hazptr n_mberror", "hazptr_stress_count" }

\* A test driver blames no structure that is right: no BUG_ON() or abort() of a driver is
\* reached, in whatever order its threads run, except those the driver itself can set off.
NoFalseAlarm == bug \subseteq KnownAlarms

\* When the parent of a hash table's test returns, the updaters have taken out what they put in,
\* and no callback of call_rcu() is due; nor is one when the tree's returns.  When the skiplist's
\* returns the list is empty; a callback may be due there, on an array that is freed:
\* skiplisttorture.h:758 waits for two grace periods and 100 ms in place of rcu_barrier().
DrainedAtReturn ==
  driver # "maze" /\ pc[Parent] = "done" =>
    /\ driver \in S!HashDrivers => store = S!Left /\ cbs = {}
    /\ driver \in S!TreeDrivers => cbs = {}
    /\ driver \in S!SkiplistDrivers => store = {}

\* A log never shows a record that is not written.
NoRecordBeforeItsTime == driver \in S!LogDrivers => S!AllPublished

\* Every test comes to its end, or to an alarm: no thread waits for a flag that nobody sets,
\* and the parent waits for no thread that has no reason to stop.
TestEnds == driver # "maze" => <>(Aborted \/ pc[Parent] = "done")

\* The maze that maze_create() builds has one way between any two cells.
MazeIsTree == M!MazeIsTree

\* The solvers of maze_seq.c, maze_2seq.c, maze_fg.c and maze_part.c agree on the one way from
\* the start to the end, and all but the last see that there is none.
AnswerRight == M!AnswerRight

\* maze_solve_child_done_check() of maze_part.c: threads that only pass on what they learn
\* wait for one another only where there is no way.
NobodyWaitsInVain == M!NobodyWaitsInVain
=============================================================================
