-------------------------------- MODULE Maze --------------------------------
(***************************************************************************)
(* CodeSamples/SMPdesign/maze: a maze is created or read from a file, one  *)
(* cell may be walled in, and a solver of the four is let loose upon it.  First the maze   *)
(* of maze.h and what the solvers share, then a section for each solver.   *)
(*                                                                         *)
(* A cell is <<row, column>>.  A wall stands between two cells, in         *)
(* the code as one bit in each of them.  owner is the VISITED bit with the *)
(* thread in COOKIE, dist the distance of a visited cell from its thread's *)
(* starting point.                                                         *)
(***************************************************************************)
EXTENDS Integers, Sequences, FiniteSets, SequencesExt, FiniteSetsExt

CONSTANT
  Commands             \* bound: the programs and their options, records with the fields
                       \* solver, nthreads, nrows, ncols, start, end, wall_in, threadstart,
                       \* and generate or, when that is FALSE, input, the walls of the file

VARIABLES
  args,                \* the program that runs and its options; never changes
  phase,               \* "create", "created", "ready", "solve", "over"
  walls,               \* the pairs {a, b} of cells with a wall between
  segment,             \* while the maze is created: what is built, [at, prev, cur]
  owner, dist,
  visited,             \* per thread: the cells it visited; fg: of 0, the common list
  published,           \* fg: the indices of the common list that have been written
  next,                \* fg: mcsp->vi, the last index of the list taken
  done,                \* mcsp->done
  adj,                 \* adj[i][j]: where thread i met thread j: [m, t], their cell and its
  see_start, see_end,  \* the threads that know a way to the start, and to the end
  pc, loc,             \* per thread
  answer               \* [length, cells] of the solution

mazeVars == <<args, walls, segment>>
solveVars == <<owner, dist, visited, published, next, done, adj, see_start, see_end, loc>>
vars == <<mazeVars, solveVars, phase, pc, answer>>

solver == args.solver            \* "seq", "fg", "2seq", "part": what is linked to maze.c
nthreads == args.nthreads        \* the two contexts of maze_2seq.c count as threads
nrows == args.nrows
ncols == args.ncols

Cells == (0 .. nrows - 1) \X (0 .. ncols - 1)
Tids == 0 .. nthreads - 1
NoCell == <<-1, -1>>
Nobody == -1

\* --start and --end; that they are one is refused.
Start == args.start
Finish == args.end

-----------------------------------------------------------------------------
maze_cell_exists(c) == c \in Cells

\* The order in which neighbours are tried: along the row, then along the column
Neighbour(c, k) ==
  << <<c[1], c[2] - 1>>, <<c[1], c[2] + 1>>, <<c[1] - 1, c[2]>>, <<c[1] + 1, c[2]>> >>[k]

Neighbours(c) == {Neighbour(c, k) : k \in 1 .. 4} \intersect Cells

maze_cells_connected(a, b) == maze_cell_exists(b) /\ {a, b} \notin walls

\* maze_find_wallbit(): the walls to the neighbours of a cell, but for some
WallsAround(c, but) == {{c, n} : n \in Neighbours(c) \ but}

-----------------------------------------------------------------------------
\* References: cells joined by a way, and whether the end can be reached

\* Whatever is closed under the open ways that avoid c, and has Start
Closed(S, c) == Start \in S /\ \A b \in S : \A m \in Neighbours(b) \ {c} : {b, m} \notin walls => m \in S

\* From Start without going through c
ReachedWithout(c) == {m \in Cells : \A S \in SUBSET Cells : Closed(S, c) => m \in S}

Reached == ReachedWithout(NoCell)
Solvable == Finish \in Reached

\* In a maze without cycles, the cells on the one way from Start to Finish
OnTheWay == {Start, Finish} \union {c \in Cells \ {Start} : Finish \notin ReachedWithout(c)}

-----------------------------------------------------------------------------
\* Marking the solution.  A trail leads back from a cell, by cells of the same thread that
\* are one nearer; NoCell is the ABORT() of a trail that cannot be followed.

\* maze_fg.c does not tell its threads' cells apart.
maze_same_tids(a, b) == solver = "fg" \/ owner[a] = owner[b]

maze_is_prev_cell(a, b) ==
  maze_cells_connected(a, b) /\ maze_same_tids(a, b) /\ dist[a] - dist[b] = 1

\* Up, down, left, right
Prev(c) ==
  LET order == <<3, 4, 1, 2>>
      fits == {k \in 1 .. 4 : maze_is_prev_cell(c, Neighbour(c, order[k]))}
  IN  IF fits = {} THEN NoCell ELSE Neighbour(c, order[Min(fits)])

Aborted == [length |-> -1, cells |-> {}]

\* maze_mark_solution(): from e back to s
maze_mark_solution(s, e) ==
  LET trail[n \in 0 .. Cardinality(Cells)] ==
        IF n = 0 THEN e ELSE LET c == trail[n - 1] IN IF c \in {NoCell, s} THEN c ELSE Prev(c)
      cells == {trail[n] : n \in DOMAIN trail}
  IN  IF e = NoCell \/ NoCell \in cells \/ s \notin cells THEN Aborted
      ELSE [length |-> dist[e], cells |-> cells]

-----------------------------------------------------------------------------
Registers == [c |-> NoCell, n |-> NoCell, k |-> 1, vi |-> 0, path |-> FALSE, i |-> 0,
              need |-> FALSE, snap |-> {}, pairs |-> <<>>, step |-> 1, ret |-> "", back |-> ""]

NoMeeting == [m |-> NoCell, t |-> NoCell]

\* What maze_create() is at
Passage(prev, cur) == [at |-> "passage", prev |-> prev, cur |-> cur]
Boundary == [at |-> "boundary", prev |-> NoCell, cur |-> NoCell]
Finished == [at |-> "finished", prev |-> NoCell, cur |-> NoCell]

\* --generate: the first cell is visited
new_empty_maze ==
  /\ phase = "create"
  /\ walls = {}
  /\ segment = Passage(Start, Start)
  /\ owner = [c \in Cells |-> IF c = Start THEN 0 ELSE Nobody]

\* --input --clear
maze_binary_in ==
  /\ phase = "created"
  /\ walls = args.input
  /\ segment = Finished
  /\ owner = [c \in Cells |-> Nobody]

Init ==
  /\ args \in Commands
  /\ IF args.generate THEN new_empty_maze ELSE maze_binary_in
  /\ dist = [c \in Cells |-> 0]
  /\ visited = [t \in Tids |-> <<>>]
  /\ published = {}
  /\ next = -1
  /\ done = 0
  /\ adj = [i \in Tids |-> [j \in Tids |-> NoMeeting]]
  /\ see_start = {} /\ see_end = {}
  /\ pc = [t \in Tids |-> "idle"]
  /\ loc = [t \in Tids |-> Registers]
  /\ answer = [length |-> 0, cells |-> {}]

Goto(t, from, to) ==
  /\ pc[t] = from
  /\ pc' = [pc EXCEPT ![t] = to]

\* The first direction from k on that is open to c and does not lead to one of the cells "but";
\* 5: none.  Walls do not change any more.
NextOpen(c, k, but) ==
  Min({5} \union {i \in k .. 4 : maze_cells_connected(c, Neighbour(c, i)) /\ Neighbour(c, i) \notin but})

Visits(t) == {c \in Cells : owner[c] = t}

\* A thread's registers, at the first direction from c.  A thread's own cells stay its own, so
\* that they are passed over at once.
At(t, r, c) == [r EXCEPT !.c = c, !.k = NextOpen(c, 1, Visits(t))]

\* The threads begin, each at the cell given.
Begin(starts, where) ==
  /\ phase' = "solve"
  /\ owner' = [c \in Cells |-> IF \E t \in DOMAIN starts : starts[t] = c
                               THEN CHOOSE t \in DOMAIN starts : starts[t] = c ELSE Nobody]
  /\ dist' = [c \in Cells |-> IF \E t \in DOMAIN starts : starts[t] = c THEN 1 ELSE 0]
  /\ visited' = [t \in Tids |-> IF t \in DOMAIN starts THEN <<starts[t]>> ELSE <<>>]
  /\ published' = {0}
  /\ see_start' = {0} /\ see_end' = {1}
  /\ pc' = where
  /\ loc' = [t \in Tids |-> IF t \in DOMAIN starts THEN At(t, Registers, starts[t]) ELSE Registers]

\* On to the next direction
NextDirection(t) == loc' = [loc EXCEPT ![t].k = NextOpen(loc[t].c, @ + 1, Visits(t))]

\* All threads have returned: the answer
Answer(a) ==
  /\ phase = "solve" /\ phase' = "over"
  /\ \A t \in Tids : pc[t] = "exit"
  /\ answer' = a
  /\ UNCHANGED <<mazeVars, solveVars, pc>>

-----------------------------------------------------------------------------
(***************************************************************************)
(* CodeSamples/SMPdesign/maze/maze.c: a maze is made of passages.  Each    *)
(* cell of a passage is walled in but for the cells before and after it;   *)
(* then a wall between a visited cell and one that is not is removed, and  *)
(* the next passage begins there.  What the weights make more or less      *)
(* probable is a choice; distances, which creation records and forgets,    *)
(* are left out.                                                           *)
(***************************************************************************)

Visited(c) == ~ maze_cell_exists(c) \/ owner[c] # Nobody

\* maze_try_visit_cell() of a cell would succeed
CanVisit(from, c) == maze_cells_connected(from, c) /\ ~ Visited(c)

\* maze_find_any_next_cell(): the first that can be visited
AnyNext(c) ==
  LET free == {k \in 1 .. 4 : CanVisit(c, Neighbour(c, k))}
  IN  IF free = {} THEN NoCell ELSE Neighbour(c, Min(free))

\* Straight on; else wherever there is room
StraightOn(prev, cur) ==
  LET ahead == <<2 * cur[1] - prev[1], 2 * cur[2] - prev[2]>>
  IN  IF CanVisit(cur, ahead) THEN ahead ELSE AnyNext(cur)

\* The perpendicular vector is always flipped: pmrandom() is 1 or -1, and either is true.
Turn(prev, cur) ==
  LET dr == cur[2] - prev[2]
      dc == prev[1] - cur[1]
      one == <<cur[1] + dr, cur[2] + dc>>
      other == <<cur[1] - dr, cur[2] - dc>>
  IN  CASE CanVisit(cur, one) -> one
        [] CanVisit(cur, other) -> other
        [] OTHER -> StraightOn(prev, cur)

\* The cells that maze_choose_next_cell() may come to; NoCell: stuck
maze_choose_next_cell(prev, cur) == {StraightOn(prev, cur), Turn(prev, cur)}

Unaffected == UNCHANGED <<args, phase, dist, visited, published, next, done, adj,
                          see_start, see_end, pc, loc, answer>>

\* Mutant: no wall towards a cell that is not visited yet.
WallsToVisitedOnly(prev, cur, n) ==
  /\ owner' = [owner EXCEPT ![n] = 0]
  /\ walls' = walls \union WallsAround(cur, {prev, n} \union {c \in Cells : owner[c] = Nobody})
  /\ segment' = Passage(cur, n)
  /\ Unaffected

\* MAZE_CONTINUE_SEGMENT: on to n, and walls on the other sides of cur.
maze_build_cell_walls(prev, cur, n) ==
  /\ owner' = [owner EXCEPT ![n] = 0]
  /\ walls' = walls \union WallsAround(cur, {prev, n})
  /\ segment' = Passage(cur, n)
  /\ Unaffected

\* "If starting, pick an initial direction."
FirstDirection ==
  /\ phase = "create" /\ segment.at = "passage" /\ segment.prev = segment.cur
  /\ AnyNext(segment.cur) # NoCell
  /\ maze_build_cell_walls(segment.prev, segment.cur, AnyNext(segment.cur))

\* A passage is extended, ended, or stuck.
maze_construct_segment ==
  /\ phase = "create" /\ segment.at = "passage" /\ segment.prev # segment.cur
  /\ \/ \E n \in maze_choose_next_cell(segment.prev, segment.cur) \ {NoCell} :
          maze_build_cell_walls(segment.prev, segment.cur, n)
     \/ /\ walls' = walls \union WallsAround(segment.cur, {segment.prev})
        /\ segment' = Boundary
        /\ UNCHANGED owner /\ Unaffected
     \/ /\ NoCell \in maze_choose_next_cell(segment.prev, segment.cur)
        /\ segment' = Boundary
        /\ UNCHANGED <<walls, owner>> /\ Unaffected

maze_remove_wall(a, b) == walls' = walls \ {{a, b}}

\* Any visited cell with a neighbour that is not
maze_find_boundary ==
  /\ phase = "create" /\ segment.at = "boundary"
  /\ \E p \in Cells : \E c \in Neighbours(p) :
       /\ Visited(p) /\ ~ Visited(c)
       /\ maze_remove_wall(p, c)
       /\ owner' = [owner EXCEPT ![c] = 0]
       /\ segment' = Passage(p, c)
  /\ Unaffected

AllVisited == \A c \in Cells : Visited(c)

maze_unvisit_all == owner' = [c \in Cells |-> Nobody]

Elsewhere == UNCHANGED <<args, dist, visited, published, next, done, adj, see_start,
                         see_end, pc, loc, answer>>

\* Passage after passage, until there is no boundary
maze_create ==
  /\ phase = "create" /\ segment.at = "boundary" /\ AllVisited
  /\ phase' = "created"
  /\ maze_unvisit_all
  /\ segment' = Finished
  /\ UNCHANGED walls /\ Elsewhere

maze_wall_in(c) == walls' = walls \union WallsAround(c, {})

\* --wall-in
main ==
  /\ phase = "created" /\ phase' = "ready"
  /\ IF args.wall_in THEN maze_wall_in(Finish) ELSE UNCHANGED walls
  /\ UNCHANGED <<owner, segment>> /\ Elsewhere

CreateStep == FirstDirection \/ maze_construct_segment \/ maze_find_boundary \/ maze_create \/ main

-----------------------------------------------------------------------------
(***************************************************************************)
(* CodeSamples/SMPdesign/maze: maze_seq.c, one thread that works from the  *)
(* start, and maze_2seq.c, one thread that works from the start and from   *)
(* the end in turn.  The two contexts of maze_2seq.c are "threads" 0 and 1 *)
(* here, and the one that runs is the one whose pc is not "off".           *)
(***************************************************************************)

SeqMine == solver \in {"seq", "2seq"}

\* maze_2seq.c switches context before the first pass: the end's side comes first.
seq_maze_solve ==
  /\ phase = "ready" /\ SeqMine
  /\ LET starts == IF solver = "seq" THEN [t \in {0} |-> Start]
                   ELSE [t \in {0, 1} |-> IF t = 0 THEN Start ELSE Finish]
     IN  Begin(starts, [t \in Tids |-> IF t = nthreads - 1 THEN "try" ELSE "off"])
  /\ UNCHANGED <<mazeVars, next, done, adj, answer>>

\* record_encounter()
seq_record_encounter(t, other, target) ==
  /\ adj' = [adj EXCEPT ![t][other] = [m |-> loc[t].c, t |-> target]]
  /\ done' = 1

\* A neighbour has been visited.
TryFails(t) ==
  LET target == Neighbour(loc[t].c, loc[t].k)
  IN  /\ loc[t].k <= 4 /\ pc[t] = "try"
      /\ owner[target] # Nobody
      /\ IF solver = "2seq" /\ owner[target] # t
         THEN seq_record_encounter(t, owner[target], target)
         ELSE UNCHANGED <<adj, done>>
      /\ NextDirection(t)
      /\ UNCHANGED <<mazeVars, phase, owner, dist, visited, published, next, see_start, see_end, pc, answer>>

\* maze_visit_cell()
seq_maze_try_visit_cell(t) ==
  LET target == Neighbour(loc[t].c, loc[t].k)
  IN  /\ Goto(t, "try", "found")
      /\ loc[t].k <= 4 /\ owner[target] = Nobody
      /\ owner' = [owner EXCEPT ![target] = t]
      /\ dist' = [dist EXCEPT ![target] = dist[loc[t].c] + 1]
      /\ visited' = [visited EXCEPT ![t] = Append(@, target)]
      /\ loc' = [loc EXCEPT ![t].n = target]
      /\ UNCHANGED <<mazeVars, phase, published, next, done, adj, see_start, see_end, answer>>

\* The path is extended, unless the end is found (maze_seq.c) or the sides have met.
SeqExtend(t) ==
  LET over == IF solver = "seq" THEN loc[t].n = Finish ELSE done = 1
  IN  /\ pc[t] = "found"
      /\ pc' = IF over THEN [i \in Tids |-> "exit"] ELSE [pc EXCEPT ![t] = "try"]
      /\ done' = IF solver = "seq" /\ over THEN 1 ELSE done
      /\ loc' = [loc EXCEPT ![t] = [At(t, @, loc[t].n) EXCEPT !.path = TRUE]]
      /\ UNCHANGED <<mazeVars, phase, owner, dist, visited, published, next, adj, see_start, see_end, answer>>

\* Nothing next to a cell of the list: on to the one after it, or there is no solution.
SeqNextVisited(t) ==
  LET vi == loc[t].vi + 1
      over == vi >= Len(visited[t]) \/ (solver = "2seq" /\ done = 1)
  IN  /\ loc[t].k = 5 /\ ~ loc[t].path /\ pc[t] = "try"
      /\ pc' = IF over THEN [i \in Tids |-> "exit"] ELSE pc
      /\ loc' = [loc EXCEPT ![t] = IF over THEN @ ELSE [At(t, @, visited[t][vi + 1]) EXCEPT !.vi = vi]]
      /\ UNCHANGED <<mazeVars, phase, owner, dist, visited, published, next, done, adj, see_start, see_end, answer>>

\* The path has ended: back to where it began.  maze_2seq.c turns to the other side.
seq_maze_solve_child(t) ==
  /\ loc[t].k = 5 /\ loc[t].path /\ pc[t] = "try"
  /\ loc' = [loc EXCEPT ![t] = [At(t, @, visited[t][loc[t].vi + 1]) EXCEPT !.path = FALSE]]
  /\ pc' = IF solver = "seq" THEN pc
           ELSE IF done = 1 THEN [i \in Tids |-> "exit"]
           ELSE [i \in Tids |-> IF i = t THEN "off" ELSE "try"]
  /\ UNCHANGED <<mazeVars, phase, owner, dist, visited, published, next, done, adj, see_start, see_end, answer>>

\* maze_solve_map_adj() and maze_solve_stitch_partitions(): both sides' ways to the meeting
seq_maze_solve_stitch_partitions ==
  LET met == IF adj[0][1] # NoMeeting THEN adj[0][1] ELSE [m |-> adj[1][0].t, t |-> adj[1][0].m]
      a == maze_mark_solution(Start, met.m)
      b == maze_mark_solution(Finish, met.t)
  IN  IF Aborted \in {a, b} THEN Aborted
      ELSE [length |-> a.length + b.length, cells |-> a.cells \union b.cells]

SeqSolved ==
  /\ SeqMine
  /\ Answer(CASE done = 0 -> [length |-> 0, cells |-> {}]
              [] solver = "seq" -> maze_mark_solution(Start, Finish)
              [] OTHER -> seq_maze_solve_stitch_partitions)

SeqThreadStep(t) ==
  /\ SeqMine /\ phase = "solve"
  /\ TryFails(t) \/ seq_maze_try_visit_cell(t) \/ SeqExtend(t) \/ SeqNextVisited(t) \/ seq_maze_solve_child(t)

SeqMainStep == seq_maze_solve \/ SeqSolved

-----------------------------------------------------------------------------
(***************************************************************************)
(* CodeSamples/SMPdesign/maze/maze_fg.c: the threads share one list of     *)
(* visited cells, visited[0], as a queue of work.  A thread takes the next *)
(* index, and waits for the cell to be there; when every thread waits for  *)
(* an index nobody will fill, the maze has no solution.  mp->vi is the     *)
(* last index given out, Len(visited[0]) - 1; next is mcsp->vi.  The maze  *)
(* is one that another program created (--input): maze_try_visit_cell()    *)
(* here numbers the list otherwise than maze_visit_cell(), so that         *)
(* maze_fg --generate reads entries nobody wrote.                          *)
(***************************************************************************)

FgMine == solver = "fg"

fg_maze_solve ==
  /\ phase = "ready" /\ FgMine
  /\ Begin([t \in {0} |-> Start], [t \in Tids |-> "take"])
  /\ UNCHANGED <<mazeVars, next, done, adj, answer>>

lastVi == Len(visited[0]) - 1

\* "__sync_add_and_fetch(&mcsp->vi, 1)"
TakeIndex(t) ==
  /\ Goto(t, "take", "limit")
  /\ next' = next + 1
  /\ loc' = [loc EXCEPT ![t].vi = next + 1, ![t].c = NoCell, ![t].n = NoCell]
  /\ UNCHANGED <<mazeVars, phase, owner, dist, visited, published, done, adj, see_start, see_end, answer>>

\* Mutant: one thread fewer is enough.
NoWorkLeftTooSoon(t) ==
  LET over == loc[t].vi >= lastVi + nthreads - 1
  IN  /\ Goto(t, "limit", IF over THEN "exit" ELSE "wait")
      /\ done' = IF over THEN -1 ELSE done
      /\ UNCHANGED <<mazeVars, phase, owner, dist, visited, published, next, adj, see_start, see_end, loc, answer>>

\* "If all the threads are waiting for another cell to be added ... no solution."
NoWorkLeft(t) ==
  LET over == loc[t].vi >= lastVi + nthreads
  IN  /\ Goto(t, "limit", IF over THEN "exit" ELSE "wait")
      /\ done' = IF over THEN -1 ELSE done
      /\ UNCHANGED <<mazeVars, phase, owner, dist, visited, published, next, adj, see_start, see_end, loc, answer>>

\* The cell is waited for, or that another thread is done.
TakeCell(t) ==
  /\ pc[t] = "wait"
  /\ \/ /\ done # 0
        /\ pc' = [pc EXCEPT ![t] = "exit"] /\ UNCHANGED loc
     \/ /\ loc[t].vi \in published /\ done = 0
        /\ pc' = [pc EXCEPT ![t] = "try"]
        /\ loc' = [loc EXCEPT ![t] = [@ EXCEPT !.c = visited[0][loc[t].vi + 1], !.path = FALSE]]
  /\ UNCHANGED <<mazeVars, phase, owner, dist, visited, published, next, done, adj, see_start, see_end, answer>>

\* The neighbours that are still free; one that is not stays so.
Free(t) == NextOpen(loc[t].c, 1, Cells \ Visits(Nobody))

\* The compare-and-swap, and the distance
fg_maze_try_visit_cell(t) ==
  LET target == Neighbour(loc[t].c, Free(t))
  IN  /\ Goto(t, "try", "index")
      /\ Free(t) # 5
      /\ owner' = [owner EXCEPT ![target] = t]
      /\ dist' = [dist EXCEPT ![target] = dist[loc[t].c] + 1]
      /\ loc' = [loc EXCEPT ![t].n = target]
      /\ UNCHANGED <<mazeVars, phase, visited, published, next, done, adj, see_start, see_end, answer>>

\* "__sync_add_and_fetch(&mp->vi, 1)": an index for the cell, which is not there yet
ClaimIndex(t) ==
  /\ Goto(t, "index", "publish")
  /\ visited' = [visited EXCEPT ![0] = Append(@, loc[t].n)]
  /\ loc' = [loc EXCEPT ![t].i = lastVi + 1]
  /\ UNCHANGED <<mazeVars, phase, owner, dist, published, next, done, adj, see_start, see_end, answer>>

Publish(t) ==
  /\ Goto(t, "publish", "found")
  /\ published' = published \union {loc[t].i}
  /\ UNCHANGED <<mazeVars, phase, owner, dist, visited, next, done, adj, see_start, see_end, loc, answer>>

\* "Did we find the solution?  If not, advance to the next cell and try again."
FgExtend(t) ==
  LET over == loc[t].n = Finish
  IN  /\ Goto(t, "found", IF over THEN "exit" ELSE "try")
      /\ done' = IF over THEN 1 ELSE done
      /\ loc' = [loc EXCEPT ![t] = [@ EXCEPT !.c = loc[t].n, !.path = TRUE]]
      /\ UNCHANGED <<mazeVars, phase, owner, dist, visited, published, next, adj, see_start, see_end, answer>>

\* The path has ended: back to where it began; nothing there: another index.
fg_maze_solve_child(t) ==
  /\ Goto(t, "try", IF loc[t].path THEN "try" ELSE "take")
  /\ Free(t) = 5
  /\ loc' = [loc EXCEPT ![t] = IF loc[t].path
                               THEN [@ EXCEPT !.c = visited[0][loc[t].vi + 1], !.path = FALSE] ELSE @]
  /\ UNCHANGED <<mazeVars, phase, owner, dist, visited, published, next, done, adj, see_start, see_end, answer>>

FgSolved ==
  /\ FgMine
  /\ Answer(IF done = 1 THEN maze_mark_solution(Start, Finish) ELSE [length |-> 0, cells |-> {}])

FgThreadStep(t) ==
  /\ FgMine /\ phase = "solve"
  /\ \/ TakeIndex(t) \/ NoWorkLeft(t) \/ TakeCell(t) \/ fg_maze_try_visit_cell(t)
     \/ ClaimIndex(t) \/ Publish(t) \/ FgExtend(t) \/ fg_maze_solve_child(t)

FgMainStep == fg_maze_solve \/ FgSolved

-----------------------------------------------------------------------------
(***************************************************************************)
(* CodeSamples/SMPdesign/maze/maze_part.c: each thread explores from a     *)
(* starting point of its own and lists the cells it visits.  When it runs  *)
(* into another thread's cell, both learn what the other knows: whether a  *)
(* way to the start, or to the end, is known.  A thread that has nothing   *)
(* left to explore passes that on until some thread sees both.  The ways   *)
(* of the threads between start and end are then put together.             *)
(***************************************************************************)

PartMine == solver = "part"

-----------------------------------------------------------------------------
\* Starting points.  A function from the threads still without one to the points wanted;
\* a point in use is not assigned.

maze_row_col_frac(rc, num, den) == ((rc - 1) * num + den - 1) \div den

Others == 2 .. nthreads - 1
Fits(limit) == Min({Cardinality(Others), limit})
RowFrac(i, n) == maze_row_col_frac(nrows, i, n + 1)
ColFrac(i, n) == maze_row_col_frac(ncols, i, n + 1)

maze_solve_start_antidiagonal ==
  [t \in Others |-> <<nrows - RowFrac(t - 1, Fits(ncols)), ColFrac(t - 1, Fits(ncols))>>]

\* What "--threadstart horizontal" selects: the option is tested for twice, "diagonal" is refused,
\* and maze_solve_start_horizontal() is never called.
maze_solve_start_diagonal ==
  [t \in Others |-> <<RowFrac(t - 1, Fits(ncols)), ColFrac(t - 1, Fits(ncols))>>]

maze_solve_start_vertical ==
  [t \in Others |-> <<RowFrac(t - 1, Fits(nrows)), maze_row_col_frac(ncols, 1, 2)>>]

\* In quarters of the maze
pos12359 == << <<0, 0>>, <<4, 4>>, <<2, 2>>, <<4, 0>>, <<0, 4>>, <<2, 1>>, <<3, 2>>, <<2, 3>>, <<1, 2>> >>
pos48 == << <<0, 0>>, <<4, 4>>, <<0, 4>>, <<4, 0>>, <<2, 1>>, <<3, 2>>, <<2, 3>>, <<1, 2>> >>
pos67 == << <<0, 0>>, <<4, 4>>, <<2, 1>>, <<3, 2>>, <<2, 3>>, <<1, 2>>, <<2, 2>> >>
pos == <<pos12359, pos12359, pos12359, pos48, pos12359, pos67, pos67, pos48, pos12359>>

maze_solve_start_spread ==
  LET n == Min({nthreads, 9})
  IN  [t \in Others \intersect 0 .. n - 1 |->
        <<maze_row_col_frac(nrows, pos[n][t + 1][1], 4), maze_row_col_frac(ncols, pos[n][t + 1][2], 4)>>]

\* "Die if the point lies outside of the maze."
Dies(wanted) == \E t \in DOMAIN wanted : ~ maze_cell_exists(wanted[t])

\* The first of the threads that want a point gets it.
maze_solve_start_assign(wanted, t) ==
  /\ wanted[t] \notin {Start, Finish}
  /\ \A u \in DOMAIN wanted : u < t => wanted[u] # wanted[t]

\* maze_solve_start_random(): any free point, for those that have none
Assigned(wanted) ==
  LET kept == {t \in DOMAIN wanted : maze_solve_start_assign(wanted, t)}
  IN  {f \in [Others -> Cells \ {Start, Finish}] :
         /\ \A t \in kept : f[t] = wanted[t]
         /\ \A t, u \in Others : t # u => f[t] # f[u]}

\* --threadstart
threadstartfunc ==
  CASE args.threadstart = "random"       -> <<>>
    [] args.threadstart = "antidiagonal" -> maze_solve_start_antidiagonal
    [] args.threadstart = "horizontal"   -> maze_solve_start_diagonal
    [] args.threadstart = "vertical"     -> maze_solve_start_vertical
    [] args.threadstart = "spread"       -> maze_solve_start_spread

maze_solve_start ==
  LET wanted == threadstartfunc
  IN  IF Dies(wanted)
      THEN phase' = "over" /\ answer' = Aborted /\ UNCHANGED <<solveVars, pc>>
      ELSE /\ \E f \in Assigned(wanted) :
                Begin([t \in Tids |-> CASE t = 0 -> Start [] t = 1 -> Finish [] OTHER -> f[t]],
                      [t \in Tids |-> "try"])
           /\ UNCHANGED <<next, done, adj, answer>>

\* maze_solve(): "nthreads >= mp->nrows * mp->ncols" is refused.
part_maze_solve ==
  /\ phase = "ready" /\ PartMine
  /\ nthreads < nrows * ncols
  /\ maze_solve_start
  /\ UNCHANGED mazeVars

-----------------------------------------------------------------------------
Target(t) == Neighbour(loc[t].c, loc[t].k)

\* Another's cell: the meeting is recorded, and what both know is to be passed on.
part_record_encounter(t) ==
  LET them == owner[Target(t)]
  IN  /\ loc[t].k <= 4
      /\ Goto(t, "try", "propagate")
      /\ them \notin {t, Nobody}
      /\ adj' = [adj EXCEPT ![t][them] = [m |-> loc[t].c, t |-> Target(t)]]
      /\ done' = IF nthreads = 2 THEN 1 ELSE done
      /\ loc' = [loc EXCEPT ![t].pairs = << <<t, them>>, <<them, t>> >>, ![t].step = 1, ![t].ret = "try",
                            ![t].k = NextOpen(loc[t].c, loc[t].k + 1, Visits(t))]
      /\ UNCHANGED <<mazeVars, phase, owner, dist, visited, published, next, see_start, see_end, answer>>

\* maze_solve_propagate() of the pairs in turn, each in four steps: the second gets to see the
\* start if the first does; the maze is solved if it then sees both; and so for the end.
\* A flag is never cleared, so that reading one and acting upon it is one step, and a flag that is
\* set already is not set again.  Once done is set nothing depends on the flags: the rest of the
\* propagation is one step.
maze_solve_propagate(t) ==
  LET a == loc[t].pairs[1][1]
      b == loc[t].pairs[1][2]
      know == IF loc[t].step <= 2 THEN see_start ELSE see_end
      knows == a \in know
      set == loc[t].step \in {1, 3} /\ b \notin know
  IN  /\ pc[t] = "propagate"
      /\ see_start' = IF knows /\ set /\ loc[t].step = 1 THEN see_start \union {b} ELSE see_start
      /\ see_end' = IF knows /\ set /\ loc[t].step = 3 THEN see_end \union {b} ELSE see_end
      /\ done' = IF knows /\ ~ set /\ b \in see_start \intersect see_end THEN 1 ELSE done
      /\ LET step == IF knows /\ set THEN loc[t].step + 1 ELSE IF loc[t].step <= 2 THEN 3 ELSE 5
             pairs == CASE done' = 1 -> <<>>
                        [] step = 5 -> Tail(loc[t].pairs)
                        [] OTHER -> loc[t].pairs
         IN  /\ loc' = [loc EXCEPT ![t].step = IF step = 5 \/ done' = 1 THEN 1 ELSE step, ![t].pairs = pairs,
                                   ![t].ret = IF pairs = <<>> THEN "" ELSE @]
             /\ pc' = IF pairs = <<>> THEN [pc EXCEPT ![t] = loc[t].ret] ELSE pc
      /\ UNCHANGED <<mazeVars, phase, owner, dist, visited, published, next, adj, answer>>

\* The compare-and-swap, the distance, and the thread's own list
part_maze_try_visit_cell(t) ==
  /\ Goto(t, "try", "found")
  /\ loc[t].k <= 4 /\ owner[Target(t)] = Nobody
  /\ owner' = [owner EXCEPT ![Target(t)] = t]
  /\ dist' = [dist EXCEPT ![Target(t)] = dist[loc[t].c] + 1]
  /\ visited' = [visited EXCEPT ![t] = Append(@, Target(t))]
  /\ loc' = [loc EXCEPT ![t].n = Target(t)]
  /\ done' = IF nthreads = 1 /\ Target(t) = Finish THEN 1 ELSE done
  /\ UNCHANGED <<mazeVars, phase, published, next, adj, see_start, see_end, answer>>

\* Where a thread goes that has stopped exploring: it "acts as passthrough" until done is set.
Stopped == IF nthreads > 2 /\ done = 0 THEN "snap_start" ELSE "exit"
Stop(t) == [Registers EXCEPT !.snap = loc[t].snap, !.back = Stopped]

PartExtend(t) ==
  /\ Goto(t, "found", IF done = 1 THEN Stopped ELSE "try")
  /\ loc' = [loc EXCEPT ![t] = IF done = 1 THEN Stop(t)
                               ELSE [At(t, @, loc[t].n) EXCEPT !.path = TRUE, !.n = NoCell]]
  /\ UNCHANGED <<mazeVars, phase, owner, dist, visited, published, next, done, adj, see_start, see_end, answer>>

PartNextVisited(t) ==
  LET vi == loc[t].vi + 1
      over == vi >= Len(visited[t]) \/ done = 1
  IN  /\ loc[t].k = 5 /\ ~ loc[t].path
      /\ Goto(t, "try", IF over THEN Stopped ELSE "try")
      /\ loc' = [loc EXCEPT ![t] = IF over THEN Stop(t)
                                   ELSE [At(t, @, visited[t][vi + 1]) EXCEPT !.vi = vi]]
      /\ UNCHANGED <<mazeVars, phase, owner, dist, visited, published, next, done, adj, see_start, see_end, answer>>

\* The path has ended: back to where it began, and the check whether all is done
part_maze_solve_child(t) ==
  /\ loc[t].k = 5 /\ loc[t].path
  /\ Goto(t, "try", IF nthreads > 2 THEN "snap_start" ELSE "check")
  /\ loc' = [loc EXCEPT ![t] = [At(t, @, visited[t][loc[t].vi + 1]) EXCEPT !.path = FALSE, !.back = "try"]]
  /\ UNCHANGED <<mazeVars, phase, owner, dist, visited, published, next, done, adj, see_start, see_end, answer>>

-----------------------------------------------------------------------------
\* maze_solve_child_done_check(): what has been learnt since is passed on to those met.
\* Threads 0 and 1 begin with the knowledge, and do not count it as new.  Once done is set nothing
\* depends on what is passed on: the thread goes on to where done is read.

SnapStart(t) ==
  /\ Goto(t, "snap_start", IF done = 1 THEN "check" ELSE "snap_end")
  /\ LET new == t # 0 /\ t \in see_start /\ "start" \notin loc[t].snap
     IN  loc' = [loc EXCEPT ![t].need = new, ![t].snap = IF new THEN @ \union {"start"} ELSE @]
  /\ UNCHANGED <<mazeVars, phase, owner, dist, visited, published, next, done, adj, see_start, see_end, answer>>

SnapEnd(t) ==
  /\ LET new == t # 1 /\ t \in see_end /\ "end" \notin loc[t].snap
     IN  /\ loc' = [loc EXCEPT ![t].need = FALSE, ![t].i = 0,
                               ![t].snap = IF new THEN @ \union {"end"} ELSE @]
         /\ Goto(t, "snap_end", IF done = 0 /\ (new \/ loc[t].need) THEN "tell" ELSE "check")
  /\ UNCHANGED <<mazeVars, phase, owner, dist, visited, published, next, done, adj, see_start, see_end, answer>>

Met(i, j) == adj[i][j] # NoMeeting

\* Mutant: what has been learnt is noted, but not passed on.
TellsNobody(t) ==
  /\ Goto(t, "tell", "check")
  /\ UNCHANGED <<mazeVars, phase, owner, dist, visited, published, next, done, adj, see_start, see_end, loc, answer>>

maze_solve_child_done_check(t) ==
  LET i == loc[t].i
      met == i # t /\ (Met(t, i) \/ Met(i, t))
  IN  /\ pc[t] = "tell"
      /\ \/ /\ i < nthreads /\ done = 0
            /\ loc' = [loc EXCEPT ![t].i = i + 1, ![t].step = 1, ![t].ret = "tell",
                                  ![t].pairs = IF met THEN << <<t, i>> >> ELSE <<>>]
            /\ pc' = [pc EXCEPT ![t] = IF met THEN "propagate" ELSE "tell"]
         \/ /\ i = nthreads \/ done = 1
            /\ pc' = [pc EXCEPT ![t] = "check"] /\ UNCHANGED loc
      /\ UNCHANGED <<mazeVars, phase, owner, dist, visited, published, next, done, adj, see_start, see_end, answer>>

\* done is read at the end; a thread that only passes on sleeps and checks again.
CheckDone(t) ==
  /\ Goto(t, "check", IF done = 1 THEN "exit" ELSE loc[t].back)
  /\ loc' = [loc EXCEPT ![t] = IF done = 1 THEN Stop(t) ELSE [@ EXCEPT !.i = 0]]
  /\ UNCHANGED <<mazeVars, phase, owner, dist, visited, published, next, done, adj, see_start, see_end, answer>>

-----------------------------------------------------------------------------
\* A meeting is recorded by the thread that made it; either may be asked for it.
maze_solve_map_adj(i, j) ==
  IF Met(i, j) THEN adj[i][j] ELSE [m |-> adj[j][i].t, t |-> adj[j][i].m]

\* The ways from thread 0 to thread 1 by threads that met
Routes ==
  {p \in {<<0>> \o m \o <<1>> : m \in UNION {[1 .. n -> Others] : n \in 0 .. Cardinality(Others)}} :
     /\ IsInjective(p)
     /\ \A i \in 1 .. Len(p) - 1 : maze_solve_map_adj(p[i], p[i + 1]) # NoMeeting}

Before(p, q) == \E i \in DOMAIN p \intersect DOMAIN q : p[i] < q[i] /\ \A j \in 1 .. i - 1 : p[j] = q[j]

\* The first in the order of the search; with two threads, they are taken to have met.
maze_solve_route_partitions ==
  IF nthreads = 2 THEN <<0, 1>>
  ELSE IF Routes = {} THEN <<>> ELSE CHOOSE p \in Routes : \A q \in Routes \ {p} : Before(p, q)

\* maze_mark_subsolution(): from both cells back to where the trails join, the farther first
maze_mark_advance_cell(c) == IF dist[c] = 1 THEN NoCell ELSE Prev(c)

maze_mark_subsolution(c1, c2) ==
  LET ends[n \in 0 .. Cardinality(Cells)] ==
        IF n = 0 THEN <<c1, c2>>
        ELSE LET e == ends[n - 1]
             IN  CASE e[1] = e[2] \/ NoCell \in {e[1], e[2]} -> e
                   [] dist[e[1]] > dist[e[2]] -> <<maze_mark_advance_cell(e[1]), e[2]>>
                   [] OTHER -> <<e[1], maze_mark_advance_cell(e[2])>>
      cells == UNION {{ends[n][1], ends[n][2]} : n \in DOMAIN ends}
      last == ends[Cardinality(Cells)]
  IN  IF c1 = NoCell \/ NoCell \in cells \/ last[1] # last[2] \/ owner[c1] # owner[c2] THEN Aborted
      ELSE [length |-> Cardinality(cells), cells |-> cells]

part_maze_solve_stitch_partitions(path) ==
  LET met(i) == maze_solve_map_adj(path[i], path[i + 1])
      piece == [i \in 1 .. Len(path) |->
                 CASE i = 1 -> maze_mark_solution(Start, met(1).m)
                   [] i = Len(path) -> maze_mark_solution(Finish, met(i - 1).t)
                   [] OTHER -> maze_mark_subsolution(met(i - 1).t, met(i).m)]
  IN  IF \E i \in DOMAIN piece : piece[i] = Aborted THEN Aborted
      ELSE [length |-> MapThenSumSet(LAMBDA i : piece[i].length, DOMAIN piece),
            cells |-> UNION {piece[i].cells : i \in DOMAIN piece}]

PartSolved ==
  /\ PartMine
  /\ Answer(CASE nthreads = 1 -> maze_mark_solution(Start, Finish)
              [] maze_solve_route_partitions = <<>> -> [length |-> 0, cells |-> {}]
              [] OTHER -> part_maze_solve_stitch_partitions(maze_solve_route_partitions))

PartThreadStep(t) ==
  /\ PartMine /\ phase = "solve"
  /\ \/ part_record_encounter(t) \/ maze_solve_propagate(t)
     \/ part_maze_try_visit_cell(t) \/ PartExtend(t) \/ PartNextVisited(t) \/ part_maze_solve_child(t)
     \/ SnapStart(t) \/ SnapEnd(t) \/ maze_solve_child_done_check(t) \/ CheckDone(t)

PartMainStep == part_maze_solve \/ PartSolved

-----------------------------------------------------------------------------
(*****************************************************************************)
(* The program linked with one of the solvers                                *)
(*****************************************************************************)

ThreadStep(t) == SeqThreadStep(t) \/ FgThreadStep(t) \/ PartThreadStep(t)
MainStep == CreateStep \/ SeqMainStep \/ FgMainStep \/ PartMainStep

\* main() has returned.
Over == phase = "over" /\ UNCHANGED vars

Next == MainStep \/ (\E t \in Tids : ThreadStep(t)) \/ Over

Spec == Init /\ [][Next]_vars

-----------------------------------------------------------------------------
Ways == {w \in {{c, n} : c \in Cells, n \in Cells} : (\E c \in w : \E n \in Neighbours(c) : w = {c, n}) /\ w \notin walls}

\* A created maze has exactly one way between any two cells: everything can be reached, by one
\* way less than there are cells.
MazeIsTree == phase = "created" /\ args.generate => Reached = Cells /\ Cardinality(Ways) = Cardinality(Cells) - 1

\* The solvers give the length and the cells of the one way from the start to the end, however
\* their threads share the work; with no such way they say so, but for maze_part.c: it aborts
\* then with one thread or two, and never returns with more.
AnswerRight ==
  phase = "over" =>
    IF Solvable THEN answer = [length |-> Cardinality(OnTheWay), cells |-> OnTheWay]
    ELSE IF solver = "part" THEN answer = Aborted ELSE answer.length = 0

NothingToPassOn(t) ==
  /\ pc[t] \in {"snap_start", "snap_end", "check", "exit"}
  /\ loc[t].back = "snap_start" /\ ~ loc[t].need
  /\ t # 0 /\ t \in see_start => "start" \in loc[t].snap
  /\ t # 1 /\ t \in see_end => "end" \in loc[t].snap

\* maze_part.c: a thread that has stopped exploring only passes on what it learns.  When all have
\* stopped and none has anything left to pass on, some thread must have seen both start and end,
\* or there is no solution: otherwise the threads would wait for each other for ever.
NobodyWaitsInVain ==
  phase = "solve" /\ solver = "part" /\ nthreads > 2 /\ done = 0 /\ (\A t \in Tids : NothingToPassOn(t))
    => ~ Solvable
=============================================================================
