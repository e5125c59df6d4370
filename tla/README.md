# TLA+ models of parallel-clique-enumeration

This directory holds TLA+ models of the maximal-clique enumerator in `src/`. The enumerator runs Bron–Kerbosch with pivoting over a degeneracy (or degree) ordering, using TBB tasks. The models are checked with TLC.

## The system

| Part | Source | State | Operations |
|---|---|---|---|
| Enumeration engine | `src/src/BronKerboschTBB.cpp`, `src/src/BKTask.cpp`, `src/include/BKTask.h` | per task: `R_task`, `P_task`, `X_task`, `cand_task`, `graphg`, `NewGraph`, `taskSpawnCnt`, `taskLevel`, `parent`; the TBB task tree; the per-thread histograms `pt_hist` | `RootIterBKTask::SpawnTask`, `MainBKTask::execute`/`SpawnTask`/`StartTask`/`LoopIteration`/`SequentialRun`/`Continuation`, `BronKerboschDegeneracy` |
| GraphGuard | `BKTask.cpp`, `BKTask.h` | `graph`, `ref_count` under a spin_mutex | `inc_graph_ref_count`, `dec_graph_ref_count` (deletes graph and guard at ≤ 0 and NULLs the caller's pointer) |
| Graph | `src/src/Graph.cpp`, `src/include/Graph.h` | adjacency map, `vertexOrdering`, `backwardsMapping`, `pivot_node`, `maxdeg` | `initFromFile`, `addEdge`, `degeneracyOrdering`, `getPivot`, `createHpxSubgraph`, `writeCliqueHist` |
| Vertex sets | `SimpleHashSet.h`, `SimpleHashTable.h`, `UnrolledList.h/.cpp` | an unrolled list and, once hashed, an open-addressing table | `add_elem`, `del_elem`, `intersect`, `exclude`, `intersection_size`, `contains`, `hashSet` |
| Arena | `src/include/MemChunk.h` | `allocations`, the block list, `free_index` | `get_address`, `increment_allocations`, `decrement_allocations` |
| main, MemUsageLogger | `src/src/main.cpp`, `MemUsageLogger.h` | options, telemetry | option parsing (`-s` and `--max-clq` in `CommandLine`), sampling |

How the parts interact:

- `main` reads the graph and orders its vertices.
- `BronKerboschDegeneracy` wraps the input graph in a GraphGuard and spawns a `RootIterBKTask`. That task spawns one `MainBKTask` per vertex.
- A task's first `execute` builds its root P and X (root tasks only) and calls `StartTask`. StartTask counts a maximal clique when P and X are empty, or builds an induced subgraph according to `-s` and computes `cand = P \ N(pivot)`.
- Each later `execute` takes one candidate through `LoopIteration`. LoopIteration intersects P and X with the candidate's neighbours and moves the candidate from P to X. It then either recurses in place (`SequentialRun`, when `|P'|+|X'| < PX_threshold`) or returns a child task, which the TBB scheduler runs. The task is then recycled to re-execute.
- When `cand_task` is exhausted, the task frees its sets, gives back its subgraph reference and becomes a continuation. TBB runs the continuation once all its children have completed.

The hard parts:

- **Subgraph lifetime.** The four subgraph policies (`-s 0..3`) decide in different places who creates and who releases induced subgraphs. Tasks share them across threads through the reference count.
- **Shared P and X.** P and X are shared by the successive re-executions of one task.
- **Early cut-off.** `--max-clq` cuts the recursion early.
- **Shared arenas.** With `-o` each task carves its sets from its own `MemChunk`. When `--mem-thresh` exceeds `--thresh`, the P' and X' of a spawned child come from the parent's chunk, so the child releases them on another thread.

## Modules

- `MaxCliqueEnumeration.tla` is the abstract specification. From an empty bag it reports maximal cliques of (Vertex, Edge), each at most once. It may finish only once every maximal clique has been reported. `Spec` adds weak fairness, so the finish must happen.
- `BKEngine.tla` models the engine and the guards, with one action per task step:

| Action | Code |
|---|---|
| `Start(t)` | first `execute`: `SpawnTask` with `newTask`, `create_root_sets` for root tasks, `StartTask` at level 0 |
| `Iterate(t)` | one `LoopIteration` on the task's innermost frame, either from `cand_task->get_next()` or from the `for_each` of an active `SequentialRun`. The sequential branch runs SequentialRun's `StartTask` in the same step and pushes a frame. The spawn branch appends a child task |
| `SeqReturn(t)` | the end of a `SequentialRun`: `delete_set` ×3 and, under `-s 3`, the decrement |
| `Finish(t)` | `SpawnTask` once `cand_task` has ended: `delete_set` ×3, the release at lines 114/121, recycling as a continuation |
| `Continuation(t)` | `MainBKTask::Continuation`, enabled when every child of the task is done |
| `RunEnd` | `spawn_root_and_wait` returns and `delete gg` |

- A task's `stack` holds frames. Frame 1 is `R_task/P_task/X_task/cand_task`. Each further frame is one active `SequentialRun` (R, P, X, cand and its `gg`).
- `guards` is the sequence of GraphGuards created so far. Each has `rc` and `freed`; guard 1 wraps the input graph.
- `liveSets` counts SET_IMPL objects allocated and not yet passed to `delete_set`.
- `found` is the bag of cliques the histograms count.
- `faults` records a dereference of a freed or NULL guard (`use_after_free`), the final `delete gg` of an already deleted guard (`double_free`), or a failed `assert(pivot != -1)` (`no_pivot`). `PivotNode` is `graph->pivot_node`: the pivot `createHpxSubgraph` just computed, or −1 when this call built no subgraph, because only the input graph can then be in `gg`.
- `subgraphBased` and `max_clq_size` are the globals `main` sets. `Init` computes them with `CommandLine`'s operators from the options a run lets `main` be given (`SArgs`, `MaxClqArgs`).
- `StartTask` is an operator. It returns the set of possible outcomes, one per pivot the code can choose, and is used by `Start` and `Iterate`.
- `CommandLine.tla` models `main`'s handling of `-s` and `--max-clq`. An option is `<< >>` when absent or `<<v>>` when given with the integer v. `OptionValue` is `cmdOptionExists` plus `stoi(getCmdOption(...))`, with the global's initialiser as the default. `SubgraphBased` keeps out-of-range values, because the range check on line 83 is a comparison (`==`) whose result is dropped.
- `GraphLoad.tla` models `Graph::initFromFile` and `Graph::addEdge`. A file is a sequence of lines. Each line is a comment, a `Pair` or a `Triple` (its first integer tokens), or a `Short` line with fewer than two integers. Each line records whether a newline ends it; the text is abstracted away. `Extracted` is `ss >> first >> second`: an integer the line lacks leaves the local uninitialised, and its value is chosen from the constant `Uninit` (the runs use 0 and an id absent from the file).
  - `ReadLine` is one pass of the `while` loop (lines 124-140): skip a comment, take the first data line as a header when it has a third token other than −1, or call `addEdge`.
  - `AtEof` is getline reaching the end of the file. That happens when no line is left, and also on a last line without a newline, which the loop then drops.
  - `EndOfFile` is the break and lines 141-157. It sets `nodeNo` to `adjList.size()`, because `if(nodeNo = -1)` is an assignment. It also fills `vertexOrdering`/`backwardsMapping` in map order and hashes every list, seen as the set it becomes.
  - `AddEdge` creates missing lists, returns on a self-loop, and otherwise appends both ways and raises `maxdeg`.
  - `FileVertices`/`FileNeighbours` read the same file the way the spec's "Input file" paragraph does. They are the reference `LoadedGraphMatchesFile` compares against.
- `DegeneracyOrdering.tla` extends `GraphLoad` and models `Graph::degeneracyOrdering` on the graph the loader built. `Load` is a loader step. `StartOrdering` is lines 81-90: each vertex goes to the bucket of its degree, and the assertion there is recorded in `faults`. `Peel` is one iteration of the `curnode` loop (92-115): take a vertex of the lowest non-empty bucket, chosen by `\E` because `UnrolledList` order is not modelled; write it into `vertexOrdering`/`backwardsMapping`; move each neighbour still queued one bucket down; raise `degen`. `Return` is `degeneracy = degen`. The file is chosen in `Init` from `Files`, so one run covers every graph.
- `HpxSubgraph.tla` holds `Graph::createHpxSubgraph` as operators on a graph given by its neighbour sets. `NewGraph` is the `Graph(n)` constructor. `PStep` is one pass of the P loop: `P->intersect(adj(node))`, `setAdjacentNodes`, and the pivot scan with its strict `>`. `XStep` is one pass of the X loop, which also appends the X vertex to the list of each of its P neighbours (`AddBackEdges`). `CreateHpxSubgraph` folds both loops over P and X in their list order, and `HashedAdj` is the hashing at the end. `DegeneracyOrdering` extends it, so the operator runs on every loaded graph.
- `MemChunk.tla` models one task's `sets_chunk` under `-o`, shared with the children it spawns. `allocations++` and `allocations--` are each a load into a per-thread register followed by a store. The store that writes 0 runs `delete_dynamic_blocks`, after which every set still live is dangling. Each engine handler is an action that appends its whole sequence of micro-steps to the queue of the thread running it, in code order:
  - `StartTask`: increment and carve `cand`.
  - `LoopIteration`: read `cand`, then increment and carve P' and increment and carve X'. If `ChunkedSpawn` (`PX_threshold < mem_threshold`) holds, it spawns a child. Otherwise it runs `SequentialRun`, as a leaf or with one nested level.
  - `Finish`: `delete_set(cand)`.
  - `ChildRun(c)`: the child uses its P and X, may add a vertex to X' (a full list bucket carves a new one from the parent's chunk through `get_address`, `XBucket(c)`), and deletes both. It starts once the parent has finished carving that child's sets.
  - `Continuation`: runs once all children are done.

  The thresholds main read and the task's number of candidates form a `setup`, chosen once in `Init` from `Setups`. `Exec(t)` performs one micro-step of thread t, so micro-steps of the parent and its children interleave. `live` is the set of sets carved and not yet deleted, and `addr` the `<<block, line>>` each carve received. `dangling` is the set of sets whose blocks were freed under them.
- `VertexList.tla` is the abstract specification of the unsorted vertex set (spec "Vertex Set"). It is an insertion-ordered sequence of distinct ids. `Add` appends. `RemoveEl` of a present id moves the last id into its place, and of an absent id does nothing. `PopBack` drops the last id. `Copy` is the copy constructor, which leaves the set as it is. `Next1` is one call of the external iterator, and `call` records which operation was taken, so that a concrete remove cannot pass for an abstract pop_back.
- `UnrolledList.tla` models `UnrolledList`. `buckets` is the chain head..tail, each bucket a function from slots to ids. `offset`, `num_of_elems`, `iter` and `iter_offs` are the fields of the same names. `CopyList` is the copy constructor (`UnrolledList.h` 97-107, used by `new Clique(R, CLIQUE)` at `BronKerboschTBB.cpp:269`). It keeps `offset` and `num_of_elems`, resets the iterator, and copies every bucket and slot with `CopyBuckets` (`copy_list`).
  - A new bucket is filled with `INVAL_KEY`, and pop_back only moves `offset`, so slots past `offset` keep stale ids.
  - `PushBack`, `RemoveEl` and `PopBack` are the methods, with `FindElement` (scalar walk or AVX512 scan of every slot) and `PopBackState` as helpers. `GetNext` is one pass of SpawnTask's `get_next` / `end_iter` protocol on `cand_task` (BronKerboschTBB.cpp 104-117).
  - `ForEach` is `for_each`. `VL == INSTANCE VertexList WITH seq <- ForEach` is the refinement mapping.
  - `Intersect` and `Exclude` are `SimpleHashSet::intersect`/`exclude` as the scalar build has them: `for_each` filtered by `other->contains`. `AvxIntersectFrom` and `AvxIntersectionSizeFrom` are the AVX512 versions that the build compiles. They walk the buckets from the head, take every lane of a non-tail bucket (`END_MASK`) and lanes `0..offset` of the tail (`list_end_mask`), and keep the lanes `vector_lookup` finds. `other`'s membership is the constant `Other`; its hash table is `HopscotchTable`'s subject.
- `HopscotchTable.tla` models `SimpleHashTable` with `USE_HOPSCOTCH`, as `SimpleHashSet::hashSet` fills it from a list `input`.
  - `Init` is `reserve(size)`. For size 0, `2*cap-1` wraps, `__builtin_clz` gives 0, and the undefined `1 << 32` is taken as x86 computes it, 1 (`ClzWidth`, `ShiftOne`). `HashSetStep` inserts `elems.back()` and pops it; `HashSetEnd` sets `isHashed`.
  - The recursion of `hopscotchInsert` → `hopscotchTryInsert` → `hopscotchReconstruct` → `hopscotchInsert` is an explicit `stack` of frames: `ins` frames carry `cnt` and whether the next step is a try or the reconstruct of line 157; `rec` frames carry the old array and the loop index.
  - `TryInsert` is one call of `hopscotchTryInsert`: the probe, the displacement loop (`Displace`, recursive), and on failure the reserve of line 184 with a `rec` frame over the array as the moves left it. `RetryInsert` is the reconstruct of line 157 (or `exit(1)` after `nAttempts`). `Reconstruct` re-inserts the next id of the old array or returns.
  - `contains` gives the set of answers the build can give: the scalar loop, or the AVX512 loop whose 16-lane loads may read past `phys_capacity` (any value there). `VectorLookup` is one lane of `vector_lookup`.
- `MCBKEngine.tla` supplies the graphs and instantiates the abstract spec with the refinement mapping `reported <- found`, `finished <- ended`.

### Abstractions, and why they are sound

- **Vertex set sizes are scaled down.** `ELEMS_IN_BUCKET` is 2 instead of 16, and `HS_BUCKET_SIZE` 2 and `VECTOR_SIZE` 2 instead of 16. The control flow depends on these only through "last slot of a bucket", "end of the neighbourhood" and "end of a vector window", and each of those boundaries is crossed with 2.
- **The hash is W = 5 bits wide.** `hashFunction` is `((el*a + b) mod 2^W) >> (W - M)`, the code's 32-bit multiply-shift at width 5. `a` and `b` are drawn at every reserve from all values `rand_r` can give (a odd, b < 2^(W-M)), so every hash function the code can draw is covered. `MaxCapacity = 2^W`, where the hash becomes injective.
- **`USE_HOPSCOTCH` is always defined** (`utils.h`), so the linear-probing `insert` is compiled out and not modelled.

- **Vertex sets are TLA+ sets in `BKEngine`.** Their representations are checked separately by `UnrolledList` and `HopscotchTable`. The list order of SET_IMPL affects only which of several equally scored vertices `getPivot` returns and the order candidates are taken in. `GetPivot` and `SubgraphPivot` therefore return every vertex the code's scan could return: the code's strict `>` scan from `P->get_first()` (respectively from −1, P before X) gives the first maximum in X, else in P. The order of `cand` is left to `\E`.
- **Induced subgraphs are not built in `BKEngine`.** `createHpxSubgraph(P0, X0)` gives each P0 vertex the neighbours it has in P0 ∪ X0, and each X0 vertex the neighbours it has in P0. Every later query on the subgraph asks `S ∩ adj(v)` or `|P ∩ adj(v)|`, where P ⊆ P0 and S ⊆ P0 ∪ X0, and where v is in P0 whenever S may contain X0 vertices. Each such answer equals the one computed with the input graph, so adjacency is always taken from `Edge`. `SubgraphAnswersAsInput` checks the two facts this rests on against the code's loops (`HpxSubgraph`), and checks that the pivot is one `SubgraphPivot` allows. It covers every graph over five vertices and every disjoint P0, X0. What the model keeps of a subgraph is its guard: who creates it, who takes and gives back references, and when it is deleted.
- **Only the pivot choice is taken from the subgraph.** `pivot_node` is computed by `createHpxSubgraph` and is used at level 0 of a task that built its subgraph, or always under `-s 3`. `SubgraphPivot` models that rule.
- **Arena addresses are `<<block, line>>` pairs.** Every carve takes one cache line (`BlockLines` lines per block), so an address is the block count and the `free_index` the carve read. `get_address` is three micro-steps: the room check of line 32 (a new block resets `free_index`), the load of `free_index` into a register with the address it yields (line 41), and the store of the register plus one (line 42). Sizes beyond one line would only move the point where a block fills.
- **Bucket order is not modelled.** In `DegeneracyOrdering` the vertex taken from the lowest bucket is any member, which covers every order `UnrolledList` can have.
- **TBB.** A task runs its steps in program order. Steps of different tasks interleave arbitrarily, which covers any assignment of tasks to worker threads. A task in `cont` may run `Continuation` only when all children it allocated are `done`, which is what the ref_count set at line 95 and incremented per child guarantees.

## Runs

| Run | Graph, options | Checks | Result |
|---|---|---|---|
| `engine_k4` (`MCBKEngine_K4.cfg`) | K4, degeneracy order, PX_threshold 2, `-s` ∈ {0,1,2,3} | TypeOK, MemorySafety, NoLeakAtEnd, EnumeratesMaxCliques | pass, about 78k states |
| `engine_bowtie` (`MCBKEngine_Bowtie.cfg`) | two triangles sharing vertex 0, inverse-degree order, PX_threshold 2, all `-s` | MemorySafety, NoLeakAtEnd, EnumerationSafety | pass, about 212k states |
| `engine_root_task_options` (`MCBKEngine_RootOptions.cfg`) | bowtie, PX_threshold 1; `-s` 1, −1 or 5, `--max-clq` 1 or absent | MemorySafety | violation (findings 1 and 9) |
| `engine_maxclq_leak` | K4, `--max-clq 2` | NoLeakAtEnd | violation (finding) |
| `degeneracy_all_graphs_5` (`MCDegeneracyOrdering.cfg`) | a file for every graph with an edge over vertices 0..4, and three files with comments, a matching header, a weight column, repeated and reversed edges, and an unterminated comment | TypeOK, LoadedGraphMatchesFile, BucketsTrackResidualDegree, IsDegeneracyOrdering, SubgraphAnswersAsInput | pass, about 81k states |
| `degeneracy_self_loops_only` | vertices named only in self-loops | AssertionsHold | violation (finding) |
| `graph_load_misread` (`MCGraphLoad_Misread.cfg`) | a Matrix Market file whose header count is wrong; a file whose last edge line has no newline; a file ending in a blank line | LoadedGraphMatchesFile | violation (findings 6, 7 and 10) |
| `arena_default_thresholds` (`MCMemChunk_Default.cfg`) | 3 candidates, `--thresh 30`, `--mem-thresh 20`; and 1 candidate, `--thresh 2`, `--mem-thresh 30` | TypeOK, CounterTracksLiveSets, LiveSetMemoryExclusive, ArenaReleasedWhenTaskDone | pass, 804 states |
| `arena_chunked_children_free_early` | 2 candidates, `--thresh 2`, `--mem-thresh 30` | LiveSetMemoryExclusive | violation (finding) |
| `list_avx_engine` (`MCUnrolledList_AvxEngine.cfg`) | ids 1..4, 2 slots per bucket, AVX512 build, remove only of present ids, intersected with {2,3} | TypeOK, SizeMatchesContents, AvxIntersectAgrees, ImplementsVertexList | pass, 940 states |
| `hopscotch_scalar` (`MCHopscotchTable_Scalar.cfg`) | every list of 0..3 distinct ids of 0..3, every hash seed, HS 2 | TypeOK, NeighbourhoodInvariant, HashSetPreservesMembership, HashSetCompletes | pass, about 76k states |
| `hopscotch_avx_lookup` (`MCHopscotchTable_Avx.cfg`) | the same, AVX512 build with VECTOR_SIZE 2 | LookupsAgree | violation (finding) |

The properties:

- **MemorySafety.** No step touches a deleted guard, the input graph's guard is deleted only at the end, and no `StartTask` takes a `pivot_node` of −1. This holds whatever `-s` and `--max-clq` values `main` lets through.
- **NoLeakAtEnd.** When the run has returned, every set and every induced subgraph has been freed.
- **EnumeratesMaxCliques.** This is the abstract spec as a temporal property: only maximal cliques are counted, none twice, all of them before the run ends, and the run ends.
- **EnumerationSafety.** This is the same refinement without the liveness part.
- **LoadedGraphMatchesFile.** Once the file is read, the vertices and adjacency sets are exactly those the spec reads from the file: self-loops ignored, repeated and reversed lines collapsed, comments and the header skipped. `nodeNo` counts the vertices, and a header's count agrees with them.
- **BucketsTrackResidualDegree.** Every vertex not yet popped sits in exactly the bucket of its number of unpopped neighbours, and popped vertices sit in none.
- **SubgraphAnswersAsInput.** In the state just after loading, take every disjoint P and X of the graph. The subgraph `createHpxSubgraph` builds has vertices P ∪ X. Each P vertex is adjacent to its neighbours in P ∪ X, each X vertex to its neighbours in P, and no two X vertices are adjacent. `pivot_node` is a best-scored vertex of P, else of X. Ties go to P because the P loop runs first with a strict `>`. The spec (§4.3) says X wins ties. That changes only which pivot is taken, not what is enumerated, so no run checks the spec's rule.
- **IsDegeneracyOrdering.** After return, `vertexOrdering` is a permutation with inverse `backwardsMapping`. The reported degeneracy equals the graph's degeneracy, computed as the largest minimum degree over induced subgraphs, and no vertex has more later neighbours than that.
- **CounterTracksLiveSets.** When no thread is between the load and the store of an update, `allocations` equals the number of live sets. This is checked for setups where no child receives sets from the chunk; with one that does, it fails (finding 4).
- **LiveSetMemoryExclusive.** Memory of a live set is owned by it alone: no live set has had its blocks freed under it, and no two live sets (nor a set and a list bucket a child carved for its X') were given the same `<<block, line>>` address by `get_address`.
- **ArenaReleasedWhenTaskDone.** Once the task's Continuation has run, the blocks are freed. As above, this is checked when no child receives sets from the chunk.
- **SizeMatchesContents.** `size()` equals the number of ids `for_each` visits, after any sequence of push_back, remove and pop_back across bucket boundaries.
- **AvxIntersectAgrees.** The vectorised `intersect` and `intersection_size` return the ids and the count of the scalar filter, in list order, whatever stale ids sit in the tail bucket. Together with `exclude`, the result partitions the list (spec §8).
- **ImplementsVertexList.** Seen through `for_each`, the list implements `VertexList`, its iterator included: every id of `cand_task` is handed out once, in order, and the loop ends.
- **NeighbourhoodInvariant.** Whenever no insert is in progress, every stored id lies fewer than `HS_BUCKET_SIZE` slots after its home slot. `contains` relies on this, as it probes only that many slots.
- **HashSetPreservesMembership.** After `hashSet`, `size()` is the list's length and `contains(k)` is true exactly for the ids of the list, through every nested reconstruct.
- **LookupsAgree.** The AVX512 `contains` and `vector_lookup` give the scalar answer.
- **HashSetCompletes.** Every `hashSet` returns, with no `exit(1)`.

Why the bounds suffice:

- **Files.** Each graph's file names every vertex with a self-loop line, so vertex sets of every size occur. The extra files reach every branch of the read loop: a comment first and last, a header, a later three-token line, a duplicate and a reversed line, and the end of file on an unterminated line.
- **Five vertices for the ordering.** All 1023 graphs with an edge over five vertices include paths, stars, cycles, cliques up to K5 and disconnected pieces. Peeling them exercises buckets that empty and refill, neighbours moved more than once, and every degeneracy from 1 to 4.
- **Subgraphs of those graphs.** `SubgraphAnswersAsInput` takes all 243 splits of the five vertices into P, X and the rest on each graph. These include empty P, empty X, P vertices with no neighbour (whose hashed empty list goes through `reserve(0)`), X vertices adjacent to each other, and ties for the pivot between P and X.
- **Three candidates for the arena.** With default thresholds, three candidates give leaf and nested sequential branches in every combination. The passing run also takes one chunked child, so `ChildRun` fires. One and two chunked children are the smallest cases with one and with two threads racing the parent.

- **K4.** With PX_threshold 2, K4 has root tasks that spawn children (|P'|+|X'| = 2), children whose own iterations go sequential, and root tasks that end at once. So every action, both LoopIteration branches and every ownership path of every policy occur.
- **Bowtie.** Under inverse-degree order the bowtie has frames with two candidates, so the move of a candidate into X before the next one is taken matters. K4 frames never have two candidates.
- **Vertex sets.** Four ids over 2-slot buckets fill two buckets, and reach pop_back and remove across bucket boundaries, and stale slots. For the hash table, three ids of 0..3 under every seed give collisions, displacement (successful and failed), nested reconstructs and wrap-around. Four ids (256k states) reach no further branch. One branch is not reached: the "id already present" return at line 169 during a re-insert after a partly done displacement. Neither is the `exit(1)` after ten attempts, because each failed attempt quadruples the capacity and the hash is injective at 2^W.
- **Why not larger.** Larger graphs (K4 plus a vertex) exceed a million states per policy without adding a new control path. The liveness part is checked on K4 only, because on the bowtie it takes over 7 minutes.

Fairness: `WF_vars(Next)` in every module, except `UnrolledList` and `VertexList`, which have weak fairness of the iterator step only (the engine's task keeps calling `get_next` until `end_iter`; the build-phase calls are the caller's choice). TBB's worker pool runs every spawned task, and no step of this engine blocks. Every task step is enabled until it is taken, and the only waiting, a continuation waiting for its children, is on tasks that themselves keep making progress. Weak fairness of the whole next-state relation is enough, because in a non-final state some step is always enabled. The `Terminating` stutter after `RunEnd` keeps the deadlock check meaningful: a state where tasks remain but none can step is reported.

## Findings

1. **Code bug: the input graph is freed early** (`BronKerboschTBB.cpp:188`, run `engine_root_task_options`). With `-s 1`, a root task cut off by `--max-clq` before building its subgraph still has `NewGraph` set. Its Continuation therefore releases the input graph's guard, and other root tasks then read a deleted graph. `BronKerboschDegeneracy` later deletes the guard a second time.
2. **Spec/code divergence: the max_clq return leaks** (run `engine_maxclq_leak`). The same early return skips freeing P and X and skips the subgraph release. Spec §4.4 says every terminal outcome frees them.
3. **Code bug: self-loop-only input fails the bucket assertion** (`Graph.cpp:87`, run `degeneracy_self_loops_only`). `addEdge` creates the vertex of a self-loop but raises `maxdeg` only for real edges. If every line of the file is a self-loop, `maxdeg` stays −1 and `degArray` has no buckets, so `assert(list->size() < maxdeg+1)` fails. Without assertions the insert writes out of bounds.
4. **Spec/code divergence: the arena counter is not atomic** (`MemChunk.h:19`, run `arena_chunked_children_free_early`). `allocations` is a plain `long`. Spec §4.1 says retain and release are atomic. When `--mem-thresh` exceeds `--thresh`, children release sets of their parent's chunk on other threads. A lost update brings the count to zero while a child's P' and X' are live, and `delete_dynamic_blocks` frees their memory.
   The same lost updates can instead keep the counter above zero after the last release. `delete sets_chunk` (`BronKerboschTBB.cpp:141`) then runs an empty destructor, so the blocks are never freed.
5. **Code bug: AVX512 `contains` reads past the table** (`SimpleHashTable.h:128`, run `hopscotch_avx_lookup`). `pos` advances by `VECTOR_SIZE` and wraps only when `pos > capacity`, so a window can start at `capacity` and its last lane is past `phys_capacity`. A value there equal to the key makes an absent id look present. The counterexample has capacity 4 and a key homed at slot 2. The spec requires the batched and scalar paths to agree.

6. **Code bug: a wrong header count is accepted** (`Graph.cpp:141`, run `graph_load_misread`). `if(nodeNo = -1)` assigns rather than compares. The header's count is therefore always overwritten by `adjList.size()`, and the assert on the next line compares that value with itself. Spec §7 makes a vertex-count/header mismatch fatal. The run's Matrix Market file, whose header says 4 but whose lines name three vertices, loads without error. Checked alone, it violates the property.
7. **Spec/code divergence: the last line is dropped without a newline** (`Graph.cpp:126`, same run). `getline` sets eof when it reads a final line that has no `\n`, and the loop breaks before parsing that line. The file `0 1 / 1 2 / 2 0` without a final newline loads as the path 0-1-2. Checked alone, it violates the property.
8. **Code bug: `get_address` hands the same memory out twice** (`MemChunk.h:42`, run `arena_chunked_children_free_early`). `free_index += inc` is a plain load and store. A child's `X->add_elem` on an X' carved from its parent's chunk calls that chunk's `get_address` when a list bucket fills (`UnrolledList.cpp:6`), while the parent is carving the next child's P' and X'. Both read the same `free_index`, so a bucket and a live set share a cache line. Spec §5 says the bump cursor is updated atomically. The overlap is reachable without any early free.

9. **Code bug: an out-of-range `-s` reaches `assert(pivot != -1)`** (`main.cpp:83`, run `engine_root_task_options`). `main` checks the range with `subgraphBased == 0;`, which does nothing, so `-s -1` and `-s 5` are kept. The root tasks get `NewGraph = (subgraphBased != 0)`, which is true (`BKTask.cpp:42`), but no `createGraph` case of `StartTask` holds. The root task therefore reads `pivot_node` from the input graph, where it is −1. The assertion fails; without assertions, `getAdjacentNodes(-1)` reads before the adjacency array. Checked alone (`-s 5`, no `--max-clq`), it violates the property. Had line 83 assigned, it would also have reset `-s 3`, the policy spec §4.3 calls "always", to 0. Finding 1 is checked alone with `-s 1 --max-clq 1`.

10. **Code bug: a blank line adds a vertex from uninitialised memory** (`Graph.cpp:130`, run `graph_load_misread`). A line that is neither a comment nor two integers is still parsed, and a blank last line is the common case: `getline` returns it before it reports eof. The stream sentry then fails, so `>>` writes nothing, and `addEdge(first, second)` reads the uninitialised locals. The file `0 1 / 1 2 /` with a blank last line loads with an extra vertex 9 when the stack holds 9. Checked alone, it violates the property. The spec describes an edge list, in which such a line names no edge.

With the default thresholds (30 and 20) no child receives sets from its parent's chunk, so finding 4 needs non-default options.

Two further disagreements are recorded as hazards in PROJECT.json rather than as runs:
- **Remove of an absent id.** The AVX512 `find_element` scans stale slots, so `remove` of an absent id that has a stale copy deletes the last id. Setting `RemoveAbsent = TRUE` with `AVX = TRUE` makes `ImplementsVertexList` fail. The engine only removes present ids.
- **Rebuild capacity.** `hopscotchReconstruct` doubles the capacity and runs twice per failed attempt, where the spec says the table is rebuilt once at the same capacity.

## Not modelled, and the plan

| Part | Status | Plan |
|---|---|---|
| `include` | not modelled | no caller |
| `SimpleHashTable::insert`, copy constructors, `isSorted` | not modelled | none: compiled out under `USE_HOPSCOTCH`, or nothing reads them |
| the other options of `main` | not modelled | `-f`, `-n`, `-o`, `-b`, `-i`, `-m`, `-p` choose a file, a thread count, telemetry or output. `--ord`, `--thresh` and `--mem-thresh` enter the models as the constants `degeneracyOrd`/`degreeOrd`, `PX_threshold` and `mem_threshold`. An option given as the last word makes `getCmdOption` return NULL, and `string(NULL)` is undefined, so `CommandLine` gives every option present a value |
| `writeCliqueHist`, `MemUsageLogger` | not modelled | none: output and telemetry. The engine's `found` bag is what the histograms count. Two hazards are recorded without a property. The first is `writeCliqueHist` adding long per-thread counts into a `map<int,int>`, which overflows past 2^31 cliques of one size (Graph.cpp:172). The second is the logger's sampling flag: a thread already past its spin-wait ignores it, so a sample can mix updates and print a peak that was never reached. Only the printed figures are affected |
| `returnClique` path of Continuation | not modelled | none: no caller ever sets it |
