----------------------------- MODULE MapReduce -----------------------------
(***************************************************************************)
(* The MapReduce of src/src/mr: a coordinator that hands out tasks and     *)
(* takes them back when they time out, and workers that run them.          *)
(*                                                                         *)
(* The intermediate files of a map task have names of their own in every   *)
(* execution and the same contents, so <<m, r>> stands for the file that   *)
(* any complete execution of map m leaves for partition r.  Words are      *)
(* natural numbers, the order of which is that of the strings.  The value  *)
(* of a pair is the place of the word in the input, so that no two pairs   *)
(* are the same; the reduce function returns its values.  Keys and values  *)
(* contain no blank, so that parseKV undoes what doMap has printed.        *)
(*                                                                         *)
(* Generations are left out.  alloc gives the new node and the task the    *)
(* same one, and mapTask and reduceTask hold the node that was allocated   *)
(* last for a task that is not done, so they never differ in a report.     *)
(***************************************************************************)
EXTENDS Integers, SequencesExt

CONSTANTS
  Worker,
  NMap,        \* input files
  NReduce,
  Inputs,      \* the inputs: functions from map task to its sequence of keys
  BufferSize,  \* mapBufferSize, in pairs
  MaxCrashes,  \* bound: crashes and failed executions
  MaxSlow,     \* bound: tasks that time out although a worker is at them
  Nil

Map == 1 .. NMap
Reduce == 0 .. NReduce - 1

ASSUME MapReduceAssumption ==
  /\ NMap \in Nat \ {0} /\ NReduce \in Nat \ {0} /\ BufferSize \in Nat \ {0}
  /\ Inputs \subseteq [Map -> Seq(Nat)]
  /\ MaxCrashes \in Nat /\ MaxSlow \in Nat

\* No file is no output
ASSUME NilAssumption == Nil \notin Seq([key : Nat, values : Seq(Map \X Nat)])

VARIABLES
  input,         \* the contents of the input files
  out,           \* Reduce -> the lines of mr-out-r, Nil if there is no such file
  worker,        \* Worker -> pc, task: the number of its task, and files: its input
  crashes, slow  \* how many there have been

VARIABLES
  node,          \* the nodes that have been created: [kind, id, files, state]
  free,          \* the pool of nodes, used as a stack
  pending,       \* nodes to hand out, first in first out
  running,       \* nodes handed out, the oldest first
  mapTask,       \* Map -> node of the task
  reduceTask,    \* Reduce -> node of the task, 0 if there is none
  mapDone,       \* map tasks that are done
  mapFiles,      \* Reduce -> the intermediate files of the partition
  reducesReady, done

poolVars == <<node, free>>
taskVars == <<mapTask, reduceTask, mapDone, mapFiles, reducesReady, done>>
workerVars == <<worker, crashes, slow>>
vars == <<input, out, workerVars, poolVars, pending, running, taskVars>>

-----------------------------------------------------------------------------
\* What the workers compute

ihash(k) == k % NReduce

\* What the map function makes of input file m
kva(in, m) == [i \in DOMAIN in[m] |-> [key |-> in[m][i], value |-> <<m, i>>]]

\* sort.Sort: some order of the pairs in which their keys ascend
sorted(kvs) ==
  LET p == CHOOSE q \in Bijection(DOMAIN kvs, DOMAIN kvs) :
             \A i, j \in DOMAIN kvs : i < j => kvs[q[i]].key <= kvs[q[j]].key
  IN [i \in DOMAIN kvs |-> kvs[p[i]]]

\* The sorted batch is appended to the file
flush(b) == [file |-> b.file \o sorted(b.part), part |-> <<>>]

addPair(b, kv) ==
  LET full == [b EXCEPT !.part = Append(@, kv)]
  IN IF Len(full.part) >= BufferSize THEN flush(full) ELSE full

\* The file of map m for partition r: a sequence of sorted batches
doMap(in, m, r) ==
  LET b[i \in 0 .. Len(in[m])] ==
        IF i = 0 THEN [file |-> <<>>, part |-> <<>>]
        ELSE IF ihash(in[m][i]) = r THEN addPair(b[i - 1], kva(in, m)[i]) ELSE b[i - 1]
  IN flush(b[Len(in[m])]).file

\* Mutant: a file is taken for one segment
cuts_none(lines) == {i \in DOMAIN lines : i = 1}

\* The lines at which a segment starts: the key is less than the one before
cuts(lines) == {i \in DOMAIN lines : i = 1 \/ lines[i].key < lines[i - 1].key}

\* The segments of the files: at is the next line to read, end the last one
segments(files) ==
  UNION {{[file |-> f, at |-> i,
           end |-> Min({j - 1 : j \in {j \in cuts(files[f]) : j > i}} \cup {Len(files[f])})] :
            i \in cuts(files[f])} : f \in DOMAIN files}

\* A line of the output collects the values of a key as long as the key is the same
emit(lines, kv) ==
  IF lines # <<>> /\ Last(lines).key = kv.key
    THEN [lines EXCEPT ![Len(lines)].values = Append(@, kv.value)]
    ELSE Append(lines, [key |-> kv.key, values |-> <<kv.value>>])

\* The next line of a segment
next(files, s) == files[s.file][s.at]

\* The segment at the top of the heap, one with the least next key
top(files, segs) ==
  CHOOSE s \in segs : \A t \in segs : next(files, s).key <= next(files, t).key

\* One turn of the merge: the next line of the top segment goes to the output
mergeOne(files, h) ==
  LET s == top(files, h.segs)
      rest == IF s.at < s.end THEN {[s EXCEPT !.at = @ + 1]} ELSE {}
  IN [segs |-> (h.segs \ {s}) \cup rest, lines |-> emit(h.lines, next(files, s))]

\* The output for the intermediate files in the list.  Each turn takes one line, and the
\* heap is empty when all have been taken.
doReduce(in, list, r) ==
  LET files == [f \in DOMAIN list |-> doMap(in, list[f], r)]
      turns == Cardinality(UNION {{f} \X DOMAIN files[f] : f \in DOMAIN files})
      h[k \in 0 .. turns] ==
        IF k = 0 THEN [segs |-> segments(files), lines |-> <<>>] ELSE mergeOne(files, h[k - 1])
  IN h[turns].lines

-----------------------------------------------------------------------------
\* The coordinator's nodes

\* The nodes that the next k calls of alloc return
alloc(k) ==
  [i \in 1 .. k |-> IF i <= Len(free) THEN free[Len(free) + 1 - i]
                                      ELSE Len(node) + i - Len(free)]

poolAfter(k) == SubSeq(free, 1, IF k < Len(free) THEN Len(free) - k ELSE 0)

\* The table of nodes when the nodes ns have been initialised to the records rs
initialised(ns, rs) ==
  [n \in DOMAIN node \cup Range(ns) |->
     IF n \in Range(ns) THEN rs[CHOOSE i \in DOMAIN ns : ns[i] = n] ELSE node[n]]

Node(kind, id, files) == [kind |-> kind, id |-> id, files |-> files, state |-> "pending"]

\* The state of a node that is recycled stays as it is
recycle(n) ==
  /\ free' = Append(free, n)
  /\ node' = [node EXCEPT ![n].files = <<>>]

-----------------------------------------------------------------------------
\* The coordinator's RPC handlers

\* Every map task is done, not only handed out
mapsOver == mapDone = Map

Idle == [pc |-> "idle", task |-> 0, files |-> <<>>]

\* GetTask, with startReducePhase when it is due
GetTask(w) ==
  LET start == ~ reducesReady /\ mapsOver
      fresh == alloc(NReduce)
      queue == IF start THEN pending \o fresh ELSE pending
      nodes == IF start
                 THEN initialised(fresh, [i \in 1 .. NReduce |-> Node("reduce", i - 1, mapFiles[i - 1])])
                 ELSE node
  IN /\ worker[w].pc = "idle"
     /\ reducesReady' = (reducesReady \/ start)
     /\ free' = IF start THEN poolAfter(NReduce) ELSE free
     /\ reduceTask' = IF start THEN [r \in Reduce |-> fresh[r + 1]] ELSE reduceTask
     /\ \/ /\ queue # <<>>
           /\ node' = [nodes EXCEPT ![Head(queue)].state = "running"]
           /\ pending' = Tail(queue)
           /\ running' = Append(running, Head(queue))
           /\ worker' = [worker EXCEPT ![w] = [pc |-> nodes[Head(queue)].kind,
                                               task |-> nodes[Head(queue)].id,
                                               files |-> nodes[Head(queue)].files]]
           /\ UNCHANGED done
        \/ /\ queue = <<>> /\ reducesReady /\ running = <<>>
           /\ done' = TRUE
           /\ worker' = [worker EXCEPT ![w].pc = "exit"]
           /\ UNCHANGED <<node, pending, running>>
        \/ /\ queue = <<>> /\ ~ (reducesReady /\ running = <<>>)
           /\ UNCHANGED <<node, pending, running, worker, done>>
     /\ UNCHANGED <<input, out, crashes, slow, mapTask, mapDone, mapFiles>>

\* Mutant: a report is taken whether or not the task has been taken back
awaits_any(n) == TRUE

\* The node has been handed out and not been taken back
awaits(n) == node[n].state = "running"

\* Mutant: a second report of a map task is not recognised
reported_never(m) == FALSE

reported(m) == m \in mapDone

\* A worker runs its map task and reports it
ReportMap(w) ==
  LET m == worker[w].task
      n == mapTask[m]
  IN /\ worker[w].pc = "map"
     /\ worker' = [worker EXCEPT ![w] = Idle]
     /\ IF reported(m) \/ ~ awaits(n) THEN UNCHANGED <<poolVars, running, mapDone, mapFiles>>
        ELSE /\ running' = RemoveFirst(running, n)
             /\ recycle(n)
             /\ mapDone' = mapDone \cup {m}
             /\ mapFiles' = [r \in Reduce |-> Append(mapFiles[r], m)]
     /\ UNCHANGED <<input, out, crashes, slow, pending, mapTask, reduceTask, reducesReady, done>>

\* A worker runs its reduce task up to the link that makes the output appear.  If there
\* is an output already the worker does not report.
link(w) ==
  LET r == worker[w].task
  IN /\ worker[w].pc = "reduce"
     /\ \/ /\ out[r] = Nil
           /\ out' = [out EXCEPT ![r] = doReduce(input, worker[w].files, r)]
           /\ worker' = [worker EXCEPT ![w].pc = "report"]
        \/ /\ out[r] # Nil
           /\ worker' = [worker EXCEPT ![w] = Idle]
           /\ UNCHANGED out
     /\ UNCHANGED <<input, crashes, slow, poolVars, pending, running, taskVars>>

ReportReduce(w) ==
  LET r == worker[w].task
      n == reduceTask[r]
  IN /\ worker[w].pc = "report"
     /\ worker' = [worker EXCEPT ![w] = Idle]
     /\ IF n = 0 \/ ~ awaits(n) THEN UNCHANGED <<poolVars, running, reduceTask>>
        ELSE /\ running' = RemoveFirst(running, n)
             /\ recycle(n)
             /\ reduceTask' = [reduceTask EXCEPT ![r] = 0]
     /\ UNCHANGED <<input, out, crashes, slow, pending, mapTask, mapDone, mapFiles, reducesReady,
                    done>>

\* A worker is at the task of the node
atWork(n) ==
  \E w \in Worker : /\ worker[w].task = node[n].id
                    /\ worker[w].pc \in (IF node[n].kind = "map" THEN {"map"} ELSE {"reduce", "report"})

\* Mutant: a task that times out is dropped
requeued_not(n) == pending

requeued(n) == Append(pending, n)

\* checkTimeout for the oldest node.  A scan that finds several expired nodes does to
\* each what this does to one, and one may be all it finds.
checkTimeout ==
  LET n == Head(running)
      t == node[n]
      new == alloc(1)
  IN /\ running # <<>>
     /\ atWork(n) => slow < MaxSlow
     /\ slow' = IF atWork(n) THEN slow + 1 ELSE slow
     /\ running' = Tail(running)
     /\ node' = [initialised(new, <<Node(t.kind, t.id, t.files)>>) EXCEPT ![n].files = <<>>]
     /\ free' = Append(poolAfter(1), n)
     /\ pending' = requeued(new[1])
     /\ mapTask' = IF t.kind = "map" THEN [mapTask EXCEPT ![t.id] = new[1]] ELSE mapTask
     /\ reduceTask' = IF t.kind = "reduce" THEN [reduceTask EXCEPT ![t.id] = new[1]] ELSE reduceTask
     /\ UNCHANGED <<input, out, worker, crashes, mapDone, mapFiles, reducesReady, done>>

\* A worker crashes and another is started in its place, or its execution fails: the
\* files it was writing are not reported and not linked
crash(w) ==
  /\ crashes < MaxCrashes
  /\ worker[w].pc \in {"map", "reduce", "report"}
  /\ crashes' = crashes + 1
  /\ worker' = [worker EXCEPT ![w] = Idle]
  /\ UNCHANGED <<input, out, slow, poolVars, pending, running, taskVars>>

-----------------------------------------------------------------------------
Init ==
  /\ input \in Inputs
  /\ out = [r \in Reduce |-> Nil]
  /\ worker = [w \in Worker |-> Idle]
  /\ crashes = 0 /\ slow = 0
  /\ node = [n \in Map |-> Node("map", n, <<>>)]
  /\ free = <<>>
  /\ pending = [n \in Map |-> n]
  /\ running = <<>>
  /\ mapTask = [m \in Map |-> m]
  /\ reduceTask = [r \in Reduce |-> 0]
  /\ mapDone = {}
  /\ mapFiles = [r \in Reduce |-> <<>>]
  /\ reducesReady = FALSE /\ done = FALSE

rpc(w) == GetTask(w) \/ ReportMap(w) \/ ReportReduce(w)

Next ==
  \/ \E w \in Worker : rpc(w) \/ link(w) \/ crash(w)
  \/ checkTimeout

Spec == Init /\ [][Next]_vars

\* Workers that do not crash go on, and the coordinator scans for expired tasks forever.
\* The last conjunct is what WF_vars(link(w)) says: link(w) is enabled as long as the
\* worker is at its reduce task.
FairSpec ==
  /\ Spec
  /\ WF_vars(checkTimeout)
  /\ \A w \in Worker : WF_vars(rpc(w)) /\ []<>(worker[w].pc # "reduce")

-----------------------------------------------------------------------------
\* Properties

\* The lines hold every word of partition r in ascending order, each with all its values
Counted(in, lines, r) ==
  /\ \A i, j \in DOMAIN lines : i < j => lines[i].key < lines[j].key
  /\ \A i \in DOMAIN lines : IsInjective(lines[i].values)
  /\ \A m \in Map : \A i \in DOMAIN in[m] :
       ihash(in[m][i]) = r =>
         \E l \in Range(lines) : l.key = in[m][i] /\ <<m, i>> \in Range(l.values)
  /\ \A l \in Range(lines) : \A v \in Range(l.values) :
       ihash(l.key) = r /\ in[v[1]][v[2]] = l.key

\* The orders in which the maps may have been reported
Orders == {l \in [1 .. NMap -> Map] : IsInjective(l)}

\* A reduce of the given input counts every word of its partition once
Merges ==
  \A r \in Reduce, l \in Orders :
    LET lines == doReduce(input, l, r) IN lines # Nil /\ Counted(input, lines, r)

\* In whatever order the maps were reported, a reduce counts every word once: the files are
\* cut into segments and merged so that equal words meet, and nothing is lost at the end of
\* a batch, a segment or a file (worker.go:131-152, 196-257).  The input never changes, so
\* that it is enough to look before a task has been handed out.
MergesRight == running = <<>> /\ mapDone = {} => Merges

\* An output file is right from the moment it has its name (worker.go:161-166, 270-278):
\* it counts every word of the partition of every input once, however often tasks were
\* repeated, and the job is not done before all of them are there (mr_test.go:95-96).
OutputsRight ==
  \A r \in Reduce : IF out[r] = Nil THEN ~ done ELSE Counted(input, out[r], r)

\* A task is in the lists at most once (coordinator.go:38-40): a node is in one list or
\* in the pool and only once, and every task that is not done has its node in a list.
OneNodePerTask ==
  LET all == pending \o running \o free
      listed == Range(pending \o running)
  IN /\ IsInjective(all)
     /\ \A m \in Map \ mapDone : mapTask[m] \in listed /\ node[mapTask[m]].kind = "map"
                                 /\ node[mapTask[m]].id = m
     /\ Len(pending \o running) =
          Cardinality(Map \ mapDone) + Cardinality({r \in Reduce : reduceTask[r] # 0})

\* The output is there, its task is not done, and nobody is going to report it
Orphaned(r) ==
  /\ out[r] # Nil /\ reduceTask[r] # 0
  /\ \A w \in Worker : ~ (worker[w].pc = "report" /\ worker[w].task = r)

\* The job ends, whatever tasks crash, time out or are reported late, unless the worker
\* that linked an output is not heard of (worker.go:273-276).
EndsUnlessOrphaned == <>(done \/ \E r \in Reduce : Orphaned(r))

\* The job ends: a task that is not done in time is given to another worker, and so the
\* crash of a worker does not stop the job (coordinator.go:19-20, mr_test.go:130).
JobEnds == <>done

=============================================================================
