------------------------------- MODULE KVRaft -------------------------------
(***************************************************************************)
(* The replicated key/value service: Clerks (src/src/kvraft1/client.go),   *)
(* servers (src/src/kvraft1/server.go) and the replicated state machine    *)
(* between a server and its Raft peer (src/src/kvraft1/rsm/rsm.go).        *)
(*                                                                         *)
(* Raft is seen as the rsm sees it: Start, GetState, Snapshot and the      *)
(* messages on applyCh.  Each term has at most one leader; its log extends *)
(* what is committed and survives, in whole or in part, in the logs of     *)
(* later leaders; only the leader of the latest term commits.  That Raft   *)
(* provides this is the subject of module Raft.                            *)
(*                                                                         *)
(* As in KVService, Op is the set of all calls of Clerk.Get and Clerk.Put. *)
(* Attempt i of call o is the handler <<o, i>>: an RPC that runs Submit at *)
(* some server, possibly after the clerk has given up on it.               *)
(***************************************************************************)
EXTENDS Naturals, FiniteSets, Sequences, FiniteSetsExt, SequencesExt

CONSTANTS
  Server, Op, Key, Value,
  Empty,        \* "", the zero value of a string
  Nil,
  MaxVersion,   \* bound: the largest version that callers pass
  MaxEvents,    \* bound: requests sent and crashes, of all calls and servers together
  MaxTerm,      \* bound: elections
  MaxSnapIndex  \* bound: PersistBytes() stays below maxraftstate beyond this index

ASSUME KVRaftAssumption ==
  /\ IsFiniteSet(Server) /\ IsFiniteSet(Op) /\ Empty \in Value
  /\ MaxVersion \in Nat /\ MaxEvents \in Nat /\ MaxTerm \in Nat
  /\ MaxSnapIndex \in Nat

VARIABLES
  lead,          \* the term that a server believes it leads, 0 if none: GetState
  termLog,       \* term -> the log of its leader, entries [term, me, id, handler]
  clog,          \* the committed entries
  by,            \* index -> the term whose leader committed the entry
  base, snap,    \* index and contents of the persisted snapshot
  offered,       \* a snapshot installed from a leader waits for applyCh
  handed,        \* last index that the reader has taken from applyCh
  restarts

raftVars == <<lead, termLog, clog, by, base, snap, offered, handed, restarts>>

VARIABLES
  m,             \* the state machine: kv.m, version 0 for a key that is not there
  reqNum, lastApplied,
  pending,       \* log index -> the handler whose Submit waits there, or Nil
  reader,        \* the command in the reader's hands: [index, waiter], or Nil
  submit         \* handler -> what its Submit waits for: [srv, index, term, id], or Nil

rsmVars == <<m, reqNum, lastApplied, pending, reader, submit>>

VARIABLES
  pc, args, resent, attempt, reply, result,  \* the calls, as in KVService
  net                                        \* handlers that have not started

clerkVars == <<pc, args, resent, attempt, reply, result, net>>

VARIABLES
  history,       \* history[i + 1]: the state machine after log index i, wherever it ran first
  executed, saw  \* as in KVService

ghostVars == <<history, executed, saw>>

vars == <<raftVars, rsmVars, clerkVars, ghostVars>>

Handler == Op \X (1 .. MaxEvents)
Index == 1 .. MaxEvents

\* The attempts so far
issued == {h \in Handler : h[2] <= attempt[h[1]]}

events == restarts + Cardinality(issued)

Node == [value : Value, version : Nat]
Args == [op : {"Get", "Put"}, key : Key, value : Value, version : Nat]
Reply == [value : Value, version : Nat,
          err : {"OK", "ErrNoKey", "ErrVersion", "ErrMaybe", "ErrWrongLeader"}]
Entry == [term : Nat, me : Server, id : Nat, handler : Handler]
Waiter == Handler \cup {Nil}
Reader == [index : Index, waiter : Waiter]
Waiting == [srv : Server, index : Index, term : Nat, id : Nat]

ASSUME NilAssumption == Nil \notin Args \cup Reply \cup Handler \cup Reader \cup Waiting

Error(e) == [value |-> Empty, version |-> 0, err |-> e]
NoMap == [k \in Key |-> [value |-> Empty, version |-> 0]]

-----------------------------------------------------------------------------
\* Raft, as far as the rsm can tell

\* The logs a server may have that a majority prefers to its own: what is left of an
\* earlier leader's log, with everything that is committed
electable ==
  {l \in {<<>>} \cup UNION {Prefixes(termLog[t]) : t \in DOMAIN termLog} : IsPrefix(clog, l)}

\* s wins an election; earlier leaders need not learn of it
elect(s) ==
  /\ Len(termLog) < MaxTerm
  /\ \E l \in electable : termLog' = Append(termLog, l)
  /\ lead' = [lead EXCEPT ![s] = Len(termLog) + 1]
  /\ UNCHANGED <<clog, by, base, snap, offered, handed, restarts,
                 rsmVars, clerkVars, ghostVars>>

\* A leader hears of a later term
stepDown(s) ==
  /\ lead[s] # 0 /\ lead[s] < Len(termLog)
  /\ lead' = [lead EXCEPT ![s] = 0]
  /\ UNCHANGED <<termLog, clog, by, base, snap, offered, handed, restarts,
                 rsmVars, clerkVars, ghostVars>>

\* The leader of the latest term commits an entry of that term, and all before it
commit(s) ==
  LET t == lead[s]
  IN /\ t # 0 /\ t = Len(termLog)
     /\ \E i \in Len(clog) + 1 .. Len(termLog[t]) :
          /\ termLog[t][i].term = t
          /\ clog' = SubSeq(termLog[t], 1, i)
          /\ by' = by \o [n \in 1 .. i - Len(clog) |-> t]
     /\ UNCHANGED <<lead, termLog, base, snap, offered, handed, restarts,
                    rsmVars, clerkVars, ghostVars>>

\* s takes the snapshot of leader p, which is ahead of what s has
install(s, p) ==
  /\ lead[p] > lead[s]
  /\ base[p] > base[s] /\ base[p] > handed[s]
  /\ lead' = [lead EXCEPT ![s] = 0]
  /\ base' = [base EXCEPT ![s] = base[p]]
  /\ snap' = [snap EXCEPT ![s] = snap[p]]
  /\ offered' = [offered EXCEPT ![s] = TRUE]
  /\ UNCHANGED <<termLog, clog, by, handed, restarts, rsmVars, clerkVars, ghostVars>>

\* Raft may hand index i to s: a leader knows only what was committed in its own term
\* or earlier
knows(s, i) == i <= Len(clog) /\ (lead[s] # 0 => by[i] <= lead[s])

-----------------------------------------------------------------------------
\* The key/value server

\* KVServer.DoOp on state mm: what it answers, and the state it leaves
performs(mm, a) == a.op = "Put" /\ a.version = mm[a.key].version

answers(mm, a) ==
  LET n == mm[a.key]
  IN CASE a.op = "Get" /\ n.version > 0 ->
            [value |-> n.value, version |-> n.version, err |-> "OK"]
       [] performs(mm, a) -> Error("OK")
       [] OTHER -> Error(IF n.version = 0 THEN "ErrNoKey" ELSE "ErrVersion")

DoOp(mm, a) ==
  IF performs(mm, a)
    THEN [mm EXCEPT ![a.key] = [value |-> a.value, version |-> @.version + 1]] ELSE mm

\* A handler answers: KVServer.Get and KVServer.Put pass on what Submit returned.
\* The answer goes nowhere if the clerk has stopped waiting for it.
awaited(h) == pc[h[1]] = "waiting" /\ attempt[h[1]] = h[2]

deliver(h, r) == reply' = IF awaited(h) THEN [reply EXCEPT ![h[1]] = r] ELSE reply

-----------------------------------------------------------------------------
\* The replicated state machine

\* Submit, up to where it waits: Start and the registration are one critical section
Submit(h, s) ==
  LET t == lead[s]
      index == Len(termLog[t]) + 1
      id == reqNum[s] + 1
  IN /\ h \in net
     /\ net' = net \ {h}
     /\ reqNum' = [reqNum EXCEPT ![s] = id]
     /\ \/ /\ t # 0
           /\ termLog' = [termLog EXCEPT ![t] =
                            Append(@, [term |-> t, me |-> s, id |-> id, handler |-> h])]
           /\ pending' = [pending EXCEPT ![s][index] = h]
           /\ submit' = [submit EXCEPT ![h] =
                           [srv |-> s, index |-> index, term |-> t, id |-> id]]
           /\ UNCHANGED reply
        \/ /\ t = 0
           /\ deliver(h, Error("ErrWrongLeader"))
           /\ UNCHANGED <<termLog, pending, submit>>
     /\ UNCHANGED <<lead, clog, by, base, snap, offered, handed, restarts,
                    m, lastApplied, reader, pc, args, resent, attempt, result, ghostVars>>

\* Mutant: only the loss of the leadership ends the wait
stale_role(h) == lead[submit[h].srv] = 0

\* RSM.stale: the server leads no longer, or leads another term
stale(h) == lead[submit[h].srv] # submit[h].term

\* RSM.discard
discard(h) ==
  pending' = [pending EXCEPT ![submit[h].srv][submit[h].index] = IF @ = h THEN Nil ELSE @]

\* Submit gives up at a tick
giveUp(h) ==
  /\ submit[h] # Nil
  /\ stale(h)
  /\ discard(h)
  /\ submit' = [submit EXCEPT ![h] = Nil]
  /\ deliver(h, Error("ErrWrongLeader"))
  /\ UNCHANGED <<raftVars, m, reqNum, lastApplied, reader,
                 pc, args, resent, attempt, result, net, ghostVars>>

\* The reader takes the next command and claims its waiter
takeCommand(s) ==
  LET index == handed[s] + 1
  IN /\ reader[s] = Nil
     /\ ~ offered[s]
     /\ knows(s, index)
     /\ handed' = [handed EXCEPT ![s] = index]
     /\ reader' = [reader EXCEPT ![s] =
                     [index |-> index, waiter |-> pending[s][index]]]
     /\ pending' = [pending EXCEPT ![s][index] = Nil]
     /\ UNCHANGED <<lead, termLog, clog, by, base, snap, offered, restarts,
                    m, reqNum, lastApplied, submit, clerkVars, ghostVars>>

\* Mutant: the index alone identifies the command
own_byIndex(s, e, h) == TRUE

\* The entry at the waiter's index is the one it submitted
own(s, e, h) == e.me = s /\ e.id = submit[h].id

\* Mutant: the snapshot is labelled with Raft's index
snapIndex_raft(s) == Len(clog)

\* The index that maybeSnapshot gives to the snapshot: the command that has just run
snapIndex(s) == reader[s].index

\* maybeSnapshot; Raft ignores an index that an installed snapshot has overtaken
maybeSnapshot(s) ==
  /\ lastApplied' = [lastApplied EXCEPT ![s] = reader[s].index]
  /\ \/ UNCHANGED <<base, snap>>
     \/ /\ reader[s].index <= MaxSnapIndex
        /\ snapIndex(s) > base[s]
        /\ base' = [base EXCEPT ![s] = snapIndex(s)]
        /\ snap' = [snap EXCEPT ![s] = m'[s]]

\* The reader runs DoOp, delivers the result unless the waiter has given up, and may take
\* a snapshot.  A crash in the middle is a crash after a round without a snapshot.
runCommand(s) ==
  LET e == clog[reader[s].index]
      o == e.handler[1]
      rep == answers(m[s], args[o])
      w == reader[s].waiter
      waiting == w # Nil /\ submit[w] # Nil
      first == reader[s].index = Len(history)
  IN /\ reader[s] # Nil
     /\ reader' = [reader EXCEPT ![s] = Nil]
     /\ m' = [m EXCEPT ![s] = DoOp(@, args[o])]
     /\ \/ /\ waiting
           /\ deliver(w, IF own(s, e, w) THEN rep ELSE Error("ErrWrongLeader"))
           /\ submit' = [submit EXCEPT ![w] = Nil]
        \/ ~ waiting /\ UNCHANGED <<reply, submit>>
     /\ maybeSnapshot(s)
     /\ history' = IF first THEN Append(history, m'[s]) ELSE history
     /\ executed' = IF first /\ performs(m[s], args[o])
                      THEN [executed EXCEPT ![o] = @ + 1] ELSE executed
     /\ saw' = IF first /\ awaited(e.handler) /\ ~ performs(m[s], args[o])
                 THEN [saw EXCEPT ![o] = rep] ELSE saw
     /\ UNCHANGED <<lead, termLog, clog, by, offered, handed, restarts, reqNum, pending,
                    pc, args, resent, attempt, result, net>>

\* The waiters whose commands the snapshot covers
overtaken(s) == {h \in Handler : \E i \in 1 .. base[s] : pending[s][i] = h}

\* RSM.applySnapshot
applySnapshot(s) ==
  /\ reader[s] = Nil
  /\ offered[s]
  /\ offered' = [offered EXCEPT ![s] = FALSE]
  /\ handed' = [handed EXCEPT ![s] = base[s]]
  /\ \/ base[s] <= lastApplied[s] /\ UNCHANGED <<m, lastApplied, pending, submit, reply>>
     \/ /\ base[s] > lastApplied[s]
        /\ m' = [m EXCEPT ![s] = snap[s]]
        /\ lastApplied' = [lastApplied EXCEPT ![s] = base[s]]
        /\ pending' = [pending EXCEPT ![s] =
                         [i \in Index |-> IF i <= base[s] THEN Nil ELSE @[i]]]
        /\ submit' = [h \in Handler |-> IF h \in overtaken(s) THEN Nil ELSE submit[h]]
        /\ reply' = [o \in Op |->
                       IF \E h \in overtaken(s) : h[1] = o /\ awaited(h)
                         THEN Error("ErrWrongLeader") ELSE reply[o]]
  /\ UNCHANGED <<lead, termLog, clog, by, base, snap, restarts, reqNum, reader,
                 pc, args, resent, attempt, result, net, ghostVars>>

\* Mutant: the state machine is not restored
restored_empty(s) == NoMap

\* MakeRSM: the state machine comes from the persisted snapshot
restored(s) == snap[s]

\* The server crashes and starts again.  Its Submits end with the process; what they
\* would answer is lost, for the server has left the network by then.
restart(s) ==
  /\ events < MaxEvents
  /\ restarts' = restarts + 1
  /\ lead' = [lead EXCEPT ![s] = 0]
  /\ handed' = [handed EXCEPT ![s] = base[s]]
  /\ offered' = [offered EXCEPT ![s] = FALSE]
  /\ m' = [m EXCEPT ![s] = restored(s)]
  /\ reqNum' = [reqNum EXCEPT ![s] = 0]
  /\ lastApplied' = [lastApplied EXCEPT ![s] = 0]
  /\ pending' = [pending EXCEPT ![s] = [i \in Index |-> Nil]]
  /\ reader' = [reader EXCEPT ![s] = Nil]
  /\ submit' = [h \in Handler |->
                  IF submit[h] # Nil /\ submit[h].srv = s THEN Nil ELSE submit[h]]
  /\ UNCHANGED <<termLog, clog, by, base, snap, clerkVars, ghostVars>>

-----------------------------------------------------------------------------
\* The clerk

\* A request leaves for some server.  The clerk goes round the servers, starting with
\* the one that last gave an answer: here it may reach any of them.
send(o) ==
  /\ events < MaxEvents
  /\ attempt' = [attempt EXCEPT ![o] = @ + 1]
  /\ net' = net \cup {<<o, attempt[o] + 1>>}

begin(o, a) ==
  /\ pc[o] = "idle"
  /\ pc' = [pc EXCEPT ![o] = "waiting"]
  /\ args' = [args EXCEPT ![o] = a]
  /\ send(o)
  /\ UNCHANGED <<raftVars, rsmVars, resent, reply, result, ghostVars>>

Get(o, k) == begin(o, [op |-> "Get", key |-> k, value |-> Empty, version |-> 0])

\* A caller passes a version it has read, one that the key has or has had
Put(o, k, v, n) ==
  /\ n <= Last(history)[k].version
  /\ begin(o, [op |-> "Put", key |-> k, value |-> v, version |-> n])

\* Mutant: only a lost call makes the Put uncertain
resentAfter_lost(o) == resent[o] \/ reply[o] = Nil

\* Put has sent a request that may have been performed
resentAfter(o) == TRUE

\* No answer, or ErrWrongLeader: on to the next server.  The old request may run later;
\* one that is lost never runs, and its copy stays in net.
tryNext(o) ==
  /\ pc[o] = "waiting"
  /\ resent' = [resent EXCEPT ![o] = resentAfter(o)]
  /\ reply' = [reply EXCEPT ![o] = Nil]
  /\ send(o)
  /\ UNCHANGED <<raftVars, rsmVars, pc, args, result, ghostVars>>

returned(o) ==
  IF args[o].op = "Put" /\ reply[o].err = "ErrVersion" /\ resent[o]
    THEN Error("ErrMaybe") ELSE reply[o]

callReturns(o) ==
  /\ pc[o] = "waiting"
  /\ reply[o] # Nil
  /\ reply[o].err # "ErrWrongLeader"
  /\ pc' = [pc EXCEPT ![o] = "done"]
  /\ result' = [result EXCEPT ![o] = returned(o)]
  /\ reply' = [reply EXCEPT ![o] = Nil]
  /\ UNCHANGED <<raftVars, rsmVars, args, resent, attempt, net, ghostVars>>

-----------------------------------------------------------------------------
Init ==
  /\ lead = [s \in Server |-> 0]
  /\ termLog = <<>>
  /\ clog = <<>>
  /\ by = <<>>
  /\ base = [s \in Server |-> 0]
  /\ snap = [s \in Server |-> NoMap]
  /\ offered = [s \in Server |-> FALSE]
  /\ handed = [s \in Server |-> 0]
  /\ restarts = 0
  /\ m = [s \in Server |-> NoMap]
  /\ reqNum = [s \in Server |-> 0]
  /\ lastApplied = [s \in Server |-> 0]
  /\ pending = [s \in Server |-> [i \in Index |-> Nil]]
  /\ reader = [s \in Server |-> Nil]
  /\ submit = [h \in Handler |-> Nil]
  /\ pc = [o \in Op |-> "idle"]
  /\ args = [o \in Op |-> Nil]
  /\ resent = [o \in Op |-> FALSE]
  /\ attempt = [o \in Op |-> 0]
  /\ reply = [o \in Op |-> Nil]
  /\ result = [o \in Op |-> Nil]
  /\ net = {}
  /\ history = <<NoMap>>
  /\ executed = [o \in Op |-> 0]
  /\ saw = [o \in Op |-> Nil]

Next ==
  \/ \E s \in Server : elect(s)
  \/ \E s \in Server : stepDown(s)
  \/ \E s \in Server : commit(s)
  \/ \E s, p \in Server : install(s, p)
  \/ \E s \in Server : takeCommand(s)
  \/ \E s \in Server : runCommand(s)
  \/ \E s \in Server : applySnapshot(s)
  \/ \E s \in Server : restart(s)
  \/ \E h \in net, s \in Server : Submit(h, s)
  \/ \E h \in Handler : giveUp(h)
  \/ \E o \in Op, k \in Key : Get(o, k)
  \/ \E o \in Op, k \in Key, v \in Value, n \in 0 .. MaxVersion : Put(o, k, v, n)
  \/ \E o \in Op : tryNext(o)
  \/ \E o \in Op : callReturns(o)

Spec == Init /\ [][Next]_vars

-----------------------------------------------------------------------------
\* Properties

\* The log index up to which s has run the commands
ranUpTo(s) == IF reader[s] # Nil THEN reader[s].index - 1 ELSE handed[s]

\* What a server has in memory, and what it has saved as a snapshot, is the outcome of
\* exactly the commands up to the index it has run and the index it saved with the
\* snapshot, for every server and across snapshots, installs and restarts
\* (rsm.go:72-76, 150-153, 182-186, 214-222).
StateIsPrefix ==
  \A s \in Server :
    /\ m[s] = history[ranUpTo(s) + 1]
    /\ base[s] < Len(history)
    /\ snap[s] = history[base[s] + 1]

\* A Submit that has not returned can be woken: its waiter is registered, or in the hands
\* of the reader, or the next tick finds the leadership gone (rsm.go:265-301).  This also
\* holds for a waiter whose index was given to another Submit after a change of leader.
WaiterNotLost ==
  \A h \in Handler : submit[h] # Nil =>
    LET s == submit[h].srv
    IN \/ /\ pending[s][submit[h].index] = h
          /\ submit[h].index > handed[s]
       \/ reader[s] # Nil /\ reader[s].waiter = h
       \/ stale(h)

\* Clerks, servers, state machines and Raft together implement the store: every call
\* takes effect once, at one moment between its invocation and its answer, although a
\* server may answer ErrWrongLeader for a command that is committed later
\* (client.go:65-90).
Store == INSTANCE KVStore WITH
  Clerk <- Op, store <- Last(history), applied <- [o \in Op |-> executed[o] > 0],
  answer <- result
Linearizable == Store!StoreSpec

\* The reader knows by the server and its number whose command it has run (rsm.go:19-24,
\* 119-126): the waiter that it answers has submitted this very entry.
RequestNamed ==
  \A s \in Server :
    LET e == clog[reader[s].index]
        w == reader[s].waiter
    IN reader[s] # Nil /\ w # Nil /\ submit[w] # Nil /\ own(s, e, w) => e.handler = w

\* This holds as long as no server has restarted: the numbers start again with the process
NamedUntilRestart == restarts = 0 => RequestNamed

=============================================================================
