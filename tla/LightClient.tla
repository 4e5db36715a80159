------------------------------ MODULE LightClient ------------------------------
(* The client that runs a program over the application's state with a partial *)
(* copy of the node's store: it runs the program until a read needs data it   *)
(* does not have, asks the node for a proof of that data, joins the proof into *)
(* its copy and starts over, until the program ends.  Reads made by a traced   *)
(* query method are asked for by that query, others by the raw key.           *)
(*                                                                            *)
(* An entry of the store is its key.  A program is a sequence of chains; a    *)
(* chain is a sequence of operations [message, body, key] on the application: *)
(* the `get`s that lead to a value, then a query method or (message <<>>) an   *)
(* iteration no trace knows of.  A body reads the store under its key.        *)
EXTENDS Messages, Bytes, FiniteSetsExt

CONSTANTS App,       \* the type of the application
          Keys,      \* the keys that are stored or read
          Prefix,    \* the prefix of its store, under that of the plugins
          Stores,    \* the contents the node's store may have: sets of keys
          Programs,  \* the programs a client may run
          Built,     \* the calls a client may build
          Kinds      \* of {"PartialMap", "ProofMap"}, the client's store

VARIABLES store,     \* the node's store
          kind,      \* what the client keeps its copy in
          program,   \* the program the client runs
          partial,   \* the client's copy: [map, contiguous, right_edge]
          queries,   \* the queries sent so far
          sent,      \* the message on its way to the node, {} or {message}
          meant,     \* the operation the client meant by it
          reached,   \* what the node ran on receipt of it
          outcome    \* "running", "done", or why execution ended

client_vars == <<store, kind, program, partial, queries, sent, meant, reached, outcome>>

-----------------------------------------------------------------------------
\* The place of each key in the order of keys.
Position == [k \in Keys |-> Cardinality({j \in Keys : Less(j, k)})]

Before(a, b) == Position[a] < Position[b]

(* Reads of a partial map: {} when the data is missing, {<<>>} for no entry,   *)
(* {<<key>>} for an entry.                                                     *)
Above(keys, key) == {k \in keys : Before(key, k)}
Below(keys, key) == {k \in keys : Before(k, key)}
Least(keys) ==
    IF keys = {} THEN <<>> ELSE <<CHOOSE k \in keys : \A j \in keys \ {k} : Before(k, j)>>
Greatest(keys) ==
    IF keys = {} THEN <<>> ELSE <<CHOOSE k \in keys : \A j \in keys \ {k} : Before(j, k)>>

\* Nothing is missing between a key and the next one the map holds.
NoneMissingUpTo(p, next) == IF next = <<>> THEN p.right_edge ELSE next[1] \in p.contiguous
NoneMissing(p, key) == NoneMissingUpTo(p, Least(Above(p.map, key)))

Answer(known, entry) == IF known THEN {entry} ELSE {}

\* A variant: absence is reported without looking at the edges of what is known.
get_SkipsEdge(p, key) == IF key \in p.map THEN {<<key>>} ELSE {<<>>}

get(p, key) == IF key \in p.map THEN {<<key>>} ELSE Answer(NoneMissing(p, key), <<>>)

get_next(p, key) == Answer(NoneMissing(p, key), Least(Above(p.map, key)))

\* With no key before it, from the start of the store.
AnswerPrev(p, prev) == Answer(NoneMissing(p, IF prev = <<>> THEN <<>> ELSE prev[1]), prev)
get_prev(p, key) == AnswerPrev(p, Greatest(Below(p.map, key)))

Read(p, op, key) == CASE op = "get" -> get(p, key)
                      [] op = "next" -> get_next(p, key)
                      [] op = "prev" -> get_prev(p, key)

\* A variant: what the copy knew of its gaps is forgotten.
join_Forgets(p, other) ==
    [map |-> p.map \cup other.map,
     contiguous |-> other.contiguous,
     right_edge |-> other.right_edge]

join(p, other) ==
    [map |-> p.map \cup other.map,
     contiguous |-> p.contiguous \cup other.contiguous,
     right_edge |-> p.right_edge \/ other.right_edge]

Empty == [map |-> {}, contiguous |-> {}, right_edge |-> FALSE]
Full(s) == [map |-> s, contiguous |-> s, right_edge |-> TRUE]

-----------------------------------------------------------------------------
(* What running an operation, a chain or a program on a partial map does: the  *)
(* reads it makes, and the read that could not be answered if there is one.    *)
Missing(p, reads) == {r \in reads : Read(p, r[1], r[2]) = {}}

\* An iteration reads from the edge of its prefix, and from every entry below
\* the prefix it has come to.
Reached(p, op, start, entries) ==
    {k \in entries : \A j \in entries \cup {start} :
        (IF op = "next" THEN Before(j, k) ELSE Before(k, j)) => Read(p, op, j) # {}}
IterationFrom(p, op, start, entries) ==
    {<<op, k>> : k \in {start} \cup Reached(p, op, start, entries)}
Iteration(p, op, prefix) ==
    IterationFrom(p, op, IF op = "next" THEN prefix ELSE increment_bytes(prefix),
                  {k \in p.map : IsPrefix(prefix, k) /\ k # prefix})

Reads(p, op) ==
    CASE op.body = "none" -> {}
      [] op.body = "get" -> {<<"get", op.key>>}
      [] op.body = "iter" -> Iteration(p, "next", op.key)
      [] op.body = "iter_rev" -> Iteration(p, "prev", op.key)

\* A chain goes on after a `get` that found a value.
Ran(p, chain) ==
    {i \in DOMAIN chain : \A j \in 1..(i - 1) : get(p, chain[j].key) = {<<chain[j].key>>}}

ChainReads(p, chain) == UNION {Reads(p, chain[i]) : i \in Ran(p, chain)}

\* The chains of the program run in order, up to the first that misses a read.
RanChains(p) ==
    {c \in DOMAIN program : \A d \in 1..(c - 1) : Missing(p, ChainReads(p, program[d])) = {}}

ProgramMissing(p) == Missing(p, UNION {ChainReads(p, program[c]) : c \in RanChains(p)})

\* The last query method that was called: {} if none was.
Latest(calls) ==
    {t \in calls : \A u \in calls : u[1] < t[1] \/ (u[1] = t[1] /\ u[2] <= t[2])}
LastTrace(p) ==
    {program[t[1]][t[2]] :
        t \in Latest({<<c, i>> \in RanChains(p) \X {1, 2} :
                         i \in Ran(p, program[c]) /\ program[c][i].message # <<>>})}

-----------------------------------------------------------------------------
(* The operations a message stands for: one for each method it goes through.   *)
OpOf(message) ==
    LET r == receiver(App, Prefix, message)
        last == message[Len(message)]
        query == r.ty.queries[last.method]
    IN  [message |-> message, body |-> query.body, key |-> r.prefix \o query.at \o last.args]

ChainOf(message) ==
    LET methods == SelectSeq([i \in DOMAIN message |-> i], LAMBDA i : message[i].method # 0)
    IN  [j \in DOMAIN methods |-> OpOf(SubSeq(message, 1, methods[j]))]

\* Each read adds the range between its key and the entry it found.
ProofRange(key, entry) ==
    CASE entry = <<>> -> <<key, key>>
      [] entry # <<>> /\ Before(entry[1], key) -> <<entry[1], key>>
      [] OTHER -> <<key, entry[1]>>

\* The proof of some ranges holds the entries in them and, where a range
\* reaches into a gap between entries, the entries around the gap.
Shown(k, r, prev, next) ==
    \/ ~Before(k, r[1]) /\ ~Before(r[2], k)
    \/ Before(k, r[2]) /\ (next = <<>> \/ Before(r[1], next[1]))
    \/ Before(r[1], k) /\ prev # <<>> /\ Before(prev[1], r[2])
ProofOf(s, shown) ==
    [map |-> shown,
     contiguous |-> {k \in shown : \A e \in {Greatest(Below(s, k))} : e = <<>> \/ e[1] \in shown},
     right_edge |-> Greatest(s)[1] \in shown]
prove(s, reads) ==
    ProofOf(s, {k \in s : \E read \in reads : \E entry \in Read(Full(s), read[1], read[2]) :
                   Shown(k, ProofRange(read[2], entry), Greatest(Below(s, k)), Least(Above(s, k)))})

-----------------------------------------------------------------------------
ClientInit ==
    /\ store \in Stores /\ kind \in Kinds /\ program \in Programs
    /\ partial = Empty /\ queries = {}
    /\ sent = {} /\ meant = {} /\ reached = {} /\ outcome = "running"

\* A query is sent once; the second time the client gives up.
Fetch(query, op) ==
    IF query \in queries
    THEN outcome' = "did not advance" /\ UNCHANGED <<queries, sent, meant, reached>>
    ELSE /\ queries' = queries \cup {query} /\ sent' = {query}
         /\ meant' = op /\ reached' = {}
         /\ UNCHANGED outcome

Fail == outcome' = "failed" /\ UNCHANGED <<queries, sent, meant, reached>>

RawQuery(read) ==
    [variant |-> CASE read[1] = "get" -> "RawKey"
                   [] read[1] = "next" -> "RawNext"
                   [] read[1] = "prev" -> "RawPrev",
     bytes |-> read[2]]

\* The query for a missing key: the last traced method on the receiver of its
\* type that the key lies in.  {} if there is no such receiver.
Plugins == [id |-> "ABCIPlugin", kind |-> "named",
            fields |-> <<[op |-> "Append", prefix |-> Prefix, call |-> TRUE, public |-> TRUE, ty |-> App]>>]

\* A variant: the number of the method is left out.
TracedQuery_FirstMethod(trace, key) ==
    LET last == trace.message[Len(trace.message)]
        type_id == receiver(App, Prefix, trace.message).ty.id
        bytes == <<PREFIX_OFFSET("query")>> \o last.args
    IN  {After(receiver_pfx, Len(Prefix)) \o bytes :
            receiver_pfx \in resolve_by_type_id(Plugins, type_id, key, <<>>, <<>>)}

TracedQuery(trace, key) ==
    LET last == trace.message[Len(trace.message)]
        type_id == receiver(App, Prefix, trace.message).ty.id
        bytes == <<PREFIX_OFFSET("query") + last.method - 1>> \o last.args
    IN  {After(receiver_pfx, Len(Prefix)) \o bytes :
            receiver_pfx \in resolve_by_type_id(Plugins, type_id, key, <<>>, <<>>)}

\* What the client asks for when a read fails, [query, meant]: the query of the
\* trace, or the raw key where no receiver is found.  {} if that is an error:
\* the reverse reads of a proof map report missing data as another error, and
\* the query put together from the trace may not decode.
Request(read, trace) ==
    LET traced == UNION {TracedQuery(t, read[2]) : t \in trace}
        query == UNION {decode("query", App, b) : b \in traced}
    IN  IF kind = "ProofMap" /\ read[1] = "prev" THEN {}
        ELSE IF traced = {} THEN {[query |-> RawQuery(read), meant |-> {}]}
        ELSE {[query |-> [variant |-> "Query", bytes |-> b], meant |-> {t.message : t \in trace}] :
                 b \in UNION {encode("query", App, q) : q \in query}}

\* One execution of the program, after the application is loaded from its root.
Step ==
    /\ outcome = "running" /\ sent = {}
    /\ IF get(partial, <<>>) # {<<<<>>>>}
       THEN Fetch(RawQuery(<<"get", <<>>>>), {})
       ELSE \E missing \in {ProgramMissing(partial)} :
               \/ /\ missing = {} /\ outcome' = "done"
                  /\ UNCHANGED <<queries, sent, meant, reached>>
               \/ \E read \in missing :
                     \E requests \in {Request(read, LastTrace(partial))} :
                        IF requests = {} THEN Fail
                        ELSE \E r \in requests : Fetch(r.query, r.meant)
    /\ UNCHANGED <<store, kind, program, partial>>

\* A client with no program to run may send a call instead.
SendCall ==
    /\ outcome = "running" /\ program = <<>> /\ queries = {}
    /\ \E call \in Built :
          LET bytes == encode("call", App, call)
          IN  IF bytes = {} THEN Fail
              ELSE Fetch([variant |-> "Call", bytes |-> CHOOSE b \in bytes : TRUE], {call})
    /\ UNCHANGED <<store, kind, program, partial>>

\* The message the node decodes, and the reads a query makes there.
Decoded(query) ==
    CASE query.variant = "Call" -> decode("call", App, query.bytes)
      [] query.variant = "Query" -> decode("query", App, query.bytes)
      [] OTHER -> {}

Answered(query, message) ==
    CASE query.variant = "Call" -> {}
      [] query.variant = "Query" ->
            UNION {ChainReads(Full(store), ChainOf(m)) : m \in message}
      [] query.variant = "RawKey" -> {<<"get", query.bytes>>}
      [] query.variant = "RawNext" -> {<<"next", query.bytes>>}
      [] query.variant = "RawPrev" -> {<<"prev", query.bytes>>}

\* The node loads the application, which reads the root, and runs the query;
\* the client joins the proof of all that was read.
Reply ==
    /\ \E query \in sent : \E message \in {Decoded(query)} :
          /\ reached' = message
          /\ IF query.variant \in {"Call", "Query"} /\ message = {}
             THEN outcome' = "failed" /\ UNCHANGED partial
             ELSE IF query.variant = "Call"
             THEN outcome' = "done" /\ UNCHANGED partial
             ELSE /\ \E proof \in {prove(store, {<<"get", <<>>>>} \cup Answered(query, message))} :
                        partial' = join(partial, proof)
                  /\ UNCHANGED outcome
    /\ sent' = {}
    /\ UNCHANGED <<store, kind, program, queries, meant>>

ClientNext == Step \/ SendCall \/ Reply

ClientSpec == ClientInit /\ [][ClientNext]_client_vars

-----------------------------------------------------------------------------
\* Whatever the client has joined so far, a read of its copy that is answered
\* (the value, its absence, a neighbour) has the answer of the node's store:
\* the edges PartialMapStore::join keeps are never wider than what was proved.
PartialReadsAreRight ==
    \A op \in {"get", "next", "prev"}, key \in Keys :
        Read(partial, op, key) \in {{}, Read(Full(store), op, key)}

\* What the node runs is what the client meant: the bytes put together from the
\* key that could not be read, the descriptor and the trace, or by build_call!,
\* decode to the same method of the same receiver with the same arguments.
MessagesReachTheirReceiver == reached # {} => reached = meant

\* The client never gives up on a program whose reads are all traced, or all
\* untraced: every proof brings the read that failed, so that no query is sent
\* twice and, there being finitely many, the program ends.  Only a program that
\* reads a proof map backwards fails, with the error that is not fetched for.
ExecutionNeverGivesUp ==
    \/ outcome \in {"running", "done"}
    \/ /\ outcome = "failed" /\ kind = "ProofMap"
       /\ \E c \in DOMAIN program : \E i \in DOMAIN program[c] : program[c][i].body = "iter_rev"

\* As the documentation of `execute` has it, execution only gives up on data it
\* has already tried to fetch: missing data is fetched, by a query or by key.
MissingDataIsFetched ==
    outcome = "did not advance" =>
        \A read \in ProgramMissing(partial) : RawQuery(read) \in queries
=============================================================================
