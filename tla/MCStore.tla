-------------------------------- MODULE MCStore --------------------------------
(***************************************************************************)
(* The stores: ordered reads and iteration through a stack of them, on     *)
(* byte strings of up to two bytes where 1 plays the part of 255; and how  *)
(* a state is laid out in a store, when a new build migrates it.  A        *)
(* behaviour is one of the component that which names, and the other stays *)
(* as it was.                                                              *)
(***************************************************************************)
EXTENDS Migration

CONSTANTS BottomIsMerk, Absent, Clean

VARIABLES which, layers, tree, writes, iter, stable, calls

-----------------------------------------------------------------------------
(* Types of three builds, and the values of their states. *)

Byte == [kind |-> "plain"]
OptionOf(T) == [kind |-> "option", ty |-> T]
ArrayOf(T, n) == [kind |-> "array", ty |-> T, n |-> n]
VecOf(T) == [kind |-> "vec", ty |-> T]
MapOf(K, V) == [kind |-> "map", key |-> K, value |-> V]
Declared(name, ty, from) ==
    [name |-> name, versions |-> {}, channels |-> {}, prefix |-> {}, absolute |-> FALSE,
     skip |-> FALSE, transparent |-> FALSE, ty |-> ty, from |-> from]
Since(n, f) == [f EXCEPT !.versions = n..9]
Until(n, f) == [f EXCEPT !.versions = 0..n]
StructOf(end, fields) ==
    CHOOSE T \in {all_substructs(decl, "Mainnet") :
                      decl \in {[start |-> 0, end |-> end, fields |-> fields]}} : TRUE
UnversionedOf(fields) ==
    [kind |-> "struct", versioned |-> FALSE, version |-> 0, fields |-> fields, previous |-> {}]

KeyOf(end) == StructOf(end, <<Declared("k", Byte, "k")>>)
Deque == UnversionedOf(<<[Declared("meta", StructOf(0, <<Declared("head", Byte, "")>>), "") EXCEPT !.prefix = {<<>>}],
                   [Declared("map", MapOf(Byte, Byte), "") EXCEPT !.prefix = {<<>>}]>>)
\* A value with a map, and what its second version adds: a field that is not
\* stored, one before the map, and one of another channel.
Inner(end) ==
    StructOf(end, <<Since(1, [Declared("cache", Byte, "") EXCEPT !.skip = TRUE]),
                    Since(1, Declared("x", Byte, "")),
                    Since(1, [Declared("t", Byte, "") EXCEPT !.channels = {"Testnet"}]),
                    Declared("n", MapOf(Byte, Byte), "n")>>)
Wrapper(T) == StructOf(0, <<[Declared("inner", T, "inner") EXCEPT !.transparent = TRUE]>>)
\* In its second version the root drops a map, and two maps change places.
Root(end, K, V) ==
    StructOf(end, <<Declared("o", OptionOf(KeyOf(0)), "o"),
                    Until(0, Declared("m", MapOf(K, V), "")),
                    Declared("q", Deque, "q"),
                    Since(1, Declared("m", MapOf(K, V), "m")),
                    Until(0, [Declared("g", MapOf(Byte, Byte), "") EXCEPT !.prefix = {<<9>>}, !.absolute = TRUE]),
                    Since(1, [Declared("g", MapOf(Byte, Byte), "g") EXCEPT !.prefix = {<<5>>}, !.absolute = TRUE]),
                    Until(0, Declared("d", MapOf(Byte, Byte), "")),
                    Declared("a", ArrayOf(Wrapper(V), 2), "a"),
                    Declared("l", VecOf(K), "l")>>)
\* The first build; one whose inner type has a new version; and one whose key and
\* own types have new versions.
MCBuilds(K0, K1) == <<Root(0, K0, Inner(0)), Root(0, K0, Inner(1)), Root(1, K1, Inner(1))>>

MCPlain == {0, 1}
Bytewise == UNION {[K -> {1}] : K \in SUBSET MCPlain}
ValuesWith(keys, key) ==
    {[o |-> o, m |-> m, q |-> [meta |-> [head |-> 1], map |-> q], g |-> (1 :> 1), d |-> (0 :> 1),
      a |-> <<[inner |-> [n |-> <<>>]], [inner |-> [n |-> (0 :> 1)]]>>, l |-> <<key>>] :
        o \in {<<>>, <<[k |-> 1]>>}, q \in {<<>>, 1 :> 1},
        m \in UNION {[K -> {[n |-> n] : n \in Bytewise}] : K \in SUBSET keys}}

ChainOf(K0, K1, keys, key, start) ==
    [builds |-> MCBuilds(K0, K1), values |-> ValuesWith(keys, key), versions |-> {start}]
Keys == [{"k"} -> MCPlain]
MCChains == [versioned |-> ChainOf(KeyOf(0), KeyOf(1), Keys, [k |-> 1], 1),
             legacy |-> ChainOf(Byte, Byte, MCPlain, 1, 0)]
\* A store from before versions, with keys that have one now.
LegacyKeys == [legacy |-> ChainOf(KeyOf(0), KeyOf(1), Keys, [k |-> 1], 0)]
MCVersionKey == <<47>>

-----------------------------------------------------------------------------
(* The stack of stores. *)

ByteString == UNION {[1..n -> 0..1] : n \in 0..2}

Holding(keys) == [k \in ByteString |-> IF k \in keys THEN 1 ELSE Absent]

Unbounded == [kind |-> "Unbounded", key |-> <<>>]

\* The prefixes do not end in the largest byte.
Stack == INSTANCE StoreIteration WITH
           Key <- ByteString, Value <- {1, 2}, MaxByte <- 1, MaxWrites <- 2, MaxCalls <- 4,
           InitialTrees <- {Holding(ks) : ks \in {{}, {<<0>>, <<0, 1>>},
                                                  {<<>>, <<0, 0>>, <<1>>, <<1, 1>>}}},
           StorePrefixes <- {<<>>, <<0>>, <<0, 0>>, <<1, 0>>},
           Ranges <- {<<Unbounded, Unbounded>>,
                      <<[kind |-> "Included", key |-> <<0>>],
                        [kind |-> "Excluded", key |-> <<1>>]>>,
                      <<[kind |-> "Excluded", key |-> <<>>],
                        [kind |-> "Included", key |-> <<0, 1>>]>>}

ASSUME Stack!RangesAssumption

kvars == <<layers, tree, writes, iter, stable, calls>>

\* A component that is not chosen starts in one of its initial states.
MCInit ==
    /\ which \in {"stack", "migration"}
    /\ \/ which = "migration"
       \/ which = "stack" /\ chain = "legacy" /\ want = CHOOSE v \in Chains[chain].values : TRUE
    /\ Init
    /\ Stack!Init /\ (which # "stack" => tree = Holding({}))

MCNext ==
    \/ which = "stack" /\ Stack!Next /\ UNCHANGED <<which, vars>>
    \/ which = "migration" /\ Next /\ UNCHANGED <<which, kvars>>

MCSpec == MCInit /\ [][MCNext]_<<which, vars, kvars>>

-----------------------------------------------------------------------------
\* Ordered reads agree with reads by key (StoreIteration).
OrderedReadsMatchPointReads == which = "stack" => Stack!OrderedReadsMatchPointReads
\* A Store reads the entries under its prefix (StoreIteration).
StoresAreConfined == which = "stack" => Stack!StoresAreConfined
\* An Iter yields every entry once, in order (StoreIteration).
IterationIsExact == which = "stack" => Stack!IterationIsExact
\* The store on disk, and what a build that starts reads of it, is the value
\* the chain has agreed on (Migration).
MigrationKeepsState == which = "migration" => StoreHoldsState /\ AppSeesState
===============================================================================
