------------------------------- MODULE IbcPaths --------------------------------
(* The keys of the IBC maps.  Some of them are put at absolute prefixes and    *)
(* encoded so that their bytes are the paths another chain asks a proof of;    *)
(* all of them share the root store.  A byte is a character, and the words of  *)
(* the paths are cut down to letters that keep which is a prefix of which.     *)
(* A result that may be an error is a set.                                     *)
EXTENDS Naturals, Sequences, FiniteSets, SequencesExt, TLC

CONSTANTS ClientId, ConnectionId, PortId, ChannelId, Denom, Address, \* texts
          Sequence, Height,                                          \* numbers
          MaxHeld

VARIABLES store,    \* the keys of the root store
          held,     \* <<map, key>>: what was put into the maps and not removed
          removed   \* <<map, key>>: what was ever removed

vars == <<store, held, removed>>

-----------------------------------------------------------------------------
(* The encodings.                                                              *)
Digit == <<"1", "2", "3", "4", "5", "6", "7", "8", "9">>
Decimal(n) == IF n = 0 THEN "0" ELSE Digit[n]
ToText(n) == IF n < 10 THEN <<Decimal(n)>> ELSE <<Decimal(n \div 10), Decimal(n % 10)>>

\* T::from_str(text), for a T whose texts are those of its values
Parse(T, text) == {v \in DOMAIN T : T[v] = text}
Texts(S) == [s \in S |-> s]
Numbers(S) == [v \in {<<ToString(n)>> : n \in S} |-> ToText(CHOOSE n \in S : <<ToString(n)>> = v)]
HeightTexts(S) == [v \in DOMAIN Numbers(S) |-> <<"0", "-">> \o Numbers(S)[v]]

FixedString(s) == [kind |-> "fixed", text |-> s]
ByteTerminatedString(b, T) == [kind |-> "byte", byte |-> b, ty |-> T]
EofTerminatedString(T) == [kind |-> "eof", ty |-> T]
LengthVec(T) == [kind |-> "length", ty |-> T]

EncodeByteTerminated_Open(f, v) == f.ty[v]

EncodeByteTerminated(f, v) == f.ty[v] \o <<f.byte>>
EncodeLengthVec(f, v) == <<Decimal(Len(f.ty[v]))>> \o f.ty[v]
EncodeField(f, v) ==
    CASE f.kind = "fixed" -> f.text
      [] f.kind = "byte" -> EncodeByteTerminated(f, v)
      [] f.kind = "eof" -> f.ty[v]
      [] f.kind = "length" -> EncodeLengthVec(f, v)

After(bytes, n) == SubSeq(bytes, n + 1, Len(bytes))

\* {[v, rest]}
DecodeFixed(f, bytes) ==
    IF IsPrefix(f.text, bytes) THEN {[v |-> <<>>, rest |-> After(bytes, Len(f.text))]} ELSE {}

\* up to the byte, or to the end
DecodeByteTerminated(f, bytes) ==
    LET ends == {i \in DOMAIN bytes : bytes[i] = f.byte}
        end == IF ends = {} THEN Len(bytes) + 1
               ELSE CHOOSE i \in ends : \A j \in ends : i <= j
    IN  {[v |-> v, rest |-> After(bytes, end)] : v \in Parse(f.ty, SubSeq(bytes, 1, end - 1))}

DecodeEof(f, bytes) == {[v |-> v, rest |-> <<>>] : v \in Parse(f.ty, bytes)}

DecodeLengthVec(f, bytes) ==
    {[v |-> v, rest |-> After(bytes, n + 1)] :
        <<n, v>> \in {<<n, v>> \in (0..Len(bytes)) \X DOMAIN f.ty :
                        /\ bytes # <<>> /\ Head(bytes) = Decimal(n)
                        /\ n < Len(bytes) /\ f.ty[v] = SubSeq(bytes, 2, n + 1)}}

DecodeField(f, bytes) ==
    CASE f.kind = "fixed" -> DecodeFixed(f, bytes)
      [] f.kind = "byte" -> DecodeByteTerminated(f, bytes)
      [] f.kind = "eof" -> DecodeEof(f, bytes)
      [] f.kind = "length" -> DecodeLengthVec(f, bytes)

\* A key is a tuple of fields, one after the other.
encode(fields, key) == FlattenSeq([i \in DOMAIN fields |-> EncodeField(fields[i], key[i])])
decode(fields, bytes) ==
    FoldLeft(LAMBDA rs, f : UNION {{[v |-> Append(r.v, d.v), rest |-> d.rest] :
                                        d \in DecodeField(f, r.rest)} : r \in rs},
             {[v |-> <<>>, rest |-> bytes]}, fields)

FieldValues(f) == IF f.kind = "fixed" THEN {<<>>} ELSE DOMAIN f.ty
Keys(fields) ==
    FoldLeft(LAMBDA keys, f : {Append(key, v) : key \in keys, v \in FieldValues(f)}, {<<>>}, fields)

-----------------------------------------------------------------------------
(* The key types and the maps.                                                 *)
SlashTerminatedString(T) == ByteTerminatedString("/", T)
ClientIdKey == <<SlashTerminatedString(Texts(ClientId))>>
ConnectionIdKey == <<EofTerminatedString(Texts(ConnectionId))>>
EpochHeight == <<EofTerminatedString(HeightTexts(Height))>>
PortChannel ==
    <<FixedString(<<"p", "/">>), SlashTerminatedString(Texts(PortId)),
      FixedString(<<"h", "/">>), EofTerminatedString(Texts(ChannelId))>>
PortChannelSequence ==
    <<FixedString(<<"p", "/">>), SlashTerminatedString(Texts(PortId)),
      FixedString(<<"h", "/">>), SlashTerminatedString(Texts(ChannelId)),
      FixedString(<<"s", "/">>), EofTerminatedString(Numbers(Sequence))>>

Map(prefix, key) == [prefix |-> prefix, key |-> key]

\* The fields of IbcContext with absolute prefixes.
clients == Map(<<"c", "l", "/">>, ClientIdKey)
commitments == Map(<<"c", "m", "/">>, PortChannelSequence)
acks == Map(<<"a", "/">>, PortChannelSequence)
IbcContext ==
    {clients, commitments, acks, Map(<<"c", "o", "/">>, ConnectionIdKey),
     Map(<<"c", "h", "/">>, PortChannel), Map(<<"r", "/">>, PortChannelSequence)}

\* Those of a Client, below its key.
Below(id) == clients.prefix \o encode(ClientIdKey, <<id>>)
updates(id) == Map(Below(id) \o <<"u", "/">>, EpochHeight)
Client(id) ==
    {updates(id), Map(Below(id) \o <<"c", "l">>, <<FixedString(<<"S">>)>>),
     Map(Below(id) \o <<"c", "s", "/">>, EpochHeight), Map(Below(id) \o <<"c", "o", "/">>, ConnectionIdKey)}

\* The balances of the transfer module, a map of maps at a relative prefix.
accounts == Map(<<"t">>, <<LengthVec(Texts(Denom))>>)
balances(d) == Map(accounts.prefix \o encode(accounts.key, <<d>>), <<EofTerminatedString(Texts(Address))>>)
Accounts == {accounts} \cup {balances(d) : d \in Denom}

Maps == IbcContext \cup Accounts \cup UNION {Client(id) : id \in ClientId}

\* The maps that the code removes from.
Removable == {commitments, acks} \cup {updates(id) : id \in ClientId}

Owners == {clients, accounts}

\* The entry whose value the map is a part of.
Owner(map) ==
    {<<clients, <<id>>>> : id \in {id \in ClientId : map \in Client(id)}} \cup
    {<<accounts, <<d>>>> : d \in {d \in Denom : map = balances(d)}}

Init == store = {} /\ held = {} /\ removed = {}

Bytes(map, key) == map.prefix \o encode(map.key, key)

\* with the owner of the map, which comes with its first entry
insert(map, key) ==
    LET entries == Owner(map) \cup {<<map, key>>}
    IN  /\ Cardinality({e \in held \cup removed \cup entries : e[1] \notin Owners}) <= MaxHeld
        /\ store' = store \cup {Bytes(e[1], e[2]) : e \in entries}
        /\ held' = held \cup entries
        /\ UNCHANGED removed

\* a key that is there goes, and with it, at the flush, all that begin with it
remove(map, key) ==
    /\ store' = IF Bytes(map, key) \in store
                THEN {b \in store : ~IsPrefix(Bytes(map, key), b)} ELSE store
    /\ held' = held \ {<<map, key>>}
    /\ removed' = removed \cup {<<map, key>>}

Next ==
    \/ \E map \in Maps \ Owners : \E key \in Keys(map.key) : insert(map, key)
    \/ \E <<map, key>> \in held : map \in Removable /\ remove(map, key)

Spec == Init /\ [][Next]_vars

-----------------------------------------------------------------------------
\* Map::iter goes from a key to the next one that does not begin with it; a key
\* that cannot be decoded is an error, which is no key.
iter(map) ==
    LET below == {b \in store : IsPrefix(map.prefix, b) /\ b # map.prefix}
    IN  UNION {LET rs == decode(map.key, After(bytes, Len(map.prefix)))
               IN  IF rs = {} THEN {<<>>} ELSE {r.v : r \in rs} :
                  bytes \in {b \in below : \A c \in below : IsPrefix(c, b) => c = b}}

\* The path, in the text of the ibc library, that a proof is asked for
Path(map, key) ==
    FlattenSeq(<<map.prefix>> \o [i \in DOMAIN map.key |->
        CASE map.key[i].kind = "fixed" -> map.key[i].text
          [] map.key[i].kind = "byte" -> map.key[i].ty[key[i]] \o <<"/">>
          [] map.key[i].kind = "eof" -> map.key[i].ty[key[i]]
          [] map.key[i].kind = "length" -> map.key[i].ty[key[i]]])

\* abci_query: the bytes of the path are the key
abci_query(path) == path \in store

\* The bytes of the one key are the beginning of those of the other.
Begins(map, other, key) == other # key /\ IsPrefix(Bytes(map, other), Bytes(map, key))

\* Whatever the other maps of the same store hold: iterating a map yields only
\* what was put into it and not removed, and the path of an entry finds nothing
\* else.  An entry's path finds it unless an entry of its map whose key begins
\* its own was removed, which also deletes it, and iterating yields it unless
\* that happened or an entry whose key begins its own is there, which hides it.
PathsFindTheirEntries ==
    /\ \A map \in Maps : \A key \in iter(map) : <<map, key>> \in held
    /\ \A map \in Maps \ Accounts : \A key \in Keys(map.key) :
           abci_query(Path(map, key)) => <<map, key>> \in held
    /\ \A <<map, key>> \in held :
           LET Beginning(entries) ==
                   \E other \in Keys(map.key) : <<map, other>> \in entries /\ Begins(map, other, key)
           IN  /\ map \notin Accounts => abci_query(Path(map, key)) \/ Beginning(removed)
               /\ key \in iter(map) \/ Beginning(removed) \/ Beginning(held)
===============================================================================
