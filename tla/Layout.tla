--------------------------------- MODULE Layout ---------------------------------
(* How versioned types are laid out in bytes and in the store, as the macros  *)
(* of `#[orga]` and the State implementations of plain types have it.         *)
(*                                                                            *)
(* A type is a record with a kind: "plain" (one byte), "option", "vec" and    *)
(* "array" (of n) of a type ty, "map" from a key to a value type, or "struct" *)
(* with its fields.  A struct is versioned, and has its previous version ({} or*)
(* {type}), or is not (a tuple, Deque, EntryMap).  A field is [name, versions, *)
(* channels, prefix, absolute, skip, transparent, ty, from]: versions, channels*)
(* and prefix are {} unless declared, and from is the field of the previous   *)
(* version it is made of ("" for a default).                                  *)
(* Values: a byte, a sequence, a function of keys, a function of names.       *)
(* The store is a function of keys.  Results that may be errors are sets.     *)
EXTENDS Bytes, SequencesExt, TLC

CONSTANT Plain  \* the bytes a plain value may be

Without(st, keys) == [k \in DOMAIN st \ keys |-> st[k]]
After(bytes, n) == SubSeq(bytes, n + 1, Len(bytes))
Under(st, prefix) == {k \in DOMAIN st : IsPrefix(prefix, k)}

-----------------------------------------------------------------------------
(* The versions of a declared type: [start, end, fields].                      *)
InVersion(f, n, channel) ==
    (f.versions = {} \/ n \in f.versions) /\ (f.channels = {} \/ channel \in f.channels)

VersionSpec(decl) == [i \in 1..(decl.end - decl.start + 1) |-> decl.start + i - 1]

\* One struct per version, of the fields declared for it.
substruct_for_version_channel(decl, n, channel, maybe_prev) ==
    [kind |-> "struct", versioned |-> TRUE, version |-> n, previous |-> maybe_prev,
     fields |-> SelectSeq(decl.fields, LAMBDA f : InVersion(f, n, channel))]

\* The last version, with those before it behind it.
all_substructs(decl, channel) ==
    LET last == FoldLeft(LAMBDA prev, n : {substruct_for_version_channel(decl, n, channel, prev)},
                         {}, VersionSpec(decl))
    IN  CHOOSE T \in last : TRUE

-----------------------------------------------------------------------------
(* The fields that are state, and the prefix of each: the declared one, none   *)
(* for a transparent field, or the number of relative prefixes before it.      *)
transparent_inner(T) == {i \in DOMAIN T.fields : T.fields[i].transparent}
stored_fields(T) == SelectSeq(T.fields, LAMBDA f : ~f.skip)
state_fields(T) ==
    IF transparent_inner(T) # {} THEN SelectSeq(T.fields, LAMBDA f : f.transparent)
    ELSE stored_fields(T)

ensure_prefixes(T, f) ==
    LET at == CHOOSE i \in DOMAIN T.fields : T.fields[i].name = f.name
        before == {i \in 1..(at - 1) : ~T.fields[i].skip /\ ~T.fields[i].absolute}
    IN  IF f.prefix # {} THEN CHOOSE p \in f.prefix : TRUE
        ELSE IF f.transparent THEN <<>> ELSE <<Cardinality(before)>>
field_keyop(T, f, prefix) ==
    IF f.absolute THEN ensure_prefixes(T, f) ELSE prefix \o ensure_prefixes(T, f)

Names(fields) == {f.name : f \in Range(fields)}
FieldOf(T, n) == CHOOSE f \in Range(T.fields) : f.name = n

\* The prefix of an element of an array of `max` elements, and of a vector.
varint(n, max) == IF max < 255 THEN <<n>> ELSE <<n \div 256, n % 256>>
U64(n) == <<0, 0, 0, 0, 0, 0, 0, n>>
ElementPrefix(T, i) == IF T.kind = "array" THEN varint(i - 1, T.n) ELSE U64(i - 1)

VersionByte(T, compat) == IF T.versioned /\ ~compat THEN <<T.version>> ELSE <<>>

-----------------------------------------------------------------------------
\* The bytes of a key: a plain value, or a struct of them.
encode(T, v, compat) ==
    IF T.kind = "plain" THEN <<v>>
    ELSE VersionByte(T, compat) \o [i \in DOMAIN T.fields |-> v[T.fields[i].name]]

\* The values a key type has.
KeyValues(T) == IF T.kind = "plain" THEN Plain ELSE [Names(T.fields) -> Plain]

(* The bytes of a value, without those a map puts in the store.                *)
RECURSIVE flush(_, _, _)
FlushOption(T, v, compat) == IF v = <<>> THEN <<0>> ELSE <<1>> \o flush(T.ty, v[1], compat)
FlushElements(T, v, compat) == FlattenSeq([i \in DOMAIN v |-> flush(T.ty, v[i], compat)])
FlushStruct(T, v, compat) ==
    VersionByte(T, compat)
    \o FlattenSeq([i \in DOMAIN state_fields(T) |->
                      flush(state_fields(T)[i].ty, v[state_fields(T)[i].name], compat)])
flush(T, v, compat) ==
    CASE T.kind = "plain" -> <<v>>
      [] T.kind = "map" -> <<>>
      [] T.kind = "option" -> FlushOption(T, v, compat)
      [] T.kind \in {"array", "vec"} -> FlushElements(T, v, compat)
      [] T.kind = "struct" -> FlushStruct(T, v, compat)

(* The entries the maps of a value put in the store.                           *)
RECURSIVE attach(_, _, _, _, _)
AttachElements(T, v, prefix, inserted, compat) ==
    FoldLeft(LAMBDA st, i : attach(T.ty, v[i], prefix \o ElementPrefix(T, i), inserted, compat) @@ st,
             <<>>, [i \in DOMAIN v |-> i])
AttachStruct(T, v, prefix, inserted, compat) ==
    FoldLeft(LAMBDA st, f : attach(f.ty, v[f.name], field_keyop(T, f, prefix), inserted, compat) @@ st,
             <<>>, state_fields(T))

\* A map's key was encoded when it was inserted: that is where the children of
\* the value are attached.  It is encoded again when the map is flushed.
AttachMap(T, v, prefix, inserted, compat) ==
    FoldLeft(LAMBDA st, k :
                (prefix \o encode(T.key, k, compat) :> flush(T.value, v[k], compat))
                @@ attach(T.value, v[k], prefix \o encode(T.key, k, inserted), inserted, compat)
                @@ st,
             <<>>, SetToSeq(DOMAIN v))
attach(T, v, prefix, inserted, compat) ==
    CASE T.kind = "plain" -> <<>>
      [] T.kind = "option" ->
            IF v = <<>> THEN <<>> ELSE attach(T.ty, v[1], prefix, inserted, compat)
      [] T.kind \in {"array", "vec"} -> AttachElements(T, v, prefix, inserted, compat)
      [] T.kind = "struct" -> AttachStruct(T, v, prefix, inserted, compat)
      [] T.kind = "map" -> AttachMap(T, v, prefix, inserted, compat)

-----------------------------------------------------------------------------
RECURSIVE Default(_)
Default(T) ==
    CASE T.kind = "plain" -> 0
      [] T.kind = "array" -> [i \in 1..T.n |-> Default(T.ty)]
      [] T.kind = "struct" -> [n \in Names(state_fields(T)) |-> Default(FieldOf(T, n).ty)]
      [] OTHER -> <<>>

(* Loading a value from its bytes and, through its maps, from the store:       *)
(* {[v, rest]}.                                                                *)
RECURSIVE load(_, _, _, _)
RECURSIVE load_elements(_, _, _, _, _)
RECURSIVE load_child(_, _, _, _, _, _)
LoadPlain(bytes) == IF bytes = <<>> THEN {} ELSE {[v |-> Head(bytes), rest |-> Tail(bytes)]}
LoadOption(T, st, prefix, bytes) ==
    IF bytes = <<>> THEN {}
    ELSE IF Head(bytes) = 0 THEN {[v |-> <<>>, rest |-> Tail(bytes)]}
    ELSE {[r EXCEPT !.v = <<r.v>>] : r \in load(T.ty, st, prefix, Tail(bytes))}
LoadMap(T, st, prefix, bytes) ==
    LET at == [k \in KeyValues(T.key) |-> prefix \o encode(T.key, k, FALSE)]
        found == {k \in KeyValues(T.key) : at[k] \in DOMAIN st}
        loaded == [k \in found |-> load(T.value, st, at[k], st[at[k]])]
    IN  IF \E k \in found : loaded[k] = {} THEN {}
        ELSE {[v |-> [k \in found |-> (CHOOSE r \in loaded[k] : TRUE).v], rest |-> bytes]}

\* An array has its length, a vector ends with the bytes.
AllElements(T, bytes, v) == IF T.kind = "array" THEN Len(v) = T.n ELSE bytes = <<>>
load_elements(T, st, prefix, bytes, v) ==
    IF AllElements(T, bytes, v) THEN {[v |-> v, rest |-> bytes]}
    ELSE UNION {load_elements(T, st, prefix, r.rest, Append(v, r.v)) :
                   r \in load(T.ty, st, prefix \o ElementPrefix(T, Len(v) + 1), bytes)}

\* The version byte is taken with the first field, and checked unless that is a
\* transparent one.
load_child(T, st, prefix, bytes, i, v) ==
    IF i > Len(state_fields(T)) THEN {[v |-> v, rest |-> bytes]}
    ELSE IF i = 1 /\ transparent_inner(T) = {} /\ ~IsPrefix(VersionByte(T, FALSE), bytes) THEN {}
    ELSE LET f == state_fields(T)[i]
         IN  UNION {load_child(T, st, prefix, r.rest, i + 1, (f.name :> r.v) @@ v) :
                       r \in load(f.ty, st, field_keyop(T, f, prefix),
                                  IF i = 1 THEN After(bytes, Len(VersionByte(T, FALSE))) ELSE bytes)}

load(T, st, prefix, bytes) ==
    CASE T.kind = "plain" -> LoadPlain(bytes)
      [] T.kind = "option" -> LoadOption(T, st, prefix, bytes)
      [] T.kind = "map" -> LoadMap(T, st, prefix, bytes)
      [] T.kind \in {"array", "vec"} -> load_elements(T, st, prefix, bytes, <<>>)
      [] T.kind = "struct" -> load_child(T, st, prefix, bytes, 1, <<>>)
=============================================================================
