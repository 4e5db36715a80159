------------------------------- MODULE Migration -------------------------------
(* Versioned state in the store, and how a node migrates it when a new build  *)
(* of the application changes its types.                                      *)
EXTENDS Layout

CONSTANTS Chains,      \* by name, [builds: the application's type in each build,
                       \* values: its values in the first, versions: of its store]
          VERSION_KEY  \* where the store itself records its version

VARIABLES chain,    \* the chain the node is on
          store,    \* the store on disk
          version,  \* the build it was written by, its auxiliary data; 0 for a legacy store
          build,    \* the build that is installed
          app,      \* the running application, {} or {value}
          pending,  \* a migrated store not yet written, {} or {[store, value]}
          want      \* history: the value the chain has agreed on

vars == <<chain, store, version, build, app, pending, want>>

-----------------------------------------------------------------------------
\* The value of a new version made of one of the version before it.
migrate_from(T, prev) ==
    [n \in Names(state_fields(T)) |->
        IF FieldOf(T, n).from = "" THEN Default(FieldOf(T, n).ty) ELSE prev[FieldOf(T, n).from]]

\* The next entry of a map that is iterated over while its entries are removed.
NextKey(st, prefix, from) ==
    LET left == {k \in Under(st, prefix) : k # prefix /\ ~Less(k, prefix \o from)}
    IN  {k \in left : \A j \in left \ {k} : Less(k, j)}

\* Migration of a value: [v, rest, store], the store without the entries of the
\* maps, which are now in memory.
RECURSIVE migrate(_, _, _, _, _)
RECURSIVE migrate_fields(_, _, _, _, _, _, _)
RECURSIVE migrate_elements(_, _, _, _, _, _)
RECURSIVE migrate_entries(_, _, _, _, _, _, _)

\* A variant: the entry is removed before its value is migrated.
migrate_entries_RemovesFirst(T, st, prefix, bytes, compat, from, v) ==
    IF NextKey(st, prefix, from) = {} THEN {[v |-> v, rest |-> bytes, store |-> st]}
    ELSE UNION {
        LET k == After(at, Len(prefix)) IN
        UNION {migrate_entries(T, s.store, prefix, bytes, compat, increment_bytes(k),
                               (r.v :> s.v) @@ v) :
                  r \in migrate(T.key, <<>>, <<>>, k, compat),
                  s \in migrate(T.value, Without(st, Under(st, at)), at, st[at], compat)} :
        at \in NextKey(st, prefix, from)}

migrate_entries(T, st, prefix, bytes, compat, from, v) ==
    IF NextKey(st, prefix, from) = {} THEN {[v |-> v, rest |-> bytes, store |-> st]}
    ELSE UNION {
        LET k == After(at, Len(prefix)) IN
        UNION {migrate_entries(T, Without(s.store, Under(s.store, at)), prefix, bytes, compat,
                               increment_bytes(k), (r.v :> s.v) @@ v) :
                  r \in migrate(T.key, <<>>, <<>>, k, compat),
                  s \in migrate(T.value, st, at, st[at], compat)} :
        at \in NextKey(st, prefix, from)}

migrate_elements(T, st, prefix, bytes, compat, v) ==
    IF AllElements(T, bytes, v) THEN {[v |-> v, rest |-> bytes, store |-> st]}
    ELSE UNION {migrate_elements(T, r.store, prefix, r.rest, compat, Append(v, r.v)) :
                   r \in migrate(T.ty, st, prefix \o ElementPrefix(T, Len(v) + 1), bytes, compat)}

\* Every field that is not skipped is migrated, of a transparent type as well.
migrate_fields(T, st, prefix, bytes, compat, i, v) ==
    IF i > Len(stored_fields(T)) THEN {[v |-> v, rest |-> bytes, store |-> st]}
    ELSE LET f == stored_fields(T)[i]
         IN  UNION {migrate_fields(T, r.store, prefix, r.rest, compat, i + 1, (f.name :> r.v) @@ v) :
                       r \in migrate(f.ty, st, field_keyop(T, f, prefix), bytes, compat)}

\* A value of this version is migrated field by field, one of another version
\* as the version before, which is then converted.
MigrateStruct(T, st, prefix, bytes, compat) ==
    IF ~T.versioned \/ (compat /\ T.version = 0)
    THEN migrate_fields(T, st, prefix, bytes, compat, 1, <<>>)
    ELSE IF ~compat /\ bytes # <<>> /\ Head(bytes) = T.version
    THEN migrate_fields(T, st, prefix, Tail(bytes), compat, 1, <<>>)
    ELSE UNION {{[r EXCEPT !.v = migrate_from(T, r.v)] :
                    r \in migrate(P, st, prefix, bytes, compat)} : P \in T.previous}

MigrateOption(T, st, prefix, bytes, compat) ==
    IF bytes = <<>> THEN {}
    ELSE IF Head(bytes) = 0 THEN {[v |-> <<>>, rest |-> Tail(bytes), store |-> st]}
    ELSE {[r EXCEPT !.v = <<r.v>>] : r \in migrate(T.ty, st, prefix, Tail(bytes), compat)}

migrate(T, st, prefix, bytes, compat) ==
    CASE T.kind = "plain" -> {[v |-> r.v, rest |-> r.rest, store |-> st] : r \in LoadPlain(bytes)}
      [] T.kind = "option" -> MigrateOption(T, st, prefix, bytes, compat)
      [] T.kind = "map" -> migrate_entries(T, st, prefix, bytes, compat, <<>>, <<>>)
      [] T.kind \in {"array", "vec"} -> migrate_elements(T, st, prefix, bytes, compat, <<>>)
      [] T.kind = "struct" -> MigrateStruct(T, st, prefix, bytes, compat)

-----------------------------------------------------------------------------
(* The node.  The application is the inner value of ABCIPlugin, below prefix 0 *)
(* of the root; the plugin's own maps are below 1 and stay where they are.     *)
InnerPrefix == <<0>>
PluginEntry == <<1, 7>>

Image(T, v, compat) ==
    (<<>> :> (IF compat THEN <<>> ELSE <<0>>) \o flush(T, v, compat))
    @@ attach(T, v, InnerPrefix, compat, compat)
    @@ (PluginEntry :> <<7>>)

Versioned(st, n) == (VERSION_KEY :> <<1, n>>) @@ st

Builds == Chains[chain].builds

\* The store with which version n holds a value.
Written(n, v) == IF n = 0 THEN Image(Builds[1], v, TRUE) ELSE Versioned(Image(Builds[n], v, FALSE), n)

Init ==
    /\ chain \in DOMAIN Chains
    /\ want \in Chains[chain].values /\ version \in Chains[chain].versions
    /\ store = Written(version, want)
    /\ build = 1 /\ app = {} /\ pending = {}

\* Another build is put in place of one that is not running.
Install ==
    /\ app = {} /\ pending = {}
    /\ build' \in (build + 1)..Len(Builds)
    /\ UNCHANGED <<chain, store, version, app, pending, want>>

\* Node::migrate up to the write: a node of another version reads its whole
\* store, and attaches and flushes the migrated value over what is left of it.
Migrate ==
    /\ app = {} /\ pending = {} /\ version # build
    /\ LET compat == version = 0
           bytes == After(store[<<>>], IF compat THEN 0 ELSE 1)
       IN  \E r \in migrate(Builds[build], store, InnerPrefix, bytes, compat) :
              pending' = {[store |-> Versioned(
                              (<<>> :> <<0>> \o flush(Builds[build], r.v, FALSE))
                              @@ attach(Builds[build], r.v, InnerPrefix, compat, FALSE)
                              @@ r.store, build),
                           value |-> r.v]}
    /\ UNCHANGED <<chain, store, version, build, app, want>>

\* What a value of one type is in another build's version of that type.
RECURSIVE Converted(_, _, _)
Converted(T, S, v) ==
    CASE T.kind = "plain" -> v
      [] T.kind \in {"option", "array", "vec"} -> [i \in DOMAIN v |-> Converted(T.ty, S.ty, v[i])]
      [] T.kind = "map" ->
            LET Key(k) == Converted(T.key, S.key, k)
            IN  [k \in {Key(j) : j \in DOMAIN v} |->
                    Converted(T.value, S.value, v[CHOOSE j \in DOMAIN v : Key(j) = k])]
      [] T.kind = "struct" ->
            IF T.version # S.version
            THEN migrate_from(T, Converted(CHOOSE P \in T.previous : TRUE, S, v))
            ELSE [n \in DOMAIN v |-> Converted(FieldOf(T, n).ty, FieldOf(S, n).ty, v[n])]

\* One write commits the store together with the version it now has.
Write ==
    /\ \E p \in pending : store' = p.store
    /\ version' = build /\ pending' = {}
    /\ want' = Converted(Builds[build], Builds[IF version = 0 THEN 1 ELSE version], want)
    /\ UNCHANGED <<chain, build, app>>

Loaded(n) == {r.v : r \in load(Builds[n], store, InnerPrefix, After(store[<<>>], 1))}

\* Node::run of the build that wrote the store: the application is loaded.
Start ==
    /\ app = {} /\ pending = {} /\ version = build
    /\ app' = Loaded(build)
    /\ UNCHANGED <<chain, store, version, build, pending, want>>

\* The process ends, in the middle of a migration or between two blocks.
Crash ==
    /\ app # {} \/ pending # {}
    /\ app' = {} /\ pending' = {}
    /\ UNCHANGED <<chain, store, version, build, want>>

\* A block inserts an entry of the application's map, puts one in the map of its
\* value, or removes it, and the change is applied to the store.
apply_change(T, st, at, maybe_value) ==
    IF maybe_value = {} THEN Without(st, Under(st, at))
    ELSE LET v == CHOOSE x \in maybe_value : TRUE
         IN  (at :> flush(T, v, FALSE)) @@ attach(T, v, at, FALSE, FALSE) @@ st

Block ==
    /\ \E v \in app :
          LET T == Builds[build]
              M == FieldOf(T, "m").ty
          IN  \E k \in KeyValues(M.key) :
                 LET at == field_keyop(T, FieldOf(T, "m"), InnerPrefix) \o encode(M.key, k, FALSE)
                     new == IF k \in DOMAIN v.m
                            THEN {{}} \cup {{[v.m[k] EXCEPT !.n = (j :> 1) @@ @]} : j \in Plain}
                            ELSE {{Default(M.value)}}
                 IN  \E maybe_value \in new :
                        /\ store' = apply_change(M.value, store, at, maybe_value)
                        /\ want' = [v EXCEPT !.m = IF maybe_value = {} THEN Without(@, {k})
                                                   ELSE (k :> CHOOSE x \in maybe_value : TRUE) @@ @]
    /\ app' = {want'}
    /\ UNCHANGED <<chain, version, build, pending>>

Next == Install \/ Migrate \/ Write \/ Start \/ Crash \/ Block

Spec == Init /\ [][Next]_vars

-----------------------------------------------------------------------------
\* Through migrations, skipped builds, crashes and blocks the store holds exactly
\* the value the chain agreed on, in the layout of the version it is marked with:
\* Map::migrate and Node::migrate leave no entry of the old layout behind, lose
\* none below a key or a prefix that changed, and write nothing before the mark.
StoreHoldsState == store = Written(version, want)

\* What the application loads at a start, the version bytes, prefixes and keys
\* of State::load read by the rules of the build that wrote them, is the value
\* that was written, and it is what the running application goes on from.
AppSeesState == app \subseteq {want} /\ (version # 0 => Loaded(version) = {want})
=============================================================================
