------------------------------- MODULE Messages -------------------------------
(* Calls and queries: how a message for a method somewhere below a field of   *)
(* the application is encoded, how the node decodes it again, and how a client *)
(* finds the receiver of a query from a store key it could not read.          *)
(*                                                                            *)
(* A type is a record [id, kind, fields, calls, queries, value]: a struct has *)
(* fields [op, prefix, call, public, ty], a collection has a value type, and  *)
(* calls and queries list the methods, each with the length of its arguments. *)
(* A message is a sequence of items, a field or a method with its arguments.  *)
(* A result that may be an error is a set: {} is the error, {x} is x.         *)
EXTENDS Integers, SequencesExt

\* The items of a message: variants of the FieldCall and FieldQuery enums, and
\* of the MethodCall and MethodQuery enums.
Field(i) == [field |-> i, method |-> 0, args |-> <<>>]
Method(m, args) == [field |-> 0, method |-> m, args |-> args]

\* Methods are numbered from the offset, fields are below it.
PREFIX_OFFSET(kind) == IF kind = "call" THEN 64 ELSE 128

\* A call reaches the fields tagged #[call], a query the public ones.
call_fields(T) == {i \in DOMAIN T.fields : T.fields[i].call}
query_fields(T) == {i \in DOMAIN T.fields : T.fields[i].public}
Exposed(kind, T) == IF kind = "call" THEN call_fields(T) ELSE query_fields(T)

call_methods(T) == T.calls
query_methods(T) == T.queries
Methods(kind, T) == IF kind = "call" THEN call_methods(T) ELSE query_methods(T)

\* The bytes of `get`, the query that leads into a collection's value.
GetMethod == 2
apply_query_bytes(bytes) == Append(bytes, PREFIX_OFFSET("query") + GetMethod - 1)

\* Only a query goes on in the value its method returned, and only `get`
\* returns one that has queries.
method_query(T, m) == IF T.kind = "dynamic" /\ m = GetMethod THEN {T.value} ELSE {}
Result(kind, T, m) == IF kind = "query" THEN method_query(T, m) ELSE {}

After(bytes, n) == SubSeq(bytes, n + 1, Len(bytes))

-----------------------------------------------------------------------------
\* A field is its store prefix; an absolute prefix cannot be encoded.
FieldEncode(f, sub) == IF f.op = "Append" THEN {f.prefix \o sub} ELSE {}

\* A method is its number plus the offset, and its arguments.
ItemEncode(kind, item, sub) ==
    LET m == item.method - 1
    IN  IF m >= PREFIX_OFFSET(kind) THEN {}
        ELSE {<<m + PREFIX_OFFSET(kind)>> \o item.args \o sub}

RECURSIVE encode(_, _, _)
encode(kind, T, message) ==
    IF message = <<>> THEN {<<>>}
    ELSE LET item == Head(message)
             f == T.fields[item.field]
         IN  IF item.field # 0
             THEN UNION {FieldEncode(f, sub) : sub \in encode(kind, f.ty, Tail(message))}
             ELSE IF Tail(message) = <<>> THEN ItemEncode(kind, item, <<>>)
             ELSE UNION {ItemEncode(kind, item, sub) :
                            sub \in UNION {encode(kind, V, Tail(message)) :
                                              V \in Result(kind, T, item.method)}}

\* The field a message goes to: the first one, in the order of declaration,
\* that is exposed and whose prefix the bytes start with.
MatchingField(kind, T, bytes) ==
    SelectInSeq([i \in DOMAIN T.fields |-> i],
                LAMBDA i : /\ i \in Exposed(kind, T) /\ T.fields[i].op = "Append"
                           /\ IsPrefix(T.fields[i].prefix, bytes))

\* The method a message goes to, with its arguments: [m, args, rest].
MatchingMethod(kind, T, bytes) ==
    LET m == Head(bytes) - PREFIX_OFFSET(kind) + 1
    IN  IF m > Len(Methods(kind, T)) \/ Len(bytes) <= Methods(kind, T)[m].args THEN {}
        ELSE {[m |-> m, args |-> SubSeq(bytes, 2, 1 + Methods(kind, T)[m].args),
               rest |-> After(bytes, 1 + Methods(kind, T)[m].args)]}

\* A first byte below the offset is a field's, another one a method's.  Bytes
\* left over after a plain value or a call are ignored.  The no-op variant after
\* the last method, which no client builds, is left out.
RECURSIVE decode(_, _, _)
decode(kind, T, bytes) ==
    IF T.kind = "none" THEN {<<>>}
    ELSE IF bytes = <<>> THEN {}
    ELSE IF Head(bytes) < PREFIX_OFFSET(kind)
    THEN LET i == MatchingField(kind, T, bytes)
         IN  IF i = 0 THEN {}
             ELSE {<<Field(i)>> \o sub :
                      sub \in decode(kind, T.fields[i].ty, After(bytes, Len(T.fields[i].prefix)))}
    ELSE UNION {IF r.rest = <<>> \/ Result(kind, T, r.m) = {} THEN {<<Method(r.m, r.args)>>}
                ELSE {<<Method(r.m, r.args)>> \o sub :
                         sub \in UNION {decode(kind, V, r.rest) : V \in Result(kind, T, r.m)}} :
                r \in MatchingMethod(kind, T, bytes)}

-----------------------------------------------------------------------------
\* The query prefix of the value of the target type that a store key lies in:
\* down the first field whose prefix matches, or into the value whose key the
\* store key continues with.
RECURSIVE resolve_by_type_id(_, _, _, _, _)
resolve_by_type_id(T, target, read_key, self_store_key, out_bytes) ==
    LET child_key == After(read_key, Len(self_store_key))
    IN  IF T.id = target THEN {out_bytes}
        ELSE IF T.kind = "named"
        THEN LET i == SelectInSeq(T.fields, LAMBDA f : /\ f.op = "Append"
                                                       /\ IsPrefix(f.prefix, child_key))
             IN  IF i = 0 THEN {}
                 ELSE resolve_by_type_id(T.fields[i].ty, target, read_key,
                                         self_store_key \o T.fields[i].prefix,
                                         out_bytes \o T.fields[i].prefix)
        ELSE IF T.kind = "dynamic" /\ child_key # <<>>
        THEN LET key == SubSeq(child_key, 1, 1)
             IN  resolve_by_type_id(T.value, target, read_key, self_store_key \o key,
                                    apply_query_bytes(out_bytes) \o key)
        ELSE {}

\* The receiver of a message: its type, and the prefix of its store.
RECURSIVE receiver(_, _, _)
receiver(T, prefix, message) ==
    IF Len(message) = 1 THEN [ty |-> T, prefix |-> prefix]
    ELSE IF Head(message).field # 0
    THEN LET f == T.fields[Head(message).field]
         IN  receiver(f.ty, IF f.op = "Append" THEN prefix \o f.prefix ELSE f.prefix, Tail(message))
    ELSE receiver(T.value, prefix \o Head(message).args, Tail(message))
=============================================================================
