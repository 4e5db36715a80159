---------------------------- MODULE Application -----------------------------
(***************************************************************************)
(* The application as the ABCI state machine drives it: InternalApp, which *)
(* loads the app's state from the empty key, runs one call on it and       *)
(* writes the state back.  The app's own logic is the parameter Exec.      *)
(***************************************************************************)
EXTENDS LayeredStore, Naturals, Sequences

CONSTANTS Root,          \* the empty key, where the encoded app state lives
          DefaultState,  \* the encoding of ABCIPlugin::<A>::default()
          Tx,            \* transactions
          MaxHeight,     \* bound: the last block that is decided
          SkipInitChain, \* Node::skip_init_chain
          InitialTrees,  \* the stores the node may first be opened on
          Blocks,        \* the blocks the network may decide: sequences of Tx
          Exec(_, _, _)  \* Exec(view, scan, call): what the app does when
                         \* point reads see view and iteration sees scan

Height == 1..MaxHeight

Call == {[type |-> "InitChain"]}
          \cup [type : {"BeginBlock", "EndBlock"}, height : Height]
          \cup [type : {"DeliverTx", "CheckTx"}, tx : Tx]

(***************************************************************************)
(* A call that returns has its state flushed, whether it returned Ok or    *)
(* Err, so the entry of the empty key is always among its writes.          *)
(***************************************************************************)
Outcome == {"ok", "err", "panic"}

Result == [writes : Buffer, outcome : Outcome]

ASSUME ApplicationAssumption ==
    /\ Root \in Key
    /\ DefaultState \in Value
    /\ MaxHeight \in Nat
    /\ SkipInitChain \in BOOLEAN
    /\ InitialTrees \subseteq Tree
    /\ Blocks \subseteq Seq(Tx)
    /\ \A v \in Tree, s \in Tree, c \in Call :
          /\ Exec(v, s, c) \in Result
          /\ Exec(v, s, c).writes[Root] \in Value

(***************************************************************************)
(* InternalApp::run.  A missing state is first put with its default; the   *)
(* call then sees it.  After a panic the mutex is poisoned and the state   *)
(* is dropped instead of flushed, but the default already put remains.     *)
(***************************************************************************)
InitialState(view) ==
    IF view[Root] = Absent
    THEN [EmptyBuffer EXCEPT ![Root] = DefaultState]
    ELSE EmptyBuffer

Run(view, scan, call) ==
    LET default == InitialState(view)
        result  == Exec(View(default, view), View(default, scan), call)
    IN  [writes  |-> IF result.outcome = "panic"
                     THEN default
                     ELSE Flush(result.writes, default),
         outcome |-> result.outcome]

(***************************************************************************)
(* With skip_init_chain set the InitChain request is answered without      *)
(* reaching the app.                                                       *)
(***************************************************************************)
Skipped(call) == SkipInitChain /\ call.type = "InitChain"

(***************************************************************************)
(* Tendermint (external): the calls that make up block h of the decided    *)
(* blocks bs, in the order they are sent.  InitChain is sent before the    *)
(* first block and does not wait for it to be decided.                     *)
(***************************************************************************)
Program(bs, h) ==
    (IF h = 1 THEN <<[type |-> "InitChain"]>> ELSE <<>>)
      \o IF h \notin DOMAIN bs THEN <<>> ELSE
           <<[type |-> "BeginBlock", height |-> h]>>
             \o [i \in 1..Len(bs[h]) |-> [type |-> "DeliverTx", tx |-> bs[h][i]]]
             \o <<[type |-> "EndBlock", height |-> h]>>
=============================================================================
