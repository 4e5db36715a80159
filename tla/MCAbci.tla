------------------------------- MODULE MCAbci --------------------------------
(***************************************************************************)
(* A small application for Abci: calls that read, overwrite, delete, fail  *)
(* half-way and panic, so that their order and the state they see matter.  *)
(***************************************************************************)
EXTENDS Abci

MCKey == {"root", "a", "b"}
MCValue == 0..1

RootValue(view) == IF view["root"] \in MCValue THEN view["root"] ELSE 0

Writes(view, f) == [k \in MCKey |-> IF k \in DOMAIN f THEN f[k]
                                    ELSE IF k = "root" THEN RootValue(view)
                                    ELSE Clean]

TxResult(view, tx) ==
    CASE tx = "copy" -> [writes |-> Writes(view, [b |-> view["a"]]),
                         outcome |-> "ok"]
      [] tx = "drop" -> [writes |-> Writes(view, [a |-> Absent]),
                         outcome |-> "ok"]
      [] tx = "fail" -> [writes |-> Writes(view, [a |-> RootValue(view)]),
                         outcome |-> "err"]
      [] tx = "bomb" -> [writes |-> Writes(view, [a |-> 0]),
                         outcome |-> "panic"]

MCExec(view, scan, call) ==
    CASE call.type = "InitChain" ->
           [writes |-> Writes(view, [a |-> 1]), outcome |-> "ok"]
      [] call.type = "BeginBlock" ->
           [writes |-> Writes(view, [root |-> 1 - RootValue(view)]),
            outcome |-> "ok"]
      [] call.type = "EndBlock" ->
           [writes |-> Writes(view, [a |-> IF view["b"] = Absent THEN 0
                                           ELSE view["b"]]),
            outcome |-> "ok"]
      [] call.type \in {"DeliverTx", "CheckTx"} ->
           TxResult(view, call.tx)

\* An app whose BeginBlock refuses to run once the state says so, as the
\* upgrade module does on a version mismatch, and whose genesis fails on a
\* store that has such a state; EndBlock may panic.
MCFailingExec(view, scan, call) ==
    IF call.type \in {"InitChain", "BeginBlock"} /\ view["b"] = 1
    THEN [MCExec(view, scan, call) EXCEPT !.outcome = "err"]
    ELSE IF call.type = "EndBlock" /\ view["a"] = 0 /\ view["b"] = Absent
    THEN [MCExec(view, scan, call) EXCEPT !.outcome = "panic"]
    ELSE MCExec(view, scan, call)

MCEmpty  == {EmptyTree}
MCLegacy == {[k \in MCKey |-> IF k = "b" THEN Absent ELSE 1]}
MCEither == {EmptyTree, [EmptyTree EXCEPT !["b"] = 1]}

MCBlocks == {<<>>, <<"copy">>, <<"drop", "copy">>, <<"fail", "drop">>,
             <<"copy", "fail">>}
MCAllBlocks == MCBlocks \cup {<<"fail", "bomb">>}
=============================================================================
