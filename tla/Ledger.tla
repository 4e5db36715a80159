------------------------------- MODULE Ledger --------------------------------
(***************************************************************************)
(* What the layered stores promise the chain: one tree on which the calls  *)
(* of the decided blocks are executed in order, a commit that makes the    *)
(* result durable together with its height, and nothing in between: a      *)
(* node that stops before the commit is back at the last committed block.  *)
(* Mempool checks and queries do not appear: they must be invisible.       *)
(***************************************************************************)
EXTENDS Application

VARIABLES working,    \* the state the next call is executed on
          committed,  \* the durable state
          height,     \* the height of the durable state
          blocks,     \* the blocks decided by the network, each a
                      \* sequence of transactions
          done        \* calls of block height + 1 executed on working

ledgerVars == <<working, committed, height, blocks, done>>

Apply(tree, call) ==
    IF Skipped(call) THEN tree ELSE View(Run(tree, tree, call).writes, tree)

LedgerInit ==
    /\ working \in InitialTrees
    /\ committed = working
    /\ height = 0
    /\ blocks = <<>>
    /\ done = 0

DecideBlock ==
    /\ Len(blocks) = height
    /\ Len(blocks) < MaxHeight
    /\ \E b \in Blocks : blocks' = Append(blocks, b)
    /\ UNCHANGED <<working, committed, height, done>>

ExecuteCall ==
    LET program == Program(blocks, height + 1) IN
    /\ done < Len(program)
    /\ working' = Apply(working, program[done + 1])
    /\ done' = done + 1
    /\ UNCHANGED <<committed, height, blocks>>

CommitBlock ==
    /\ height < Len(blocks)
    /\ done = Len(Program(blocks, height + 1))
    /\ committed' = working
    /\ height' = height + 1
    /\ done' = 0
    /\ UNCHANGED <<working, blocks>>

LoseWork ==
    /\ working' = committed
    /\ done' = 0
    /\ UNCHANGED <<committed, height, blocks>>

LedgerNext == DecideBlock \/ ExecuteCall \/ CommitBlock \/ LoseWork

LedgerSpec == LedgerInit /\ [][LedgerNext]_ledgerVars
=============================================================================
