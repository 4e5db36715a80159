--------------------------------- MODULE Setup ---------------------------------
(* What a node does to its home directory before and when it runs: Node::new,  *)
(* Node::reset and Node::run with the Tendermint wrapper they use.  The process *)
(* may end between any two steps; the files stay, and it is started again.     *)
(*                                                                             *)
(* A file is absent or its contents, or what a write that was cut off leaves.  *)
(* The contents of config.toml are the settings that were changed in it; those *)
(* of genesis.json, the chain it is for.  A write is two steps, as fs::write    *)
(* and File::create truncate the file first.                                   *)
EXTENDS Integers

CONSTANTS Defaults,   \* the settings DefaultConfig has: of seeds, timeout_commit
          Edits,      \* the settings a program may make with Tendermint's own methods
          MaxBlocks   \* bound: the height of the chain

VARIABLES opts,     \* how the program builds its node: [chain_id, genesis_bytes]
          home,     \* the home directory: [tm_home, binary, mode, config, genesis, merk, tm]
          stage,    \* the next step of the program, "off" when it is not running
          first,    \* tm_previously_configured is false
          wrote,    \* what the program has begun to write
          doc,      \* config_contents: config.toml as it was read, and edited
          chain_id  \* the ChainId of the context, "none" before it is added

home_vars == <<opts, home, stage, first, wrote, doc, chain_id>>

NoFile == {"none"}
Cut == {"partial"}

Goto(step) == stage' = step
AtStage(step) == stage = step

HomeInit ==
    /\ opts \in [chain_id : {"default", "chosen"}, genesis_bytes : {"none", "given"}]
    /\ home = [tm_home |-> FALSE, binary |-> "none", mode |-> "plain", config |-> NoFile,
               genesis |-> "none", merk |-> 0, tm |-> 0]
    /\ stage = "off" /\ first = TRUE /\ wrote = "none" /\ chain_id = "none"
    /\ doc = NoFile

-----------------------------------------------------------------------------
(* Node::new: make the directories, and look whether there is a configuration. *)
new ==
    /\ AtStage("off") /\ Goto("install for init")
    /\ home' = [home EXCEPT !.tm_home = TRUE]
    /\ first' = (home.config = NoFile)
    /\ chain_id' = "none" /\ wrote' = "none" /\ doc' = NoFile
    /\ UNCHANGED opts

\* Tendermint::install: nothing if the binary is executable.  Otherwise the file
\* is made, written, and only then made executable.
is_executable == home.mode = "executable"

AfterInstall(step) == IF step = "install for init" THEN "init"
                      ELSE IF step = "install for reset" THEN "unsafe_reset_all" ELSE "apply_genesis"

InstallStep(step) ==
    IF is_executable THEN Goto(AfterInstall(step)) /\ UNCHANGED home
    ELSE IF home.binary = "none" \/ wrote # step
    THEN Goto(step) /\ home' = [home EXCEPT !.binary = "partial"]
    ELSE IF home.binary = "partial"
    THEN Goto(step) /\ home' = [home EXCEPT !.binary = "complete"]
    ELSE Goto(AfterInstall(step)) /\ home' = [home EXCEPT !.mode = "executable"]

install ==
    \E step \in {"install for init", "install for reset", "install for start"} :
        /\ AtStage(step) /\ InstallStep(step) /\ wrote' = step
        /\ UNCHANGED <<opts, first, doc, chain_id>>

\* Tendermint::init: the command writes the files that are not there.
init ==
    /\ AtStage("init")
    /\ IF home.config = NoFile THEN home' = [home EXCEPT !.config = {}] /\ Goto("init")
       ELSE IF home.genesis = "none"
       THEN home' = [home EXCEPT !.genesis = "default"] /\ Goto("init")
       ELSE Goto(IF first THEN "configure" ELSE "abci_port") /\ UNCHANGED home
    /\ wrote' = "none"
    /\ UNCHANGED <<opts, first, doc, chain_id>>

\* A file that was cut off does not parse: the program panics.
Panic == Goto("off") /\ UNCHANGED home

\* The defaults go into the first configuration, one read and one write each.
write_toml ==
    /\ AtStage("configure") /\ wrote' = "none"
    /\ IF home.config = Cut THEN Panic
       ELSE LET left == Defaults \ home.config
                next == IF "seeds" \in left THEN "seeds" ELSE "timeout_commit"
            IN  IF left = {} THEN Goto("chain_id") /\ UNCHANGED home
                ELSE /\ Goto(next)
                     /\ home' = [home EXCEPT !.config = Cut]
    /\ UNCHANGED <<opts, first, doc, chain_id>>

finish_toml ==
    /\ stage \in Defaults
    /\ home' = [home EXCEPT !.config = IF stage = "seeds" THEN {"seeds"} ELSE Defaults]
    /\ Goto("configure")
    /\ UNCHANGED <<opts, first, wrote, doc, chain_id>>

\* Then the chain ID into the first genesis file.
write_chain_id ==
    /\ AtStage("chain_id")
    /\ IF home.genesis = "partial" /\ wrote # "genesis" THEN Panic /\ UNCHANGED <<wrote, chain_id>>
       ELSE IF wrote # "genesis"
       THEN /\ Goto("chain_id") /\ wrote' = "genesis"
            /\ chain_id' = (IF opts.chain_id = "chosen" THEN "chosen" ELSE home.genesis)
            /\ home' = [home EXCEPT !.genesis = "partial"]
       ELSE /\ Goto("abci_port") /\ wrote' = "none"
            /\ home' = [home EXCEPT !.genesis = chain_id]
            /\ UNCHANGED chain_id
    /\ UNCHANGED <<opts, first, doc>>

\* The port of the server is read from the configuration.
abci_port ==
    /\ AtStage("abci_port")
    /\ IF home.config = Cut THEN Panic ELSE Goto("built") /\ UNCHANGED home
    /\ wrote' = "none" /\ UNCHANGED <<opts, first, doc, chain_id>>

-----------------------------------------------------------------------------
\* A variant: the store stays.
reset_KeepsStore ==
    /\ AtStage("built") /\ Goto("install for reset") /\ wrote' = "none"
    /\ UNCHANGED <<opts, home, first, doc, chain_id>>

\* Node::reset: the store is removed, then Tendermint's data.
reset ==
    /\ AtStage("built") /\ Goto("install for reset") /\ wrote' = "none"
    /\ home' = [home EXCEPT !.merk = 0]
    /\ UNCHANGED <<opts, first, doc, chain_id>>

unsafe_reset_all ==
    /\ AtStage("unsafe_reset_all") /\ Goto("built")
    /\ home' = [home EXCEPT !.tm = 0]
    /\ UNCHANGED <<opts, first, wrote, doc, chain_id>>

\* state_sync, rpc_servers, trust_height, trust_hash and block_time: the file is
\* read once, and written when Tendermint is started.
edit(setting) ==
    /\ AtStage("built")
    /\ LET document == IF doc = NoFile THEN home.config ELSE doc
       IN  IF document = Cut THEN Panic /\ UNCHANGED doc
           ELSE doc' = document \cup {setting} /\ Goto("built") /\ UNCHANGED home
    /\ UNCHANGED <<opts, first, wrote, chain_id>>

\* Node::run, and Tendermint::start in it.
run ==
    /\ AtStage("built") /\ Goto("install for start") /\ wrote' = "none"
    /\ UNCHANGED <<opts, home, first, doc, chain_id>>

apply_genesis ==
    /\ AtStage("apply_genesis")
    /\ IF opts.genesis_bytes = "none" THEN Goto("write_config_toml") /\ UNCHANGED <<home, wrote>>
       ELSE IF wrote # "genesis"
       THEN /\ Goto("apply_genesis") /\ wrote' = "genesis"
            /\ home' = [home EXCEPT !.genesis = "partial"]
       ELSE /\ Goto("write_config_toml") /\ wrote' = "none"
            /\ home' = [home EXCEPT !.genesis = opts.genesis_bytes]
    /\ UNCHANGED <<opts, first, doc, chain_id>>

write_config_toml ==
    /\ AtStage("write_config_toml")
    /\ IF doc = NoFile THEN Goto("spawn") /\ UNCHANGED <<home, wrote>>
       ELSE IF wrote # "config"
       THEN /\ Goto("write_config_toml") /\ wrote' = "config"
            /\ home' = [home EXCEPT !.config = Cut]
       ELSE /\ Goto("spawn") /\ wrote' = "none"
            /\ home' = [home EXCEPT !.config = doc]
    /\ UNCHANGED <<opts, first, doc, chain_id>>

\* The chain ID the application sees is that of the genesis file as it is now.
spawn ==
    /\ AtStage("spawn") /\ wrote' = "none"
    /\ IF home.genesis = "partial" \/ home.config = Cut THEN Panic /\ UNCHANGED chain_id
       ELSE Goto("running") /\ chain_id' = home.genesis /\ UNCHANGED home
    /\ UNCHANGED <<opts, first, doc>>

\* Tendermint stores a block before the application executes and commits it; after
\* a restart it replays the blocks the application does not have.
StoreBlock ==
    /\ AtStage("running") /\ home.merk = home.tm /\ home.tm < MaxBlocks
    /\ home' = [home EXCEPT !.tm = @ + 1]
    /\ UNCHANGED <<opts, stage, first, wrote, doc, chain_id>>
CommitBlock ==
    /\ AtStage("running") /\ home.merk < home.tm
    /\ home' = [home EXCEPT !.merk = @ + 1]
    /\ UNCHANGED <<opts, stage, first, wrote, doc, chain_id>>

HomeCrash ==
    /\ ~AtStage("off") /\ Goto("off")
    /\ UNCHANGED <<opts, home, first, wrote, doc, chain_id>>

HomeNext ==
    \/ new \/ install \/ init \/ write_toml \/ finish_toml \/ write_chain_id \/ abci_port
    \/ reset \/ unsafe_reset_all \/ run \/ apply_genesis
    \/ write_config_toml \/ spawn \/ (\E setting \in Edits : edit(setting))
    \/ StoreBlock \/ CommitBlock \/ HomeCrash

HomeSpec == HomeInit /\ [][HomeNext]_home_vars

-----------------------------------------------------------------------------
\* Wherever earlier starts were cut off, Tendermint::install, with_genesis and
\* Node::reset leave a node that runs with a whole Tendermint binary, on the
\* genesis file it was given and with the chain ID in it, with the settings the
\* program made and all earlier ones, over an application that is not ahead of
\* Tendermint's blocks, which Tendermint would refuse.
NodesStartSound ==
    /\ AtStage("running") => /\ home.binary = "complete"
                             /\ home.genesis = chain_id
                             /\ opts.genesis_bytes = "given" => home.genesis = "given"
                             /\ doc # NoFile => home.config = doc
    /\ home.merk <= home.tm
=============================================================================
